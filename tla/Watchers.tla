------------------------------ MODULE Watchers ------------------------------
(***************************************************************************)
(* The loop of one Lua state and its watchers: cLoop, cTimer, cIdle,       *)
(* cPrepare, cPoll and cAsync, with the part of libuv 1.12 (Windows) and   *)
(* of the reference system of Lua 5.3 (luaL_ref) that they rest on.        *)
(*                                                                         *)
(* The Lua thread runs the script (pc = "script", where the collector may  *)
(* run too) or is inside uv_run.  No script code and no collection happens *)
(* inside uv_run: common_handle_cb only puts the callback into a table.    *)
(* Another thread, a sender, may hold the VM, and with it the async        *)
(* watcher, at any time.                                                   *)
(*                                                                         *)
(* A callback function is named by its watcher.  The table of fired        *)
(* callbacks is the set `queued`: order and repetition are not looked at.  *)
(* Of the two requests that a poll may have out, one stands for both; both *)
(* are in Sockets.                                                         *)
(* uv_ref and uv_unref are called on the wrong object (HandleMethod), so   *)
(* every active watcher keeps its loop alive.                              *)
(*                                                                         *)
(* Undefined behaviour ends the process, crash saying why, or has no       *)
(* effect that this model sees.  blame is history: whether the loop was    *)
(* collected before a watcher, and the VM while a sender held it.          *)
(***************************************************************************)
EXTENDS Integers, Sequences

CONSTANTS
    Watcher,
    Queue       \* the table of fired callbacks, as a value in the registry

\* The registry tells functions and tables from the numbers of its free list.
ASSUME WatcherAssumption ==
    /\ Queue \notin Watcher
    /\ (Watcher \cup {Queue}) \cap Nat = {}

VARIABLES
    loop,       \* "none", "new", "failed", "open", "closed" or "freed"
    stopFlag,   \* loop->stop_flag
    queueRef,   \* cLoopInfo::msg_queue_handle
    queued,     \* the callbacks in the table
    kind,       \* kind[w]: "none" before __new__, "tick" for cIdle and cPrepare
    obj,        \* obj[w]: "none", "new", "half" (in the loop, though __init__ failed),
                \* "ready", "closing", "closed" or "lost"
    held,       \* the watchers whose userdata has not been collected
    cbRef,      \* cbRef[w]: cHandleInfo::callback_handle
    active,     \* the active handles
    req,        \* the handles with a request submitted and not yet processed
    registry,   \* LUA_REGISTRYINDEX: the references and the head of the free list
    pc, mode,   \* where the Lua thread is, and the mode of its uv_run
    fired,      \* the watchers that had their turn in this iteration
    vm,         \* "none", "live", "dying" (only a sender holds it) or "gone"
    vmAsync,    \* cVmContext::asyncWatcher_, Queue before there is one
    sender,     \* whether another thread holds the VM
    crash, blame

loopVars == <<loop, stopFlag, queueRef, queued>>
objVars == <<kind, obj, held, cbRef, active, req>>
runVars == <<pc, mode, fired>>
vmVars == <<vm, vmAsync, sender>>
vars == <<loopVars, objVars, registry, runVars, vmVars, crash, blame>>

LUA_NOREF == -2
Modes == {"default", "once", "nowait"}
Kinds == {"timer", "tick", "poll", "async"}

Init ==
    /\ loop = "none" /\ stopFlag = FALSE /\ queueRef = LUA_NOREF /\ queued = {}
    /\ obj = [w \in Watcher |-> "none"] /\ kind = [w \in Watcher |-> "none"]
    /\ held = {}
    /\ cbRef = [w \in Watcher |-> LUA_NOREF]
    /\ active = {} /\ req = {}
    /\ registry = [free |-> 0, t |-> <<>>]
    /\ pc = "script" /\ mode = "none" /\ fired = {}
    /\ vm = "none" /\ vmAsync = Queue /\ sender = FALSE
    /\ crash = "no" /\ blame = {}

-----------------------------------------------------------------------------
(***************************************************************************)
(* References.  A free slot holds the index of the next free slot.         *)
(***************************************************************************)
FreshRef(r) == IF r.free # 0 THEN r.free ELSE Len(r.t) + 1

Ref(r, value) ==
    IF r.free # 0 THEN [free |-> r.t[r.free], t |-> [r.t EXCEPT ![r.free] = value]]
                  ELSE [r EXCEPT !.t = Append(@, value)]

Unref(r, ref) ==
    IF ref < 0 THEN r
               ELSE [free |-> ref, t |-> [r.t EXCEPT ![ref] = r.free]]

-----------------------------------------------------------------------------
(***************************************************************************)
(* The loop object.                                                        *)
(***************************************************************************)
LoopNew ==
    /\ pc = "script" /\ loop = "none"
    /\ loop' = "new"
    /\ UNCHANGED <<stopFlag, queueRef, queued, objVars, registry, runVars, vmVars, crash, blame>>

\* uv_loop_init may fail; queue and cLoopInfo are there all the same.
LoopInit ==
    /\ pc = "script" /\ loop = "new"
    /\ queueRef' = FreshRef(registry)
    /\ registry' = Ref(registry, Queue)
    /\ \E outcome \in {"open", "failed"} : loop' = outcome
    /\ UNCHANGED <<stopFlag, queued, objVars, runVars, vmVars, crash, blame>>

LoopStop ==
    /\ pc = "script" /\ loop = "open"
    /\ stopFlag' = TRUE
    /\ UNCHANGED <<loop, queueRef, queued, objVars, registry, runVars, vmVars, crash, blame>>

\* uv_loop_close: UV_EBUSY while a handle is in the loop.
Busy == \E w \in Watcher : obj[w] \in {"half", "ready", "closing"}

LoopClose ==
    /\ pc = "script" /\ loop = "open" /\ ~Busy
    /\ loop' = "closed"
    /\ UNCHANGED <<stopFlag, queueRef, queued, objVars, registry, runVars, vmVars, crash, blame>>

\* __gc ignores what uv_loop_close answers: a busy loop is deleted too.
LoopGc ==
    /\ pc = "script" /\ loop \in {"new", "failed", "open", "closed"}
    /\ blame' = IF \E w \in held : obj[w] \in {"half", "ready"} THEN blame \cup {"loop dropped"} ELSE blame
    /\ \/ /\ loop = "closed" /\ crash' = "loop closed twice"
          /\ UNCHANGED <<loop, queueRef, registry>>
       \/ /\ loop \in {"new", "failed"} /\ crash' = "uninitialised"
          /\ UNCHANGED <<loop, queueRef, registry>>
       \/ /\ loop # "new"       \* the null pointer in data is fatal
          /\ loop' = "freed"
          /\ registry' = Unref(registry, queueRef)
          /\ queueRef' = LUA_NOREF
          /\ UNCHANGED crash
    /\ UNCHANGED <<stopFlag, queued, objVars, runVars, vmVars>>

-----------------------------------------------------------------------------
(***************************************************************************)
(* Watcher objects.  An __init__ that fails before the handle is in the    *)
(* loop changes nothing: the object stays "new".                           *)
(***************************************************************************)
WatcherNew(w, k) ==
    /\ pc = "script" /\ obj[w] = "none"
    /\ kind' = [kind EXCEPT ![w] = k]
    /\ obj' = [obj EXCEPT ![w] = "new"]
    /\ held' = held \cup {w}
    /\ UNCHANGED <<loopVars, cbRef, active, req, registry, runVars, vmVars, crash, blame>>

WatcherInit(w) ==
    /\ pc = "script" /\ loop = "open" /\ obj[w] = "new" /\ w \in held
    /\ kind[w] # "async"
    /\ obj' = [obj EXCEPT ![w] = "ready"]
    /\ UNCHANGED <<loopVars, kind, held, cbRef, active, req, registry, runVars, vmVars, crash, blame>>

\* uv_poll_init_socket put the handle into the loop, and then could not find out
\* what socket it has.
PollInitFails(w) ==
    /\ pc = "script" /\ loop = "open" /\ obj[w] = "new" /\ w \in held
    /\ kind[w] = "poll"
    /\ obj' = [obj EXCEPT ![w] = "half"]
    /\ UNCHANGED <<loopVars, kind, held, cbRef, active, req, registry, runVars, vmVars, crash, blame>>

\* The callback that start or cAsync's __init__ was given takes the place of
\* the previous one.
ReplaceCallback(w) ==
    /\ cbRef' = [cbRef EXCEPT ![w] = FreshRef(Unref(registry, @))]
    /\ registry' = Ref(Unref(registry, cbRef[w]), w)

\* A cAsync gets its callback here and is active from now on.
AsyncInit(w) ==
    /\ pc = "script" /\ loop = "open" /\ obj[w] = "new" /\ w \in held
    /\ kind[w] = "async"
    /\ obj' = [obj EXCEPT ![w] = "ready"]
    /\ ReplaceCallback(w)
    /\ active' = active \cup {w}
    /\ UNCHANGED <<loopVars, kind, held, req, runVars, vmVars, crash, blame>>

\* A second __init__, which a cAsync expects, puts a handle into the loop's list
\* that is in it already.
InitAgain(w) ==
    /\ pc = "script" /\ loop = "open" /\ obj[w] \in {"half", "ready"} /\ w \in held
    /\ crash' = "initialised twice"
    /\ IF kind[w] = "async" THEN ReplaceCallback(w) ELSE UNCHANGED <<cbRef, registry>>
    /\ UNCHANGED <<loopVars, kind, obj, held, active, req, runVars, vmVars, blame>>

\* A handle of a loop that was deleted must not be used.
Usable(w) == pc = "script" /\ w \in held /\ obj[w] = "ready" /\ loop = "open"

\* A timer may be started with nil for a callback.
TimerStart(w) ==
    /\ Usable(w) /\ kind[w] = "timer"
    /\ \/ ReplaceCallback(w)
       \/ /\ registry' = Unref(registry, cbRef[w])
          /\ cbRef' = [cbRef EXCEPT ![w] = LUA_NOREF]
    /\ active' = active \cup {w}
    /\ UNCHANGED <<loopVars, kind, obj, held, req, runVars, vmVars, crash, blame>>

TickStart(w) ==
    /\ Usable(w) /\ kind[w] = "tick"
    /\ ReplaceCallback(w)
    /\ active' = active \cup {w}
    /\ UNCHANGED <<loopVars, kind, obj, held, req, runVars, vmVars, crash, blame>>

\* The callback is replaced whether or not uv_poll_start succeeds.
PollStart(w) ==
    /\ Usable(w) /\ kind[w] = "poll"
    /\ ReplaceCallback(w)
    /\ \/ active' = active \cup {w} /\ req' = req \cup {w}
       \/ UNCHANGED <<active, req>>
    /\ UNCHANGED <<loopVars, kind, obj, held, runVars, vmVars, crash, blame>>

\* Mutant: the reference is given back but not forgotten.
StopKeepsRef(w) ==
    /\ Usable(w) /\ kind[w] # "async"
    /\ active' = active \ {w}
    /\ registry' = Unref(registry, cbRef[w])
    /\ UNCHANGED <<loopVars, kind, obj, held, cbRef, req, runVars, vmVars, crash, blame>>

Stop(w) ==
    /\ Usable(w) /\ kind[w] # "async"
    /\ active' = active \ {w}
    /\ registry' = Unref(registry, cbRef[w])
    /\ cbRef' = [cbRef EXCEPT ![w] = LUA_NOREF]
    /\ UNCHANGED <<loopVars, kind, obj, held, req, runVars, vmVars, crash, blame>>

\* uv_async_send coalesces.
AsyncSend(w) ==
    /\ Usable(w) /\ kind[w] = "async"
    /\ req' = req \cup {w}
    /\ UNCHANGED <<loopVars, kind, obj, held, cbRef, active, registry, runVars, vmVars, crash, blame>>

\* isActive, ref, unRef and hasRef take the shared_ptr for the handle.
HandleMethod(w) ==
    /\ Usable(w)
    /\ crash' = "wrong object"
    /\ UNCHANGED <<loopVars, objVars, registry, runVars, vmVars, blame>>

\* Mutant: the handle is stopped and not closed.
DeleterStops(w, foreign) ==
    /\ active' = active \ {w}
    /\ UNCHANGED <<obj, crash>>

\* The deleter of the shared_ptr, run by whoever drops the last one: uv_close.
\* What an unfinished __init__ left in a handle tells whether requests are out, for
\* which it would wait for ever.
Deleter(w, foreign) ==
    LET inLoop == obj[w] \in {"half", "ready"}
        danger == CASE obj[w] \in {"closing", "closed", "lost"} -> "closed twice"
                    [] inLoop /\ loop = "freed" -> "loop gone"
                    [] obj[w] = "new" \/ (obj[w] = "half" /\ loop # "freed") -> "uninitialised"
                    [] obj[w] = "ready" /\ loop # "freed" ->
                        IF foreign THEN "close on another thread" ELSE "no"
        ends == CASE danger = "loop gone" \/ ~inLoop -> {"lost"}
                  [] danger = "uninitialised" /\ inLoop -> {"half", "closing"}
                  [] OTHER -> {"closing"}
    IN  /\ active' = active \ {w}
        /\ \/ /\ danger # "no" /\ crash' = danger
              /\ UNCHANGED obj
           \/ /\ \E end \in ends : obj' = [obj EXCEPT ![w] = end]
              /\ UNCHANGED crash

VmHolds(w) == vm \in {"live", "dying"} /\ vmAsync = w

\* Mutant: the userdata owns the handle alone.
WatcherGcAlone(w) ==
    /\ pc = "script" /\ w \in held /\ ~(vm = "live" /\ vmAsync = w)
    /\ held' = held \ {w}
    /\ Deleter(w, FALSE)
    /\ UNCHANGED <<loopVars, kind, cbRef, req, registry, runVars, vmVars, blame>>

\* The table MEMBER_VAR_MAP keeps the async watcher of a live VM.
WatcherGc(w) ==
    /\ pc = "script" /\ w \in held /\ ~(vm = "live" /\ vmAsync = w)
    /\ held' = held \ {w}
    /\ IF VmHolds(w) THEN UNCHANGED <<obj, active, crash>> ELSE Deleter(w, FALSE)
    /\ UNCHANGED <<loopVars, kind, cbRef, req, registry, runVars, vmVars, blame>>

\* start, stop or send on a watcher whose loop has been deleted.
UseWithoutLoop(w) ==
    /\ pc = "script" /\ w \in held /\ obj[w] = "ready" /\ loop = "freed"
    /\ crash' = "loop gone"
    /\ UNCHANGED <<loopVars, objVars, registry, runVars, vmVars, blame>>

\* A method that works on a handle which no __init__, or a failed one, was called for.
UseUninitialised(w) ==
    /\ pc = "script" /\ w \in held /\ obj[w] \in {"new", "half"}
    /\ crash' = "uninitialised"
    /\ UNCHANGED <<loopVars, objVars, registry, runVars, vmVars, blame>>

\* The script calls the functions in the table and empties it.
Drain ==
    /\ pc = "script" /\ queued # {}
    /\ queued' = {}
    /\ UNCHANGED <<loop, stopFlag, queueRef, objVars, registry, runVars, vmVars, crash, blame>>

-----------------------------------------------------------------------------
(***************************************************************************)
(* The VM, which shares its async watcher, and a sender that holds the VM. *)
(***************************************************************************)
VmNew(w) ==
    /\ Usable(w) /\ kind[w] = "async" /\ vm = "none"
    /\ vm' = "live" /\ vmAsync' = w
    /\ UNCHANGED <<loopVars, objVars, registry, runVars, sender, crash, blame>>

VmGc ==
    /\ pc = "script" /\ vm = "live"
    /\ vm' = IF sender THEN "dying" ELSE "gone"
    /\ blame' = IF sender THEN blame \cup {"sender holds VM"} ELSE blame
    /\ UNCHANGED <<loopVars, objVars, registry, runVars, vmAsync, sender, crash>>

SenderFetch ==
    /\ vm = "live" /\ ~sender
    /\ sender' = TRUE
    /\ UNCHANGED <<loopVars, objVars, registry, runVars, vm, vmAsync, crash, blame>>

\* pushMsg ends in uv_async_send.
SenderWake ==
    /\ sender
    /\ \/ /\ loop = "freed" /\ crash' = "loop gone"
          /\ UNCHANGED req
       \/ /\ req' = req \cup {vmAsync}
          /\ UNCHANGED crash
    /\ UNCHANGED <<loopVars, kind, obj, held, cbRef, active, registry, runVars, vmVars, blame>>

\* The last reference to the VM takes its reference to the watcher along.
SenderDrop ==
    /\ sender /\ sender' = FALSE
    /\ vm' = IF vm = "dying" THEN "gone" ELSE vm
    /\ IF vm = "dying" /\ vmAsync \notin held
        THEN Deleter(vmAsync, TRUE)
        ELSE UNCHANGED <<obj, active, crash>>
    /\ UNCHANGED <<loopVars, kind, held, cbRef, req, registry, runVars, vmAsync, blame>>

-----------------------------------------------------------------------------
(***************************************************************************)
(* uv_run.                                                                 *)
(***************************************************************************)
Alive == \E w \in Watcher : obj[w] = "closing" \/ w \in active

\* A stop flag set before the run makes it return at once, and is reset.
Run(m) ==
    /\ pc = "script" /\ loop = "open"
    /\ IF Alive /\ ~stopFlag THEN pc' = "iterate" /\ mode' = m
                            ELSE UNCHANGED <<pc, mode>>
    /\ stopFlag' = FALSE
    /\ UNCHANGED <<loop, queueRef, queued, objVars, registry, fired, vmVars, crash, blame>>

\* common_handle_cb, with the function that the reference stands for now.
CommonHandleCb(w) ==
    queued' = IF cbRef[w] = LUA_NOREF THEN queued
                                      ELSE queued \cup {registry.t[cbRef[w]]}

Turn(w) ==
    /\ w \notin fired /\ fired' = fired \cup {w}
    /\ UNCHANGED <<loop, stopFlag, queueRef, obj, held, cbRef, registry, pc, mode, vmVars, crash, blame, kind>>

\* A timer that is due is stopped, and started again if it repeats.
TimerFires(w) ==
    /\ pc \in {"iterate", "late"} /\ kind[w] = "timer" /\ w \in active
    /\ Turn(w)
    /\ CommonHandleCb(w)
    /\ \E repeats \in BOOLEAN : active' = IF repeats THEN active ELSE active \ {w}
    /\ UNCHANGED req

\* Idle and prepare watchers are called in every iteration.
TickFires(w) ==
    /\ pc = "iterate" /\ kind[w] = "tick" /\ w \in active
    /\ Turn(w)
    /\ CommonHandleCb(w)
    /\ UNCHANGED <<active, req>>

\* A wake-up or a poll request completes.  A closing handle only loses its
\* request; a poll that was not stopped submits the next one.
RequestDone(w) ==
    /\ pc = "iterate" /\ w \in req
    /\ Turn(w)
    /\ \/ w \in active /\ CommonHandleCb(w)
       \/ (w \in active => kind[w] = "poll") /\ UNCHANGED queued   \* no event, or not the one asked for
    /\ req' = IF kind[w] = "poll" /\ w \in active THEN req ELSE req \ {w}
    /\ UNCHANGED active

\* The request of a poll ends in an error, which libuv reports without marking the
\* handle inactive, or its socket was closed; it is not submitted again.
PollEnds(w) ==
    /\ pc = "iterate" /\ w \in req /\ kind[w] = "poll" /\ w \in active
    /\ Turn(w)
    /\ req' = req \ {w}
    /\ \/ CommonHandleCb(w) /\ UNCHANGED active
       \/ (CommonHandleCb(w) \/ UNCHANGED queued) /\ active' = active \ {w}

IterationDone ==
    /\ pc = "iterate"
    /\ \A w \in active : kind[w] = "tick" => w \in fired
    /\ pc' = "endgame" /\ fired' = {}
    /\ UNCHANGED <<loopVars, objVars, registry, mode, vmVars, crash, blame>>

CanClose(w) == obj[w] = "closing" /\ w \notin req

\* Mutant: the callback stays in the registry.
HandleCloseLeaks(w) ==
    /\ pc = "endgame" /\ CanClose(w)
    /\ obj' = [obj EXCEPT ![w] = "closed"]
    /\ cbRef' = [cbRef EXCEPT ![w] = LUA_NOREF]
    /\ UNCHANGED <<loopVars, kind, held, active, req, registry, runVars, vmVars, crash, blame>>

\* uv_process_endgames: handle_close_cb gives the callback back and deletes
\* the cHandleInfo.
HandleClose(w) ==
    /\ pc = "endgame" /\ CanClose(w)
    /\ obj' = [obj EXCEPT ![w] = "closed"]
    /\ registry' = Unref(registry, cbRef[w])
    /\ cbRef' = [cbRef EXCEPT ![w] = LUA_NOREF]
    /\ UNCHANGED <<loopVars, kind, held, active, req, runVars, vmVars, crash, blame>>

EndgameDone ==
    /\ pc = "endgame" /\ \A w \in Watcher : ~CanClose(w)
    /\ pc' = CASE mode = "once" -> "late"
               [] mode = "default" -> IF Alive THEN "iterate" ELSE "script"
               [] mode = "nowait" -> "script"
    /\ mode' = IF pc' = "script" THEN "none" ELSE mode
    /\ UNCHANGED <<loopVars, objVars, registry, fired, vmVars, crash, blame>>

\* UV_RUN_ONCE looks at the timers again.
RunReturns ==
    /\ pc = "late"
    /\ pc' = "script" /\ mode' = "none" /\ fired' = {}
    /\ UNCHANGED <<loopVars, objVars, registry, vmVars, crash, blame>>

-----------------------------------------------------------------------------
LoopStep ==
    \/ \E w \in Watcher :
        TimerFires(w) \/ TickFires(w) \/ RequestDone(w) \/ PollEnds(w) \/ HandleClose(w)
    \/ IterationDone \/ EndgameDone \/ RunReturns

ScriptStep ==
    \/ LoopNew \/ LoopInit \/ LoopStop \/ LoopClose \/ LoopGc \/ Drain \/ VmGc
    \/ \E m \in Modes : Run(m)
    \/ \E w \in Watcher :
        \/ \E k \in Kinds : WatcherNew(w, k)
        \/ WatcherInit(w) \/ PollInitFails(w) \/ AsyncInit(w) \/ InitAgain(w)
        \/ TimerStart(w) \/ TickStart(w) \/ PollStart(w) \/ Stop(w) \/ AsyncSend(w)
        \/ HandleMethod(w) \/ WatcherGc(w) \/ VmNew(w)
        \/ UseWithoutLoop(w) \/ UseUninitialised(w)

SenderStep == SenderFetch \/ SenderWake \/ SenderDrop

\* The Lua state is closed, or the process has ended.
Over == (crash # "no" \/ loop = "freed") /\ UNCHANGED vars

Next ==
    \/ crash = "no" /\ (LoopStep \/ ScriptStep \/ SenderStep)
    \/ Over

\* uv_run goes on, and in the long run each request that was submitted completes.
Spec ==
    /\ Init /\ [][Next]_vars
    /\ WF_vars(crash = "no" /\ LoopStep)
    /\ \A w \in Watcher : SF_vars(crash = "no" /\ (RequestDone(w) \/ PollEnds(w)))

-----------------------------------------------------------------------------
(***************************************************************************)
(* Properties.                                                             *)
(***************************************************************************)
TypeOK ==
    /\ loop \in {"none", "new", "failed", "open", "closed", "freed"}
    /\ stopFlag \in BOOLEAN /\ queueRef \in {LUA_NOREF} \cup DOMAIN registry.t
    /\ queued \subseteq Watcher
    /\ obj \in [Watcher -> {"none", "new", "half", "ready", "closing", "closed", "lost"}]
    /\ kind \in [Watcher -> Kinds \cup {"none"}]
    /\ held \subseteq Watcher /\ active \subseteq Watcher /\ req \subseteq Watcher
    /\ cbRef \in [Watcher -> {LUA_NOREF} \cup DOMAIN registry.t]
    /\ registry.free \in {0} \cup DOMAIN registry.t
    /\ pc \in {"script", "iterate", "endgame", "late"} /\ mode \in Modes \cup {"none"}
    /\ fired \subseteq Watcher
    /\ vm \in {"none", "live", "dying", "gone"} /\ vmAsync \in Watcher \cup {Queue}
    /\ sender \in BOOLEAN
    /\ crash \in {"no", "uninitialised", "loop gone", "close on another thread",
                  "closed twice", "loop closed twice", "wrong object", "initialised twice"}
    /\ blame \subseteq {"loop dropped", "sender holds VM"}

\* Whoever keeps reference s.
Owners(s) == (IF queueRef = s THEN {Queue} ELSE {}) \cup {w \in Watcher : cbRef[w] = s}

IsFree(s) == registry.t[s] \in 0 .. Len(registry.t)

\* Every slot of the registry is free or belongs to exactly one live watcher
\* or to the loop's queue, and holds that owner's value: start, stop, restart,
\* collection and close callback neither leak a callback nor give one back
\* twice, in whichever order they come.
RefsHaveOneOwner == \A s \in DOMAIN registry.t :
    IF IsFree(s) THEN Owners(s) = {}
                 ELSE Owners(s) = {registry.t[s]}

\* What puts f into the table is the watcher that was started with f and has
\* not been stopped or closed since, although references are reused.
CallbacksComeFromTheirWatcher == [][
    \A f \in queued' \ queued : f \in active /\ obj[f] = "ready" /\ f \in fired' \ fired
    ]_vars

\* No handle is closed twice, although script, VM and sender share it, and a
\* deleted loop is never touched, unless the script dropped it before a watcher
\* or a sender held the VM when it was collected; only in the latter case may
\* uv_close run on a thread that does not own the loop.
CrashesAreExcused ==
    /\ crash # "closed twice"
    /\ crash = "loop gone" => blame # {}
    /\ crash = "close on another thread" => "sender holds VM" \in blame

\* handle.cpp:86: what was collected is released.  A watcher that nobody holds
\* any more gets its close callback if the loop keeps being run, also when a
\* wake-up or a poll request is still on its way.
CollectedWatchersClose == \A w \in Watcher :
    []<>(pc = "iterate" /\ crash = "no") =>
        (w \notin held /\ ~VmHolds(w) /\ obj[w] \in {"ready", "closing"} ~> obj[w] = "closed")
=============================================================================
