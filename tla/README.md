# easy-lua-cpp: TLA+ models and proofs

easy-lua-cpp is the native half of a small actor system for Lua: each *VM* is a Lua state
with its own OS thread and its own libuv loop; VMs belong to named *services*, start each
other, find each other by id or by service name and send each other serialised messages.
This directory models that machinery in TLA+, checks it with TLC on small instances and
proves the central results with TLAPS for every number of VMs, services, messages, calls,
sockets, watchers, buffers and blocks.

Paths below are relative to `src/easyLuaLib/`.

## Inventory

| Component | Source | State | Operations | What makes it right |
|---|---|---|---|---|
| Message passing | `service/thisVM.cpp`, `context.cpp`, `serviceInfo.cpp`, `blockQueue.h`, `message.h` | per VM: own queue, `bIdle`, `sessionId`, mutex, pending `uv_async_t` wake-up; per service: queue, mutex | `sendByVmId`, `sendByServiceName`, `iAmReady`, `getInternalMsgNonBlock`; inside: `pushMsg`, `popMsg`, `isIdle`, `newSession`, `pushMsg2FreeVm` | nothing is lost, duplicated or misdelivered; order per sender and VM id; no lost wake-up; `bIdle` is truthful; no deadlock; sessions tell requests apart |
| Registry and lifetimes | `register.h`, `dtorCallback.h`, `singleton.h`, `thisVM.cpp` (`__new__`, `__gc`) | weak maps name → service, id → VM (global and per service), shared_ptr counts, `lastHandle_` | `fetch`, `fetchOrCreate`, `checkIn`, `removeItemCallback`, construction and destruction of a VM | no use after free, one destruction, entries leave with their VM and only with it, a running VM is reachable |
| Starting a service | `service/serviceEntry.cpp`, `waiter.h`, `lua.c` | a `Waiter` on the caller's stack | `startService`, `threadFunc`, `wait`, `notify` | the caller is always released and gets true ids |
| Serialisation | `service/lua-seri.cpp`; `pack` ... `trash` of `service/serviceEntry.cpp`, `service/thisVM.cpp` | while packing a chain of 128-byte blocks, while unpacking a cursor; the buffers, shared by `shared_ptr` between messages and scripts | `pack`, `packString`, `unpack`, `trash` and one writer/reader per type | what arrives is what was sent, or an error; the reader takes every item for what the writer meant; a buffer is freed once, after its last holder; blocks are neither overrun nor lost |
| Handle manager | `service/handleManager.h` | slot table, name table | `checkIn`, `retire`, ... | dead code: its only inclusion is commented out and the template is never instantiated |
| Loop and watchers | `network/*.cpp` | `uv_loop_t`, watchers, callback references in the Lua registry, queue of fired callbacks | `__new__`, `__init__`, `start`, `stop`, `__gc`, `run`, `send` | every callback reference has one owner; resources are released in an order libuv accepts |
| Sockets | `socket/*.cpp`, with `cPoll` of `network/poll.cpp` | per object `sock_fd` and `sock_timeout`; in the system what each number stands for and its mode | `__init__`, `setblocking`, `listen`, `accept`, `recv`, `send`, `close`, `__gc` | a number means the socket it was obtained for, although numbers are reused; no descriptor is lost; a call on a non-blocking socket returns |
| Class helpers | `util.cpp` | none | argument checks | (stateless) |

How they interact: scripts call into their VM (`cThisVM`); a send looks the target up in the
registry, which yields a `shared_ptr`, and pushes under the target's mutex; the push ends in
`uv_async_send`, which makes the target's loop run a callback whose script drains
`getInternalMsgNonBlock` until it returns nothing. `startService` creates the thread whose
script calls `cThisVM.__new__`, which registers the VM and releases the caller through the
`Waiter`.

What is hard: all of it is concurrent. Threads share the maps, the queues, the idle flags,
the handle counter and the lifetime of every VM; wake-ups coalesce; the drain loop goes idle
while others dispatch; a VM may be destroyed by the thread of a sender; a late `notify` hits
a stack frame that is gone; buffers outlive the VM that packed them; a poll watcher asks by
number for a socket whose number may be another's by now. `hazards` in PROJECT.json lists
each of these at its line, with the properties that watch it.

## Modules

* **Mailbox** is the abstract specification of message passing: a set of accepted messages
  and, per VM, what its script was handed. `Accept` adds a new message, `HandOut` moves one
  to a VM it is addressed to, direct messages of one sender in order.
* **VmMessaging** is the message layer itself. One process per VM (its thread). The mutexes
  of `cVmContext` and `cServiceInfo` are variables (`vmLock`, `svcLock`); an action is the
  code between two points at which another thread can interfere. `pc` says where in a C++
  call the thread is, `mode` whether the script is waiting in `uv_run`, draining, or
  handling another event. `PushPut`/`PushWake` are the two halves of `pushMsg` (the wake-up
  is seen by the target's loop without the mutex), `PopLock`, `PopOwn`, `PopService`,
  `PopMiss`, `PopIdle` are `popMsg`; `LockService`, `ScanIdle`, `ScanBusy`, `PutService` are
  `pushMsg2FreeVm`, one `isIdle()` call per step; `ReportSkip`, `ReportPush`, `ReportDone`
  are the turns of `iAmReady`'s loop. `cBlockQueue`'s mutex is held for a single queue
  operation only, so such an operation is atomic. The population of VMs is fixed.
  `LoopWake`, `LoopEvent` and `EventDone` stand for libuv and the script: the pending mark
  of the async handle is cleared before the callback runs, and the script drains until
  nothing is returned (as `src/async.py` explains it must, because wake-ups coalesce).
  `seq`, `reports` and `delivered` are history. Payloads are not modelled: the layer never
  looks at them.
* **VmMessagingProofs** has the theorems about VmMessaging.
* **VmRegistry** is creation, lookup and destruction. A VM is named by its thread, a service
  by its name (ServiceMgr never forgets an entry, so there is never a second object).
  Whether an object is alive is derived from who holds a `shared_ptr`: the Lua userdata
  (`own`), a call in progress (`vmRef`, `svcRef`), a VM's member `service` (`vmSvc`), a
  `removeItemCallback` under way (`thisRef`, from `LockService` to `RemoveFromService`). A
  sender to a service lets go of the VM it found while it still has the service and its
  mutex (`Push`, then `Pushed`), so that a VM that dies there is destroyed inside both.
  Whoever drops the last reference runs the destructor (`dtor`), in the order of C++:
  members first, then the base `DtorCallback` with its callbacks. `++lastHandle_` is a read
  and a write. `VmCount` is the read of the service's map at the end of `__new__`.
  Undefined behaviour is a choice: two threads about to touch the same
  `std::map`, one writing, not both under the map's mutex, may crash (`Collide`) or not; so
  may an iterator that stands on an erased entry (`StaleIterator`). Null dereferences and
  the assertion end the process (`crashed`). Idle flags are random here.
* **StartService** is `startService`, `Waiter` and the thread's two notifications. The
  Waiters of successive calls occupy the same stack slot; a thread writes through its
  pointer whether or not its Waiter is still there. The members are written and read one by
  one, the readers take no mutex.
* **Watchers** is the event loop of one VM: `cLoop` and the watcher classes, with the parts
  of the vendored libuv (the Windows one, which the project builds) and of `luaL_ref` that
  they rest on. `registry` is Lua's table of references with its free list, `cbRef` the
  `callback_handle` of each `cHandleInfo`, `obj` the state of each handle. A class is chosen
  in `WatcherNew`; `cIdle` and `cPrepare` have the same code and are the kind "tick". An
  `__init__` that raises an error changes nothing, but for a poll's that fails when the
  handle is in the loop already (`PollInitFails`, state "half"). `InitAgain`,
  `UseUninitialised` and `Deleter` have what then, or after no or a second `__init__`, is
  undefined. `Run`, `TimerFires`, `TickFires`, `RequestDone`, `PollEnds` (a poll's request
  that failed, or whose socket was closed, and is not submitted again), `IterationDone`,
  `HandleClose`, `EndgameDone`, `RunReturns` are `uv_run`; inside it neither scripts nor the
  collector run, because `common_handle_cb` only stores the callback in a table that the
  script empties later (`Drain`, external: the scripts are not in the repository). A sender
  may hold the VM and with it the async watcher; whoever drops the last reference runs
  `Deleter`, that is `uv_close`. Undefined behaviour ends the process with its reason in
  `crash`, or has no visible effect.
* **Sockets** is the socket objects of one VM, the descriptors behind them and the `cPoll`
  watchers on those. The system hands numbers out again after a close; a kernel socket never
  comes back, so that the properties can say which socket a number stands for. `settimeout`
  and `setdefaulttimeout` are commented out in the source: `sock_timeout` is only ever -1 or
  0, each select loop is passed once and no deadline is ever reached. `__init__` has its two
  forms (a new descriptor, or any number that the script gives); a `send` appears as far as
  it can keep the VM's thread (`Block`, `CallEnds`); `accept` can fail after the descriptor
  exists, in the class's constructor or after it. `PollInit`, `PollStart`, `PollStop`,
  `RequestCompletes`, `RequestDone` follow libuv's `uv_poll_t` (fast poll, one of the two
  request slots); a `PollInitFails` leaves the socket non-blocking. `blame` records what a
  script did that the code has no defence against (the same number given to two objects, a
  socket closed under a started watcher, ...), once a kind; each property says which of
  these it cannot stand.
* **Items** is the encoding of one item: `Parts` is the sequence of pushes that `wb_nil` ...
  `wb_string` and `wb_table_array` make for it, the header first, and `OneItem` what
  `unpack_one` and `push_value` make of the cells in front of it, with every check of
  `rb_read` and of the cookies. A cell is a byte with `Byte` values, so that all widths of
  integers and all limits of cookies fit small numbers; numbers are little-endian and in
  two's complement. Of a table, the item is the beginning, the size of the array part.
* **LuaSeri** is the serialiser of values as operators: `Packed` turns a list of values into
  the cells of their items, with the recursion over tables and its limit, `Unpacked` turns
  cells into values. It has recursive operators and no variables. `Call` gathers what Payload
  needs to know of a call of `pack`.
* **Blocks** is one call of `pack` seen from its memory: the chain of blocks that `wb_push`
  writes to (`PushStarts`, `NewBlock`, `PushPart`, `PushFits`: one action per turn of its
  `_again` loop), the loop of `seri` that copies the chain into one buffer (`CopyBlock`,
  `CopyRest`), and `wb_free`. What is pushed is arbitrary: any cells, cut into pushes of any
  length. The call may fail between two pushes, with `wb_free`, or be left by an error that
  Lua raises, without it (`Raise`).
* **Stream** is the grammar of a message, an item at a time. `pack`
  and `unpack` recurse over the same tables, and a nil is a value or the end of a table
  depending on where in the recursion it stands. The stacks `stack` and `open` have a frame
  for each call of `wb_table` and `unpack_table` that is under way: the `array_size`, how
  many elements are through, whether the key of a pair is in hand. `WriteNil`, `WriteTable`
  and the others are what `pack_one` may write at the writer's place, `ReadItem` what
  `unpack_one` makes of it at the reader's. `Send` may cut the message at any item or inside
  one. It has items, and no bytes: those are Packing's.
* **Packing** composes Blocks, Stream and Items into one call of `pack` and the call of
  `unpack` that reads its buffer. An item that Stream writes is pushed to the chain of Blocks
  part by part, as its writer does it: first the header (`PushItem`), then the parts that are
  still in `hand` (`PushPartOfItem`): the digits of a number, the length of a string and the
  string. A refused value and an error of Lua end both halves in one step (`Refuse`,
  `LuaRaises`, which may come between any two items: from a `__pairs`, from `lua_next` when a
  nested `__pairs` changed the table, for want of stack or memory), `seri` starts when the
  recursion is through. `Unpack` is given the buffer or its first `size` cells, any number of
  them, and from then on `UnpackItem` and `UnpackOver` have only these cells (`unread`) and
  the recursion (`open`) to go by: what Stream says of the reader, with the items of the
  writer at hand, is here to be shown. `at`, a history, says how many cells were in front of
  each item.
* **Payload** is the buffers: `Pack`, `PackString`, `Send`, `IAmReady`, `Receive`, `Trash`,
  `VmEnds` with the use count of each buffer. The header of a message has the type in the
  bits from `Limit` upwards (`1 << MESSAGE_TYPE_SHIFT`), set there with `|` as in
  `thisVM.cpp` (`SetBit`: the types are powers of two). A script passes the size it was
  given or a smaller one (`Short`); `sent` and `passed` are the history of both. The
  serialiser appears by its results, one record a call (`Results`): whether the list is
  packed, how many cells it takes, what `unpack` gives of the first n of them, for every n,
  because scripts may unpack less than a buffer has. The instance computes these records
  with LuaSeri, the theorems take any.
* **BlocksProofs**, **PackingProofs**, **PayloadProofs**, **SocketsProofs**,
  **StartServiceProofs**, **VmMessagingProofs**, **VmRegistryProofs**, **WatchersProofs**
  have the theorems about the module each is named after; those about Items and
  Stream are in PackingProofs.
* **MCVmMessaging**, **MCVmRegistry**, **MCPacking**, **MCPayload** hold the instances for
  TLC; the last one joins Payload and LuaSeri. The other modules need no
  definitions and are run as they are.

An operator commented "Mutant" is a deliberately wrong variant of the definition that
follows it; no specification uses it. For every checked property one such variant makes TLC
report a violation (`mutants` in PROJECT.json).

## Runs

| Run | Configuration | Shows |
|---|---|---|
| messaging | `Messaging.cfg` | safety of message passing, no circle of threads waiting for mutexes (`NoCircularWait`), and `PromiseSpec`, the refinement of Mailbox; 205 007 states |
| messaging_live | `MessagingLive.cfg` | queued messages arrive, calls return, parked messages arrive with the next wake-up; also `iAmReady` |
| free_vm | `FreeVm.cfg` | finding: a message parked while every VM is idle |
| start_service | `StartService.cfg` | startService returns, with ids that exist, 0 only if the interpreter ended |
| waiter | `Waiter.cfg` | finding: a notification of a Waiter that is gone |
| registry | `Registry.cfg` | lifetimes and map entries, a closed VM is destroyed and leaves the maps (`ClosedVmsLeave`); 647 952 states |
| restart | `Restart.cfg` | finding: a service cannot be started again |
| watchers | `Watchers.cfg` | references, callbacks, closing and undefined behaviour of loop and watchers; 466 390 states |
| live_scan | `LiveScan.cfg` | finding: the assertion in `pushMsg2FreeVm` can fail |
| sockets | `Sockets.cfg` | objects and watchers reach their own socket, none is lost, non-blocking calls return, a started watcher reports a ready socket; 1 009 589 states |
| payload | `Payload.cfg` | what arrives is what was sent, with its size and type, buffers live while held, packing fails for cause; 376 549 states |
| packing | `Packing.cfg` | the buffer holds the bytes of every item, no block is written beyond its end, `seri` stays in the chain, a call that fails gives its blocks back; the reader takes every item for what it was to the writer, cuts at any byte are noticed, its recursion is bounded; 1 317 136 states |

Bounds. *Messaging*: services a (VMs 1 and 2) and b (VM 3); VM 2 sends once and VM 3 twice,
to any VM or service, to themselves too. Two VMs in one service is what dispatch,
competition for the service's queue and the stranded message need; a second message is what
coalescing, order and the wrap of the session need. The session counter has two positive
values (`SessionMax` = 2), so that it wraps within the run. *MessagingLive*: one send and
one `iAmReady`, each by another VM. *Registry*: two VMs of a, one of b; VMs 1 and 3 make one
call each, so that two calls may hold the VM that is being closed. *StartService*: three
calls, since a disturbed second call leaves a late notification for the third. *Watchers*:
two watchers of any kinds, the queue and one sender. Two owners besides the queue are what a
slot of the registry needs to be shared by mistake; starts, stops and runs are not bounded,
each watcher is created once. *Sockets*: two objects and one watcher on two numbers, three
kernel sockets: one number can be reused while the other is in use, which is what mixing
them up needs, and an accepted socket can be the third. One kind of carelessness (`MaxBlame`
= 1), because the properties excuse one at a time. *Payload*: two VMs of different services,
two buffers, three script pointers, two messages a mailbox: one buffer can be held twice by
scripts and once by a message. `Byte` = 4 makes an `int32_t` end at 127 and a `uint16_t` at
15, `MaxCookie` = 4, `MaxDepth` = 2, and `Limit` = 32 lets the larger lists overflow the
size; `Lists` has one list at or beside each of these limits, and a behaviour packs one of
them. A script passes the size it has or one of `Short`, below and just below the limit.
*Packing*: bytes with two values, so that a `uint8_t` ends at 1, a `uint16_t` at 3, an
`int32_t` at 7 and an `int64_t` at 127, and `MaxCookie` = 3; the scalars are a number of
each width, negative ones among them, a real, a pointer, a boolean, and strings that are
short, long with a length of 2 bytes, and long with one of 4; an array part of 2 elements
needs a size of its own. Blocks of 3 cells: pushes end before, at and after the end of a
block, one fills a block and more, and the last block is partly or exactly full. Tables in
tables (`MaxDepth` = 1 allows two levels), array parts of up to two elements, so that the
first may be a hole, and six items, enough for a table with a table as an element, a key or
a value, for what follows it, and for a third level, were it not refused. `MaxCells` = 10
leaves room for one of the longest items (9 cells: a qword, a real, the longest string) with
a short one, or for six short ones, and cuts longer messages off. The theorems do not depend
on any of these bounds. The plain type invariants of Payload, Sockets, StartService, Stream
and Watchers are theorems (`TypeCorrect`, `StreamTypeCorrect`), so that no run repeats them;
those of VmMessaging, VmRegistry and Blocks say more than types (the range of sessions and
of the racy handle counter, the ends of blocks) and are checked as well.

Fairness. A thread inside a C++ call goes on (weak fairness of `Call`, of `Destroy` or
`Continue` of any thread, of the Waiter's caller and of `notify`): threads are scheduled and
no call waits for anything but a mutex. A draining script calls again and an event handler
returns. A posted wake-up is dequeued although the loop has other events (strong fairness of
`LoopWake`): libuv queues the request of an async handle and handles all queued requests in
an iteration; in Watchers the same is strong fairness of `RequestDone` or `PollEnds`, a
submitted request completes in one of the coming iterations. Whether the loop is run again
is up to the script: `CollectedWatchersClose` has that as its premise. In Sockets the system
completes the poll request of a socket that is ready, or of a watcher that is being closed,
and the loop picks it up (weak fairness of `RequestCompletes` and `RequestDone`);
`ReadySocketsAreReported` has as its premise that the VM's thread is not kept by a call on a
blocking socket (`waiting` = {}) and that the script was careful (`blame` = {}). A started
script creates its VM or ends. Nothing is assumed about what scripts send, start or collect.
Mutexes need no fairness of their own in the instances: calls are bounded.

Deadlock is checked in every run; an explicit stuttering step (`AllDone`, `Over`) stands for
the intended end or for a dead process.

## Findings

1. `serviceInfo.cpp:51-59`: between `isIdle()` and `msgQueue.put` the VM that looked busy
   may go to sleep; the message is parked and nobody is woken (run free_vm).
   `ParkedMessagesArriveOnWake` says what still holds: the next wake-up delivers it.
2. `serviceEntry.cpp:42`: the second `notify` writes through a dangling pointer (run
   waiter). The run start_service shows how far the damage goes when the slot is reused: ids
   of another service, never ids of a VM that does not exist.
3. `register.h:38-40`: `fetchOrCreate` returns null for a service all of whose VMs have died
   (run restart).
4. `serviceInfo.cpp:50`: the assertion can fail while a VM is being destroyed (run
   live_scan).

Also visible in the models, without a statement in the repository to contradict: two VMs may
get the same id (`context.cpp:26`), the ids read by `startService` may be torn (0 with a
valid id, either way round), and an unlocked map may be corrupted by `removeItemCallback` or
under `iAmReady`'s loop. In Watchers: the methods of `cHandle` work on the wrong object
(`handle.cpp:16`); `close()` followed by `__gc` closes a loop twice; an object that failed
to initialise is handed to `uv_close`; a loop collected while watchers are closing is
deleted all the same (`loop.cpp:172`), so their close callbacks never come; and a sender
that holds a VM while it is collected may call `uv_close` or `uv_async_send` on a loop that
is running elsewhere or gone. `CrashesAreExcused` says that a deleted loop and a closed
handle are touched in no other way.

In Sockets and Payload, or met while writing them: `__init__` with a number, or called
twice, gives one descriptor two owners or none (`socketmodule.cpp:3286`); a class call that
raises in `accept` loses the descriptor (`socketmodule.cpp:1795`); the select loop with its
deadline cannot be reached, nothing sets a positive timeout; the comment on `shutdown`
allows `SHUT_RD`, the code accepts only 1 and 2 (`socketmodule.cpp:3068`). An error that
Lua raises in the midst of `pack`, say in a `__pairs`, loses the blocks of the list, and a
`__pairs` that yields NaN makes a list that
packs and never unpacks (`lua-seri.cpp:275`). The size of a message shares a `size_t` with
its type: 24 bits are left on the 32-bit build (`thisVM.cpp:126`). Pointers to buffers are
light userdata: those a script of an ended VM did not `trash` are never freed.

## Proofs

**VmMessagingProofs** proves, for every finite set of VMs with positive handles, any
services and any bounds (`VmAssumption`, `BoundAssumption`):

* `Invariance`: `Spec => []IInv`;
* `TypeCorrect`, `WakeupsAreNotLost`, `IdleIsTruthful`, `DispatchIsExclusive`,
  `NoDeadlock`, `SessionsApart`: the invariants of the run messaging;
* `KeepsPromise`: `Spec => PromiseSpec`, the message layer implements Mailbox with `pending`
  = messages in a sender's hand, on a VM's queue or on a service's queue.

None of the properties is inductive alone. `IInv` adds what the argument needs: what a
thread inside a call knows about its message and target (`CallState`); that each mutex is
held exactly by the thread inside it (`VmLockState`, `ServiceLockState`), which gives
exclusive dispatch and protects the decision to go idle; that a VM about to call itself idle
has an empty queue (`IdleDecision`), without which `IdleMeansNoWork` and `NoLostWakeup` fail
at `PopIdle`; that queues hold only what is addressed there, each sender's messages in
ascending order (`QueueState`), that queued and delivered messages have used-up numbers
(`NumberState`), and that no message is in two places (`PlaceState`): these three make
`HandOut` a legal step for `popMsg`. The proof has one lemma per part of `IInv` with one
step per action, lemmas on what `put` and `take` do to the content and order of a queue, and
for the refinement one lemma per kind of step: building a message is `Accept`, `popMsg` is
`HandOut`, the rest stutters. `SessionsApart` adds to `IInv` that a request is at least as
many messages behind its sender as its session is behind the sender's counter, counted
around the wrap (`SessionState`). `NoDeadlock` reads the order of the mutexes off
`VmLockState` and `ServiceLockState`: who holds a VM's waits for nothing, who holds a
service's waits at most for a VM's, so in any set of threads one is waiting for none of them.

**SocketsProofs** proves, for every set of objects, watchers and numbers and any bounds
(`SocketAssumption`): `TypeCorrect`, `OwnSocket`, `NothingLost`, `OwnWatch` and
`NeverBlocked`, the types and the four invariants of the run sockets.
`ObjectsReachTheirOwnSocket` and `OpenDescriptorsHaveAnOwner` need each other, and that a
kernel socket is behind one number at most (`SocketState`). `PollsWatchTheirOwnSocket` needs
to know what a request in flight is about, and that one that a close ended never finds its
socket again (`PollState`). `NonBlockingCallsReturn` needs the agreement of the object's
mode with the system's (`ModeState`), which holds through `accept` only because accepted
sockets inherit the mode of the listener.

**StartServiceProofs** proves, for any number of calls (`CallsAssumption`): `TypeCorrect`,
`RealIds` and `ZeroIsTheEnd`, the types and the invariants of the run start_service.
`RealIds` follows once every id in the slot, in a register or with a caller is one that was
created (`Real`); it needs no mutex, which is why a late notification cannot break it.
`ZeroIsTheEnd` is about calls that began when all earlier threads had ended: `Alone` keeps
those threads out, `Slot` says how far the slot is for each place of the thread, `Returned`
what such a call has brought back.

**VmRegistryProofs** proves, for any threads, services and bounds (`RegistryAssumption`):
`TypeCorrect`, `UsedWhileAlive`, `DeadEntriesGo`, `RunningVmIsFound` and the action property
`OwnErase`, all properties of the run registry. The invariant says what the place of a
thread means for its VM and its references (`Phase`); that an entry of a map and the
callback that will remove it come and go together (`Contexts`, `Services`), which is why
removal by key never hits another VM even when two got the same handle; that a service, once
dead, is never revived (its map may then keep entries); that a VM under a destructor is held
by nobody (`Dying`), which holds because `weak_ptr::lock` only yields living VMs; and that a
VM in a map dies only into its destructor (`Dead`). `Count` bounds the racy `lastHandle_` by
the number of VMs built: two constructors may read the same value, but never one beyond it.
Steps are first sorted by what they change (`Kinds`, `LifeStep`, `ContextChange`,
`ServiceChange`), so that each part of the invariant is proved against a handful of effects
instead of every action.

**WatchersProofs** proves, for every set of watchers (`WatcherAssumption`: functions and
tables are no numbers): `TypeCorrect`, `OneOwnerEach`, `OnlyExcusedCrashes` and the action
property `OwnCallbacks`, the types and all safety properties of the run watchers. Its first
part is about `luaL_ref` and `luaL_unref` alone (`RefOk`, `UnrefOk`): the free list is
described without walking it, no two free slots name the same next slot and none names the
head, so that taking the head never takes a slot that something still leads to. `Holding`
says that what somebody holds was not closed, that a live VM keeps its watcher and a sender
the VM; `History` what the script must have done for a deleted loop to be in use still.

**BlocksProofs** proves, for every `BlockSize`, all cells and every way of cutting them
into pushes (`BlocksAssumption`): `BlocksTypeCorrect`, `SeriInChain`, `NothingCutOrDoubled`
and `NoBlockLeaks`. `Written` says where each cell pushed so
far is: cell j of block k is number `(k - 1) * BlockSize + j`, and what `wb_push` has still
in hand follows the last of them; `Copied` that the buffer is the beginning of the same
sequence up to the block that `seri` comes to next. That `seri` never follows the end of the
chain, not even when the last block is exactly full, is arithmetic on these two: as `len` is
`Before(Len(chain)) + Ptr`, cells that are left lie in a block that is there (`WhereCopyIs`).

**PackingProofs** proves three things, one upon the other.

First, of Items, for bytes with any number of values and any limit of the cookies
(`ItemsAssumption`): `ItemRoundTrip`, `OneItem(Cells(item) \o more) = Got(item, more)`, for
every item and whatever follows it, and `TornItemsAreRefused`, that every proper beginning
of an item's cells is "Invalid serialize stream". The items are nil, every scalar a script
can give (`Sendable`: an integer of 8 bytes, reals and pointers as the numbers of their
bytes, a string whose length fits an `int`), and every size of a table. Both follow from
`Legible`, which says at once what `OneItem` makes of any sequence that agrees with the
cells of an item as far as it goes: the item, when all of them are there, and an error when
not. It is proved for each type from the reader of what follows the header (`Reads`), and
for integers from the arithmetic of digits: a number is its lower and its upper half
(`Halves`), `Digits` in 1, 2, 4 or 8 bytes are the number modulo `Span` (`DigitFacts`), and
that is the number itself after `AsSigned` exactly at the widths that `wb_integer` chooses
(`SignFacts`).

Second, of Stream, for every depth, size of tables and length of messages
(`StreamAssumption`): `StreamTypeCorrect`, `SameMeaning`, `CutsAreNoticed` and
`BoundedReader`. The invariant keeps, for each item, the stack the writer had after it, and
says that reading the item takes the stack before it to the stack after it (`Followed`): the
core is that `ReadInto` undoes each of `WriteScalar`, `WriteNil`, `WriteTable` and
`WriteEnd`. It holds of `WriteNil` only because no nil is ever written where a key is due.
The reader is then, by induction over its steps, always where the writer was (`Following`).
An induction over values is not needed, since the recursions are stacks.

Third, of the whole, for all scalars and blocks of any size (`PackingAssumption`: scalars
are sendable, an array size fits an `int32_t`, bytes and headers are cells): `Implements`,
`Spec => BlocksSpec /\ StreamSpec`. Each step of `pack` is one of Blocks, one of Stream, or
of both; and each step of `unpack`, which has nothing but bytes, is the step of Stream's
reader, which is told the items. So all eight invariants of the parts hold of the whole
(`PartsHold`): from the bytes, at whatever byte they were cut, `unpack` gets the items that
`pack` wrote, each in the place it had there, and an error if and only if the cut is not
between two arguments. The run packing checks six of the eight; the other two are the types
of the recursions and `BufferIsWhatWasPushed`, which `BufferHoldsTheItems` makes superfluous
there. `BytesOfTheItems` is that one: the buffer is the bytes of the items, whole, in order
and without a gap.

The inductive invariant (`IInv`) has those of Blocks and of Stream and two parts of its own.
`Pushing`: what was pushed so far, with the parts still in hand (`All`), are the cells of
the items written so far. An item written and not yet pushed to its end can only be the
last, and until it is pushed neither the writer nor `seri` goes on. `Reading`: the unread
cells are those from the front of the item after the last one got to the `size` that
`Unpack` was given, and `cut` and `torn` say what fits in front of `size` (`Window`). By
`Legible` the next item then reads as it was written while it is whole, and as an error when
`size` is inside it or nothing is left (`NextItem`); the former is `ReadItem` of Stream, the
latter `ReadEnd`.

**PayloadProofs** proves, for any VMs, buffers, pointers of scripts and results of the
serialiser, and any `Limit` (`PayloadAssumption`): `TypeCorrect`, `LiveWhileHeld`,
`WholeSizes`, `SentIsReceived` and `OnlyWhatWasSent`. `BuffersLiveWhileHeld` is inductive
with the types of the state: the work is in counting, how each action changes the sets of
scripts and of places in mailboxes that hold a buffer (`Receive` moves the rest of a mailbox
up, `VmEnds` empties one at once). `Carried` says what a message and a script were told of a
buffer's size, and that it is what the sender passed unless the type is in the way.
`SentIsReceived` and `OnlyWhatWasSent` have hypotheses on the serialiser and say so:
`RoundTrip`, that `unpack` inverts `pack` on whole cells, and `Truthful`, that the beginning
of packed cells unpacks to an error or to a beginning of the list. They are facts about
recursive operators over values; what PackingProofs says of items and of the recursions as
stacks is the part of them that needs no induction over values. The run payload checks their
conclusions on the lists of the instance, where `Results` is what LuaSeri computes; the
theorems add that no sharing, cutting, forwarding, trashing or ending of VMs comes between
the two.

Only model-checked: liveness under fairness (out of the prover's reach); the recursion of
LuaSeri over values, which takes an induction over data, with `PackFailsForCause`, which is
about it alone, and with the hypotheses `RoundTrip` and `Truthful`; the violations of the
four findings.

## Plan

1. (done) VmMessaging with Mailbox, its proofs; StartService; VmRegistry.
2. (done) Watchers.
3. (done) LuaSeri and Payload.
4. (dropped) Handle manager: dead code.
5. (done) Sockets with the poll watchers on their descriptors, and its proofs.
6. (done) Proofs for StartService, VmRegistry and Watchers, and for the sessions of
   VmMessaging.
7. (done) Blocks and Stream, split off from the serialiser so that its memory and its
   grammar can be proved about, and Packing, which joins them; proofs for these and for
   Payload; the order of mutexes in VmMessaging.
8. (done) Items, the encoding of one item, split off from LuaSeri so that it can be proved
   about; Packing reads bytes instead of items.
9. Left: the operations of sockets that only pass their arguments on, should they come to
   keep state.

## Not modelled

* **Handle manager** (`service/handleManager.h`): included nowhere, instantiated nowhere;
  there is no state of the program it is part of.
* **Sockets**, the rest: what `send` sends; `sendto`, `bind`, `shutdown` and the options
  only pass their arguments on to the system and change nothing the objects know; the
  parsing and printing of addresses, `getaddrinfo` and its relatives and the tables of
  constants are data without state. `connect`, `settimeout`, `recv_into`, `makefile` and
  others are commented out.
* **Watchers**: timeouts of timers; event masks of polls (Sockets has readability only);
  what libuv does after a second `__init__`, or after any other undefined behaviour, where it
  does not end the process: the loop's list of handles is not described.
* **Serialisation**: strings and messages of 2^31 bytes or more, whose lengths the `(int)` of
  `get_buffer` and `rb_read` would make negative (`Sendable` says so), and sizes passed by a
  script that are larger than the buffer: both read memory that is not the message's.
* **Class helpers** (`util.cpp`), command-line splitting (`splitString`), the DLL shell: no
  state of their own.
* **Vendored code** under `src/3rdSrc` (the Lua interpreter, libuv, luasocket, lfs): not the
  work of this project, except for the functions of libuv and `luaL_ref` that Watchers,
  Sockets and `LoopWake` translate. It is most of the lines of the repository, and with the
  commented-out parts of `socketmodule.cpp` it is why the definitions here stand for a small
  share of all lines. Of the project's own code with state, each handler that changes
  modelled state is mapped.
