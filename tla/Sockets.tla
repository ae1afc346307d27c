------------------------------- MODULE Sockets -------------------------------
(***************************************************************************)
(* The socket objects of one VM (cSocket, the port of Python's             *)
(* socketmodule.c), the descriptors behind them and the cPoll watchers     *)
(* that watch those descriptors.                                           *)
(*                                                                         *)
(* A descriptor is a number that Windows gives out again after a close; a  *)
(* kernel socket is named by the order in which it was opened and never    *)
(* comes back.  The objects and watchers know numbers only, and the        *)
(* properties are about the sockets that the numbers stand for.            *)
(*                                                                         *)
(* settimeout and setdefaulttimeout are not exported, so sock_timeout is   *)
(* -1 (blocking) or 0 and each select loop is passed once, without a       *)
(* select.  A call that finds nothing on a blocking socket keeps the       *)
(* thread: waiting is the object it was made through.                      *)
(*                                                                         *)
(* A call that fails and changes nothing is no step.  mine, polling and    *)
(* blame are history: the socket an object was made for, the watchers      *)
(* that the script has started and not stopped, and what the script, or    *)
(* the class of an accepted socket, has done that the code does not defend *)
(* against.                                                                *)
(***************************************************************************)
EXTENDS Integers, FiniteSets

CONSTANTS
    Object,     \* the userdata of class cSocket
    Poll,       \* the userdata of class cPoll
    Descriptor, \* the numbers the system gives out
    MaxSockets, \* bound: kernel sockets opened in a behaviour
    MaxBlame    \* bound: kinds of carelessness in a behaviour

ASSUME SocketAssumption ==
    /\ MaxSockets \in Nat /\ MaxBlame \in Nat
    /\ Descriptor \subseteq Nat

VARIABLES
    stage,          \* stage[o]: "none", "held" by the script, or "gone"
    sock_fd,        \* PySocketSockObject::sock_fd
    sock_timeout,   \* PySocketSockObject::sock_timeout
    mine,
    os,             \* os[f]: the kernel socket behind a number, or NoSocket
    opened,         \* how many kernel sockets have been opened
    nonblocking,    \* the kernel sockets with FIONBIO set
    listening, connected,
    ready,          \* those with a connection to accept or data to receive
    waiting,        \* the object of the blocking call that keeps the thread
    poll,           \* the cPoll objects with their uv_poll_t
    polling,
    blame

objVars == <<stage, sock_fd, sock_timeout, mine>>
osVars == <<os, opened, nonblocking, listening, connected, ready>>
pollVars == <<poll, polling>>
vars == <<objVars, osVars, waiting, pollVars, blame>>

NoSocket == 0
NoFd == -1
Kernel == 1 .. MaxSockets

PollRecord == [stage : {"none", "ready", "closing", "closed"},
               fd : Descriptor \cup {NoFd},     \* uv_poll_t::socket
               of : Kernel \cup {NoSocket},     \* history: what fd stood for in __init__
               events : BOOLEAN,
               req : {"no", "pending", "event", "local close", "error"},
               on : Kernel \cup {NoSocket}]     \* the socket the request is about

Init ==
    /\ stage = [o \in Object |-> "none"]
    /\ sock_fd = [o \in Object |-> NoFd]
    /\ sock_timeout = [o \in Object |-> -1]
    /\ mine = [o \in Object |-> NoSocket]
    /\ os = [f \in Descriptor |-> NoSocket] /\ opened = 0
    /\ nonblocking = {} /\ listening = {} /\ connected = {} /\ ready = {}
    /\ waiting = {}
    /\ poll = [p \in Poll |-> [stage |-> "none", fd |-> NoFd, of |-> NoSocket,
                               events |-> FALSE, req |-> "no", on |-> NoSocket]]
    /\ polling = {} /\ blame = {}

-----------------------------------------------------------------------------
Blame(kind) ==
    /\ blame' = blame \cup {kind}
    /\ Cardinality(blame') <= MaxBlame

(***************************************************************************)
(* Descriptors.                                                            *)
(***************************************************************************)
\* The socket that a call through o reaches.
SocketOf(o) == IF sock_fd[o] = NoFd THEN NoSocket ELSE os[sock_fd[o]]

\* The system opens a socket under a number that is not in use.
Open(f) ==
    /\ opened < MaxSockets /\ os[f] = NoSocket
    /\ os' = [os EXCEPT ![f] = opened + 1]
    /\ opened' = opened + 1

\* SOCKETCLOSE: outstanding poll requests come back with AFD_POLL_LOCAL_CLOSE.
SocketClose(f) ==
    /\ os' = [os EXCEPT ![f] = NoSocket]
    /\ nonblocking' = nonblocking \ {os[f]}
    /\ listening' = listening \ {os[f]}
    /\ connected' = connected \ {os[f]}
    /\ ready' = ready \ {os[f]}
    /\ poll' = [p \in Poll |->
            IF poll[p].req = "pending" /\ poll[p].on = os[f]
                THEN [poll[p] EXCEPT !.req = "local close"] ELSE poll[p]]
    /\ IF \E p \in polling : poll[p].of = os[f]
        THEN Blame("closed while polled") ELSE UNCHANGED blame
    /\ UNCHANGED <<opened, polling>>

-----------------------------------------------------------------------------
(***************************************************************************)
(* Socket objects.                                                         *)
(***************************************************************************)
Script(o) == waiting = {} /\ stage[o] = "held"

New(o) ==
    /\ waiting = {} /\ stage[o] = "none"
    /\ stage' = [stage EXCEPT ![o] = "held"]
    /\ sock_fd' = [sock_fd EXCEPT ![o] = NoFd]
    /\ sock_timeout' = [sock_timeout EXCEPT ![o] = -1]
    /\ UNCHANGED <<mine, osVars, waiting, pollVars, blame>>

\* init_sockobject takes the number as it is, and what was there is forgotten.
InitSockobject(o, f, socket) ==
    /\ sock_fd' = [sock_fd EXCEPT ![o] = f]
    /\ sock_timeout' = [sock_timeout EXCEPT ![o] = -1]
    /\ mine' = [mine EXCEPT ![o] = socket]

InitSocket(o, f) ==
    /\ Script(o)
    /\ Open(f)
    /\ InitSockobject(o, f, opened + 1)
    /\ IF sock_fd[o] # NoFd THEN Blame("initialised twice") ELSE UNCHANGED blame
    /\ UNCHANGED <<stage, nonblocking, listening, connected, ready, waiting, pollVars>>

\* The script passes any number: that of another object, one that was closed since,
\* or one that no object knows.
InitFd(o, f) ==
    /\ Script(o)
    /\ InitSockobject(o, f, os[f])
    /\ Blame("shared")
    /\ UNCHANGED <<stage, osVars, waiting, pollVars>>

\* Mutant: only the mode of the object changes.
SetBlockingOnlyObject(o, block) ==
    /\ Script(o)
    /\ sock_timeout' = [sock_timeout EXCEPT ![o] = IF block THEN -1 ELSE 0]
    /\ UNCHANGED <<stage, sock_fd, mine, osVars, waiting, pollVars, blame>>

\* The answer of ioctlsocket is not looked at.
SetBlocking(o, block) ==
    /\ Script(o)
    /\ sock_timeout' = [sock_timeout EXCEPT ![o] = IF block THEN -1 ELSE 0]
    /\ nonblocking' = IF block THEN nonblocking \ {SocketOf(o)}
                      ELSE nonblocking \cup ({SocketOf(o)} \ {NoSocket})
    /\ IF block /\ \E p \in Poll : poll[p].of = SocketOf(o) /\ SocketOf(o) # NoSocket
        THEN Blame("made blocking") ELSE UNCHANGED blame
    /\ UNCHANGED <<stage, sock_fd, mine, os, opened, listening, connected, ready, waiting, pollVars>>

Listen(o) ==
    /\ Script(o) /\ SocketOf(o) \notin connected \cup {NoSocket}
    /\ listening' = listening \cup {SocketOf(o)}
    /\ UNCHANGED <<objVars, os, opened, nonblocking, connected, ready, waiting,
                    pollVars, blame>>

\* accept or recv with nothing there yet, or send without room, on a socket in
\* blocking mode.
Block(o) ==
    /\ Script(o) /\ SocketOf(o) \in (listening \cup connected) \ nonblocking
    /\ SocketOf(o) \in ready => SocketOf(o) \in connected
    /\ waiting' = {o}
    /\ UNCHANGED <<objVars, osVars, pollVars, blame>>

\* The send gets through, or the call fails.
CallEnds(o) ==
    /\ o \in waiting
    /\ waiting' = {}
    /\ UNCHANGED <<objVars, osVars, pollVars, blame>>

CanRead(o) == stage[o] = "held" /\ waiting \subseteq {o} /\ SocketOf(o) \in ready

Taken(o) == ready' \in {ready, ready \ {SocketOf(o)}}

Recv(o) ==
    /\ CanRead(o) /\ SocketOf(o) \in connected
    /\ Taken(o)
    /\ waiting' = {}
    /\ UNCHANGED <<objVars, os, opened, nonblocking, listening, connected, pollVars, blame>>

\* Mutant: the object of the listener is initialised instead of a new one.
AcceptIntoSelf(o, n, f) ==
    /\ CanRead(o) /\ SocketOf(o) \in listening
    /\ Taken(o)
    /\ waiting' = {}
    /\ Open(f)
    /\ InitSockobject(o, f, opened + 1)
    /\ UNCHANGED <<stage, nonblocking, listening, connected, pollVars, blame>>

\* A connection is accepted and wrapped by a call of the class.  When the
\* address cannot be built after that, the new object is garbage at once.
Accept(o, n, f) ==
    /\ CanRead(o) /\ SocketOf(o) \in listening /\ stage[n] = "none"
    /\ Taken(o)
    /\ waiting' = {}
    /\ Open(f)
    /\ stage' = [stage EXCEPT ![n] = "held"]
    /\ InitSockobject(n, f, opened + 1)
    /\ nonblocking' = IF SocketOf(o) \in nonblocking
                        THEN nonblocking \cup {opened + 1} ELSE nonblocking
    /\ connected' = connected \cup {opened + 1}
    /\ UNCHANGED <<listening, pollVars, blame>>

\* The call of the class raises an error: lua_call does not come back.
AcceptRaises(o, f) ==
    /\ CanRead(o) /\ SocketOf(o) \in listening
    /\ Taken(o)
    /\ waiting' = {}
    /\ Open(f)
    /\ nonblocking' = IF SocketOf(o) \in nonblocking
                        THEN nonblocking \cup {opened + 1} ELSE nonblocking
    /\ Blame("accept raised")
    /\ connected' = connected \cup {opened + 1}
    /\ UNCHANGED <<objVars, listening, pollVars>>

\* The class has no metatable with __call: the connection is closed again.
AcceptFails(o) ==
    /\ CanRead(o) /\ SocketOf(o) \in listening
    /\ Taken(o)
    /\ waiting' = {}
    /\ UNCHANGED <<objVars, os, opened, nonblocking, listening, connected, pollVars, blame>>

\* Mutant: the number stays in the object, and __gc closes it again.
CloseKeepsFd(o) ==
    /\ Script(o) /\ sock_fd[o] # NoFd
    /\ SocketClose(sock_fd[o])
    /\ UNCHANGED <<objVars, waiting>>

Close(o) ==
    /\ Script(o) /\ sock_fd[o] # NoFd
    /\ sock_fd' = [sock_fd EXCEPT ![o] = NoFd]
    /\ mine' = [mine EXCEPT ![o] = NoSocket]
    /\ SocketClose(sock_fd[o])
    /\ UNCHANGED <<stage, sock_timeout, waiting>>

\* __gc, whenever the script has dropped the object.
Gc(o) ==
    /\ Script(o)
    /\ stage' = [stage EXCEPT ![o] = "gone"]
    /\ sock_fd' = [sock_fd EXCEPT ![o] = NoFd]
    /\ IF sock_fd[o] # NoFd THEN SocketClose(sock_fd[o])
                            ELSE UNCHANGED <<osVars, pollVars, blame>>
    /\ sock_timeout' = [sock_timeout EXCEPT ![o] = -1]
    /\ mine' = [mine EXCEPT ![o] = NoSocket]
    /\ UNCHANGED waiting

-----------------------------------------------------------------------------
(***************************************************************************)
(* cPoll.  The script asks for the same events in each start, so one of    *)
(* the two requests of a uv_poll_t is enough.                              *)
(***************************************************************************)
\* A number that is not open makes a request that is done with an error.
Submitted(record) ==
    IF os[record.fd] = NoSocket
        THEN [record EXCEPT !.req = "error", !.on = NoSocket]
        ELSE [record EXCEPT !.req = "pending", !.on = os[record.fd]]

\* uv_poll_init_socket makes the socket non-blocking and keeps the number.
PollInit(p, o) ==
    /\ Script(o) /\ poll[p].stage = "none" /\ SocketOf(o) # NoSocket
    /\ poll' = [poll EXCEPT ![p] = [@ EXCEPT !.stage = "ready", !.fd = sock_fd[o],
                                             !.of = SocketOf(o)]]
    /\ nonblocking' = nonblocking \cup {SocketOf(o)}
    /\ UNCHANGED <<objVars, os, opened, listening, connected, ready, waiting,
                    polling, blame>>

\* It fails when the socket is already non-blocking.  What is left of the handle is
\* the subject of Watchers; here it is not started.
PollInitFails(p, o) ==
    /\ Script(o) /\ poll[p].stage = "none" /\ SocketOf(o) # NoSocket
    /\ nonblocking' = nonblocking \cup {SocketOf(o)}
    /\ UNCHANGED <<objVars, os, opened, listening, connected, ready, waiting,
                    pollVars, blame>>

PollStart(p) ==
    /\ waiting = {} /\ poll[p].stage = "ready"
    /\ LET started == [poll[p] EXCEPT !.events = TRUE] IN
       poll' = [poll EXCEPT ![p] = IF started.req = "no" THEN Submitted(started) ELSE started]
    /\ polling' = polling \cup {p}
    /\ IF os[poll[p].fd] # poll[p].of
        THEN Blame("started on a stale number") ELSE UNCHANGED blame
    /\ UNCHANGED <<objVars, osVars, waiting>>

\* Mutant: the handle is only marked inactive.
PollStopKeepsEvents(p) ==
    /\ waiting = {} /\ poll[p].stage = "ready"
    /\ polling' = polling \ {p}
    /\ UNCHANGED <<objVars, osVars, waiting, poll, blame>>

PollStop(p) ==
    /\ waiting = {} /\ poll[p].stage = "ready"
    /\ poll' = [poll EXCEPT ![p].events = FALSE]
    /\ polling' = polling \ {p}
    /\ UNCHANGED <<objVars, osVars, waiting, blame>>

\* uv_close, which cancels the request.
PollGc(p) ==
    /\ waiting = {} /\ poll[p].stage = "ready"
    /\ poll' = [poll EXCEPT ![p] = [@ EXCEPT !.events = FALSE,
                                !.stage = IF poll[p].req = "no" THEN "closed" ELSE "closing"]]
    /\ polling' = polling \ {p}
    /\ UNCHANGED <<objVars, osVars, waiting, blame>>

\* The request completes in the system.
RequestCompletes(p) ==
    /\ poll[p].req = "pending"
    /\ poll[p].on \in ready \/ poll[p].stage = "closing"
    /\ poll' = [poll EXCEPT ![p].req = "event"]
    /\ UNCHANGED <<objVars, osVars, waiting, polling, blame>>

\* Mutant: the handle does not submit its next request.
RequestDoneOnce(p) ==
    /\ waiting = {} /\ poll[p].req \notin {"no", "pending"}
    /\ poll' = [poll EXCEPT ![p].req = "no", ![p].on = NoSocket,
                            ![p].stage = IF @ = "closing" THEN "closed" ELSE @]
    /\ UNCHANGED <<objVars, osVars, waiting, polling, blame>>

\* uv__fast_poll_process_poll_req, in uv_run.  A handle that still wants events
\* is told, of an error too, as its status is not handed on.
RequestDone(p) ==
    LET goesOn == poll[p].events /\ poll[p].req = "event"
        idle == [poll[p] EXCEPT !.events = goesOn, !.req = "no", !.on = NoSocket,
                                !.stage = IF @ = "closing" THEN "closed" ELSE @]
    IN  /\ waiting = {} /\ poll[p].req \notin {"no", "pending"}
        /\ poll' = [poll EXCEPT ![p] = IF goesOn THEN Submitted(idle) ELSE idle]
        /\ UNCHANGED <<objVars, osVars, waiting, polling, blame>>

-----------------------------------------------------------------------------
\* A connection or data arrives from the other side.
PeerSends(s) ==
    /\ s \in listening \cup connected
    /\ ready' = ready \cup {s}
    /\ UNCHANGED <<objVars, os, opened, nonblocking, listening, connected, waiting,
                    pollVars, blame>>

ObjectStep(o) ==
    \/ New(o) \/ Listen(o) \/ Block(o) \/ CallEnds(o) \/ Recv(o) \/ AcceptFails(o)
    \/ Close(o) \/ Gc(o) \/ \E p \in Poll : PollInitFails(p, o)
    \/ \E block \in BOOLEAN : SetBlocking(o, block)
    \/ \E f \in Descriptor :
        \/ InitSocket(o, f) \/ InitFd(o, f) \/ AcceptRaises(o, f)
        \/ \E n \in Object : Accept(o, n, f)

PollStep(p) ==
    \/ \E o \in Object : PollInit(p, o)
    \/ PollStart(p) \/ PollStop(p) \/ PollGc(p) \/ RequestCompletes(p) \/ RequestDone(p)

\* Everything has been collected.
Over == (\A o \in Object : stage[o] = "gone") /\ UNCHANGED vars

Next ==
    \/ \E o \in Object : ObjectStep(o)
    \/ \E p \in Poll : PollStep(p)
    \/ \E s \in Kernel : PeerSends(s)
    \/ Over

\* The system completes requests whose socket is ready, and the loop is run.
Spec ==
    /\ Init /\ [][Next]_vars
    /\ \A p \in Poll : WF_vars(RequestCompletes(p)) /\ WF_vars(RequestDone(p))

-----------------------------------------------------------------------------
(***************************************************************************)
(* Properties.                                                             *)
(***************************************************************************)
\* The types of the state: a timeout is -1 or 0, as setblocking sets no other,
\* and an object or watcher knows numbers only.
TypeOK ==
    /\ stage \in [Object -> {"none", "held", "gone"}]
    /\ sock_fd \in [Object -> Descriptor \cup {NoFd}]
    /\ sock_timeout \in [Object -> {-1, 0}]
    /\ mine \in [Object -> Kernel \cup {NoSocket}]
    /\ os \in [Descriptor -> Kernel \cup {NoSocket}] /\ opened \in 0 .. MaxSockets
    /\ nonblocking \subseteq Kernel /\ listening \subseteq Kernel
    /\ connected \subseteq Kernel /\ ready \subseteq Kernel
    /\ waiting \subseteq Object
    /\ poll \in [Poll -> PollRecord]
    /\ polling \subseteq Poll
    /\ blame \subseteq {"shared", "initialised twice", "accept raised", "made blocking",
                        "closed while polled", "started on a stale number"}

\* Calls through an object reach the socket that the object was made for, or
\* fail; close and __gc in any order and any number close it once and never a
\* stranger's socket that got its number.  Only a number passed to __init__ by
\* the script breaks this.
ObjectsReachTheirOwnSocket == \/ "shared" \in blame
    \/ \A o \in Object : sock_fd[o] # NoFd =>
        /\ stage[o] = "held"
        /\ SocketOf(o) = mine[o] /\ mine[o] # NoSocket
        /\ \A other \in Object \ {o} : sock_fd[other] # sock_fd[o]

\* No descriptor is lost: every open one is in an object whose close or __gc
\* will close it, unless an object was initialised twice or the class raised an
\* error on an accepted connection.
OpenDescriptorsHaveAnOwner ==
    \/ blame \cap {"shared", "initialised twice", "accept raised"} # {}
    \/ \A f \in Descriptor : os[f] # NoSocket => \E o \in Object : sock_fd[o] = f

\* A started watcher polls the socket that it was initialised with, although it
\* keeps a number and submits its next request from uv_run: a descriptor may be
\* closed right after stop (libuv's poll.rst), and collected in any order.
PollsWatchTheirOwnSocket ==
    \/ blame \cap {"closed while polled", "started on a stale number"} # {}
    \/ \A p \in Poll : poll[p].events => poll[p].req \in {"pending", "event"} /\ poll[p].on = poll[p].of

\* The thread of the VM, which drains its mailbox, is never kept by a socket in
\* non-blocking mode or one with a watcher, accepted ones included.
NonBlockingCallsReturn == \A o \in waiting :
    /\ sock_timeout[o] = 0 => "shared" \in blame
    /\ (\E p \in Poll : poll[p].of = SocketOf(o)) => "made blocking" \in blame

Reports(p) == poll[p].events /\ poll[p].req = "event" /\ RequestDone(p)

\* A started watcher tells the script of a socket that stays ready, again and
\* again, also when it was stopped and started while a request was on its way.
ReadySocketsAreReported == \A p \in Poll :
    <>[](p \in polling /\ poll[p].of \in ready /\ waiting = {} /\ blame = {})
        => []<><<Reports(p)>>_vars
=============================================================================
