---------------------------- MODULE SocketsProofs ----------------------------
(***************************************************************************)
(* Proofs about Sockets, for any sets of objects, watchers and numbers and *)
(* any bounds.                                                             *)
(***************************************************************************)
EXTENDS Sockets, TLAPS

\* A watcher that was initialised has a number; only what the script started
\* wants events.
PollShape == \A p \in Poll :
    /\ poll[p].stage # "none" => poll[p].fd \in Descriptor /\ poll[p].of # NoSocket
    /\ poll[p].stage = "none" => poll[p].req = "no"
    /\ poll[p].events => p \in polling
    /\ p \in polling => poll[p].stage = "ready"

\* A kernel socket is behind one number at most and was opened before.
SocketState ==
    /\ \A f \in Descriptor : os[f] <= opened
    /\ \A f, g \in Descriptor : os[f] = os[g] /\ os[f] # NoSocket => f = g
    /\ \A p \in Poll : poll[p].of <= opened

\* While the script is careful, a started watcher's number stands for the socket
\* of its __init__, and requests are about that socket; one that ended with the
\* socket leaves it closed for good.
Watching(p) ==
    /\ p \in polling => os[poll[p].fd] = poll[p].of
    /\ poll[p].req \in {"pending", "event"} => poll[p].on = poll[p].of
    /\ poll[p].req # "error"
    /\ poll[p].req = "local close" =>
            ~poll[p].events /\ \A f \in Descriptor : os[f] # poll[p].of
    /\ poll[p].events => poll[p].req \in {"pending", "event"}

PollState ==
    \/ blame \cap {"closed while polled", "started on a stale number"} # {}
    \/ \A p \in Poll : Watching(p)

\* What an object and a watcher believe of the mode is what the system knows.
ModeState ==
    /\ \/ "shared" \in blame
       \/ \A o \in Object : sock_fd[o] # NoFd /\ sock_timeout[o] = 0 => SocketOf(o) \in nonblocking
    /\ \/ "made blocking" \in blame
       \/ \A p \in Poll, f \in Descriptor :
            os[f] = poll[p].of /\ os[f] # NoSocket => os[f] \in nonblocking
    /\ \A o \in waiting : SocketOf(o) \notin nonblocking \cup {NoSocket}

IInv ==
    /\ TypeOK /\ PollShape /\ SocketState
    /\ ObjectsReachTheirOwnSocket /\ OpenDescriptorsHaveAnOwner
    /\ PollState /\ ModeState

-----------------------------------------------------------------------------
LEMMA KernelNat == Kernel \cup {NoSocket} \subseteq Nat /\ NoSocket \notin Kernel
  BY SocketAssumption DEF Kernel, NoSocket

LEMMA NotNext == \A m, n \in Nat : m <= n => m # n + 1
  OBVIOUS

LEMMA Numbers ==
    ASSUME TypeOK
    PROVE  /\ opened \in Nat /\ \A f \in Descriptor : os[f] \in Nat
           /\ \A p \in Poll : poll[p].of \in Nat
<1>1. opened \in Nat
  <2>1. opened \in 0 .. MaxSockets
    BY DEF TypeOK
  <2> QED
    BY <2>1, SocketAssumption
<1>2. \A f \in Descriptor : os[f] \in Kernel \cup {NoSocket}
  BY DEF TypeOK
<1>3. \A p \in Poll : poll[p].of \in Kernel \cup {NoSocket}
  BY DEF TypeOK, PollRecord
<1> QED
  BY <1>1, <1>2, <1>3, KernelNat

LEMMA SocketOfType ==
    ASSUME TypeOK, NEW o \in Object
    PROVE  /\ SocketOf(o) \in Kernel \cup {NoSocket}
           /\ SocketOf(o) # NoSocket => sock_fd[o] \in Descriptor
  BY DEF TypeOK, SocketOf

LEMMA SubmittedType ==
    ASSUME TypeOK, NEW r \in PollRecord, r.fd \in Descriptor
    PROVE  /\ Submitted(r) \in PollRecord
           /\ Submitted(r).stage = r.stage /\ Submitted(r).fd = r.fd /\ Submitted(r).of = r.of
           /\ Submitted(r).events = r.events
           /\ os[r.fd] = NoSocket => Submitted(r).req = "error"
           /\ os[r.fd] # NoSocket => Submitted(r).req = "pending" /\ Submitted(r).on = os[r.fd]
  BY DEF TypeOK, Submitted, PollRecord, NoSocket

LEMMA OpenType ==
    ASSUME TypeOK, NEW f \in Descriptor, Open(f)
    PROVE  /\ os' \in [Descriptor -> Kernel \cup {NoSocket}] /\ opened' \in 0 .. MaxSockets
           /\ opened + 1 \in Kernel
<1>0. /\ opened \in 0 .. MaxSockets /\ opened < MaxSockets
      /\ opened' = opened + 1 /\ MaxSockets \in Nat
  BY SocketAssumption DEF TypeOK, Open
<1>1. opened + 1 \in Kernel /\ opened' \in 0 .. MaxSockets
  BY <1>0 DEF Kernel
<1>2. os' = [os EXCEPT ![f] = opened + 1] /\ os \in [Descriptor -> Kernel \cup {NoSocket}]
  BY DEF TypeOK, Open
<1> QED
  BY <1>1, <1>2

LEMMA SocketCloseType ==
    ASSUME TypeOK, NEW f \in Descriptor, SocketClose(f)
    PROVE  /\ os' \in [Descriptor -> Kernel \cup {NoSocket}] /\ opened' \in 0 .. MaxSockets
           /\ nonblocking' \subseteq Kernel /\ listening' \subseteq Kernel
           /\ connected' \subseteq Kernel /\ ready' \subseteq Kernel
           /\ poll' \in [Poll -> PollRecord] /\ polling' \subseteq Poll
           /\ blame' \subseteq {"shared", "initialised twice", "accept raised", "made blocking",
                                "closed while polled", "started on a stale number"}
<1>1. ASSUME NEW r \in PollRecord PROVE [r EXCEPT !.req = "local close"] \in PollRecord
  BY DEF PollRecord
<1>2. poll' \in [Poll -> PollRecord]
  BY <1>1 DEF TypeOK, SocketClose
<1> QED
  BY <1>2 DEF TypeOK, SocketClose, Blame

\* Every step keeps the types.
LEMMA TypeStep == TypeOK /\ PollShape /\ [Next]_vars => TypeOK'
<1> SUFFICES ASSUME TypeOK, PollShape, [Next]_vars PROVE TypeOK'
  OBVIOUS
<1> USE SocketAssumption
<1>1. ASSUME NEW o \in Object, ObjectStep(o) PROVE TypeOK'
  <2>1. ASSUME New(o) \/ Listen(o) \/ Block(o) \/ CallEnds(o) \/ Recv(o) \/ AcceptFails(o) PROVE TypeOK'
    BY <2>1, SocketOfType DEF TypeOK, New, Listen, Block, CallEnds, Recv, AcceptFails, Taken, CanRead,
        objVars, osVars, pollVars, NoSocket
  <2>2. ASSUME Close(o) PROVE TypeOK'
    <3>1. sock_fd[o] \in Descriptor
      BY <2>2 DEF Close, TypeOK
    <3> QED
      BY <2>2, <3>1, SocketCloseType DEF TypeOK, Close
  <2>3. ASSUME Gc(o) PROVE TypeOK'
    <3>1. CASE sock_fd[o] = NoFd
      BY <2>3, <3>1 DEF TypeOK, Gc, osVars, pollVars
    <3>2. CASE sock_fd[o] # NoFd
      <4>1. sock_fd[o] \in Descriptor /\ SocketClose(sock_fd[o])
        BY <2>3, <3>2 DEF Gc, TypeOK
      <4> QED
        BY <2>3, <4>1, SocketCloseType DEF TypeOK, Gc
    <3> QED
      BY <3>1, <3>2
  <2>4. ASSUME NEW block \in BOOLEAN, SetBlocking(o, block) PROVE TypeOK'
    BY <2>4, SocketOfType DEF TypeOK, SetBlocking, Blame, pollVars
  <2>5. ASSUME NEW f \in Descriptor, InitSocket(o, f) PROVE TypeOK'
    <3>1. Open(f)
      BY <2>5 DEF InitSocket
    <3> QED
      BY <2>5, <3>1, OpenType DEF TypeOK, InitSocket, InitSockobject, Blame, pollVars
  <2>6. ASSUME NEW f \in Descriptor, InitFd(o, f) PROVE TypeOK'
    BY <2>6 DEF TypeOK, InitFd, InitSockobject, Blame, osVars, pollVars
  <2>7. ASSUME NEW f \in Descriptor, AcceptRaises(o, f) PROVE TypeOK'
    <3>1. Open(f)
      BY <2>7 DEF AcceptRaises
    <3> QED
      BY <2>7, <3>1, OpenType DEF TypeOK, AcceptRaises, Taken, Blame, objVars, pollVars
  <2>8. ASSUME NEW f \in Descriptor, NEW n \in Object, Accept(o, n, f) PROVE TypeOK'
    <3>1. Open(f)
      BY <2>8 DEF Accept
    <3> QED
      BY <2>8, <3>1, OpenType DEF TypeOK, Accept, InitSockobject, Taken, pollVars
  <2>9. ASSUME NEW p \in Poll, PollInitFails(p, o) PROVE TypeOK'
    BY <2>9, SocketOfType DEF TypeOK, PollInitFails, objVars, pollVars
  <2> QED
    BY <1>1, <2>1, <2>2, <2>3, <2>4, <2>5, <2>6, <2>7, <2>8, <2>9 DEF ObjectStep
<1>2. ASSUME NEW p \in Poll, PollStep(p) PROVE TypeOK'
  <2>0. poll[p] \in PollRecord
    BY DEF TypeOK
  <2>1. ASSUME NEW o \in Object, PollInit(p, o) PROVE TypeOK'
    <3>1. SocketOf(o) \in Kernel /\ sock_fd[o] \in Descriptor
      BY <2>1, SocketOfType DEF PollInit
    <3> DEFINE new == [poll[p] EXCEPT !.stage = "ready", !.fd = sock_fd[o], !.of = SocketOf(o)]
    <3>0. new \in PollRecord
      BY <2>0, <3>1 DEF PollRecord
    <3>2. poll' \in [Poll -> PollRecord]
      BY <2>1, <3>0 DEF PollInit, TypeOK
    <3> QED
      BY <2>1, <3>1, <3>2 DEF TypeOK, PollInit, objVars
  <2>2. ASSUME PollStart(p) PROVE TypeOK'
    <3> DEFINE started == [poll[p] EXCEPT !.events = TRUE]
    <3>1. started \in PollRecord /\ started.fd \in Descriptor
      BY <2>0, <2>2 DEF PollStart, PollShape, PollRecord
    <3>2. poll' \in [Poll -> PollRecord]
      BY <2>2, <3>1, SubmittedType DEF PollStart, TypeOK
    <3> QED
      BY <2>2, <3>2 DEF TypeOK, PollStart, Blame, objVars, osVars
  <2>3. ASSUME PollStop(p) \/ PollGc(p) \/ RequestCompletes(p) PROVE TypeOK'
    <3>0. /\ [poll[p] EXCEPT !.events = FALSE] \in PollRecord
          /\ [poll[p] EXCEPT !.req = "event"] \in PollRecord
          /\ [poll[p] EXCEPT !.events = FALSE,
                !.stage = IF poll[p].req = "no" THEN "closed" ELSE "closing"] \in PollRecord
      BY <2>0 DEF PollRecord
    <3>1. poll' \in [Poll -> PollRecord]
      BY <2>3, <3>0 DEF PollStop, PollGc, RequestCompletes, TypeOK
    <3> QED
      BY <2>3, <3>1 DEF TypeOK, PollStop, PollGc, RequestCompletes, objVars, osVars
  <2>4. ASSUME RequestDone(p) PROVE TypeOK'
    <3> DEFINE goesOn == poll[p].events /\ poll[p].req = "event"
               idle == [poll[p] EXCEPT !.events = goesOn, !.req = "no", !.on = NoSocket,
                                !.stage = IF @ = "closing" THEN "closed" ELSE @]
    <3>1. idle \in PollRecord /\ idle.fd = poll[p].fd
      BY <2>0 DEF PollRecord
    <3>2. poll[p].fd \in Descriptor
      BY <2>4 DEF RequestDone, PollShape
    <3>3. Submitted(idle) \in PollRecord
      BY <3>1, <3>2, SubmittedType
    <3>4. poll' \in [Poll -> PollRecord]
      BY <2>4, <3>1, <3>3 DEF RequestDone, TypeOK
    <3> QED
      BY <2>4, <3>4 DEF TypeOK, RequestDone, objVars, osVars
  <2> QED
    BY <1>2, <2>1, <2>2, <2>3, <2>4 DEF PollStep
<1>3. ASSUME NEW s \in Kernel, PeerSends(s) PROVE TypeOK'
  BY <1>3 DEF TypeOK, PeerSends, objVars, pollVars
<1>4. ASSUME UNCHANGED vars PROVE TypeOK'
  BY <1>4 DEF TypeOK, vars, objVars, osVars, pollVars
<1> QED
  BY <1>1, <1>2, <1>3, <1>4 DEF Next, Over

-----------------------------------------------------------------------------
(* What the steps do to numbers and watchers. *)

Closed(p, f) ==
    /\ poll'[p].stage = poll[p].stage /\ poll'[p].fd = poll[p].fd
    /\ poll'[p].of = poll[p].of /\ (poll'[p].events <=> poll[p].events)
    /\ poll'[p].on = poll[p].on
    /\ \/ poll'[p].req = poll[p].req
       \/ poll[p].req = "pending" /\ poll[p].on = os[f] /\ poll'[p].req = "local close"
    /\ poll'[p].req = "pending" => poll[p].on # os[f]

LEMMA SocketClosePolls ==
    ASSUME TypeOK, NEW f \in Descriptor, SocketClose(f)
    PROVE  \A p \in Poll : Closed(p, f)
<1> SUFFICES ASSUME NEW p \in Poll PROVE Closed(p, f)
  OBVIOUS
<1>1. poll[p] \in PollRecord
  BY DEF TypeOK
<1>2. poll'[p] = IF poll[p].req = "pending" /\ poll[p].on = os[f]
                    THEN [poll[p] EXCEPT !.req = "local close"] ELSE poll[p]
  BY DEF SocketClose
<1> QED
  BY <1>1, <1>2 DEF PollRecord, Closed

\* A call through an object opens a socket, closes one or does neither.
LEMMA ObjectStepKinds ==
    ASSUME TypeOK, NEW o \in Object, ObjectStep(o)
    PROVE  \/ UNCHANGED <<os, opened, poll, polling>>
           \/ (\E f \in Descriptor : Open(f)) /\ UNCHANGED <<poll, polling>>
           \/ \E f \in Descriptor : SocketClose(f)
<1>1. CASE Close(o)
  BY <1>1 DEF Close, TypeOK
<1>2. CASE Gc(o)
  BY <1>2 DEF Gc, TypeOK, osVars, pollVars
<1>3. CASE \E f \in Descriptor : InitSocket(o, f) \/ AcceptRaises(o, f)
                \/ \E n \in Object : Accept(o, n, f)
  BY <1>3 DEF InitSocket, AcceptRaises, Accept, pollVars
<1>4. CASE \/ New(o) \/ Listen(o) \/ Block(o) \/ CallEnds(o) \/ Recv(o) \/ AcceptFails(o)
           \/ \E f \in Descriptor : InitFd(o, f)
           \/ \E block \in BOOLEAN : SetBlocking(o, block)
           \/ \E p \in Poll : PollInitFails(p, o)
  BY <1>4 DEF New, Listen, Block, CallEnds, Recv, AcceptFails, InitFd, SetBlocking, PollInitFails,
      osVars, pollVars
<1> QED
  BY <1>1, <1>2, <1>3, <1>4 DEF ObjectStep

LEMMA ObjectStepBlames ==
    ASSUME NEW o \in Object, ObjectStep(o)
    PROVE  blame \subseteq blame'
  BY DEF ObjectStep, New, Listen, Block, CallEnds, Recv, AcceptFails, Close, Gc, SetBlocking, InitSocket,
      InitFd, PollInitFails, AcceptRaises, Accept, SocketClose, Blame

\* A step of a watcher leaves the numbers, the objects and the others alone.
LEMMA PollStepFrame ==
    ASSUME TypeOK, NEW p \in Poll, PollStep(p)
    PROVE  /\ UNCHANGED <<objVars, os, opened, listening, connected, ready, waiting>>
           /\ \A q \in Poll \ {p} : poll'[q] = poll[q] /\ (q \in polling' <=> q \in polling)
           /\ blame \subseteq blame' /\ nonblocking \subseteq nonblocking'
           /\ poll'[p].of = poll[p].of \/ \E o \in Object : PollInit(p, o)
           /\ nonblocking' = nonblocking \/ \E o \in Object : PollInit(p, o)
<1> USE DEF TypeOK, osVars
<1>1. CASE \E o \in Object : PollInit(p, o)
  BY <1>1 DEF PollInit
<1>2. CASE PollStart(p)
  <2>1. UNCHANGED <<objVars, osVars, waiting>> /\ blame \subseteq blame' /\ polling' = polling \cup {p}
    BY <1>2 DEF PollStart, Blame
  <2> DEFINE started == [poll[p] EXCEPT !.events = TRUE]
             new == IF started.req = "no" THEN Submitted(started) ELSE started
  <2>2. poll' = [poll EXCEPT ![p] = new]
    BY <1>2 DEF PollStart
  <2>3. new.of = poll[p].of
    BY DEF Submitted, PollRecord
  <2> HIDE DEF new
  <2> QED
    BY <2>1, <2>2, <2>3
<1>3. CASE PollStop(p) \/ PollGc(p) \/ RequestCompletes(p)
  <2>1. /\ UNCHANGED <<objVars, osVars, waiting, blame>>
        /\ polling' = polling \ {p} \/ polling' = polling
    BY <1>3 DEF PollStop, PollGc, RequestCompletes
  <2>2. \A q \in Poll \ {p} : poll'[q] = poll[q]
    BY <1>3 DEF PollStop, PollGc, RequestCompletes
  <2>3. /\ [poll[p] EXCEPT !.events = FALSE].of = poll[p].of
        /\ [poll[p] EXCEPT !.req = "event"].of = poll[p].of
        /\ [poll[p] EXCEPT !.events = FALSE,
              !.stage = IF poll[p].req = "no" THEN "closed" ELSE "closing"].of = poll[p].of
    BY DEF PollRecord
  <2>4. poll'[p].of = poll[p].of
    BY <1>3, <2>3 DEF PollStop, PollGc, RequestCompletes
  <2> QED
    BY <2>1, <2>2, <2>4
<1>4. CASE RequestDone(p)
  <2> DEFINE goesOn == poll[p].events /\ poll[p].req = "event"
             idle == [poll[p] EXCEPT !.events = goesOn, !.req = "no", !.on = NoSocket,
                                !.stage = IF @ = "closing" THEN "closed" ELSE @]
             new == IF goesOn THEN Submitted(idle) ELSE idle
  <2>1. UNCHANGED <<objVars, osVars, waiting, polling, blame>>
    BY <1>4 DEF RequestDone
  <2>2. poll' = [poll EXCEPT ![p] = new]
    BY <1>4 DEF RequestDone
  <2>3. new.of = poll[p].of
    BY DEF Submitted, PollRecord
  <2> HIDE DEF new
  <2> QED
    BY <2>1, <2>2, <2>3
<1> QED
  BY <1>1, <1>2, <1>3, <1>4 DEF PollStep

\* What each step of a watcher does to its own record.
Initialised(p) ==
    /\ poll[p].stage = "none" /\ poll'[p].stage = "ready"
    /\ poll'[p].fd \in Descriptor /\ poll'[p].of = os[poll'[p].fd] /\ poll'[p].of # NoSocket
    /\ poll'[p].events = poll[p].events /\ poll'[p].req = poll[p].req
    /\ poll'[p].on = poll[p].on
    /\ polling' = polling
    /\ nonblocking' = nonblocking \cup {poll'[p].of}

SameWatch(p) ==
    /\ poll[p].stage # "none" /\ poll'[p].stage # "none"
    /\ poll[p].stage = "ready" => poll'[p].stage = "ready"
    /\ poll'[p].fd = poll[p].fd /\ poll'[p].of = poll[p].of

Asked(p) ==
    /\ os[poll[p].fd] = NoSocket => poll'[p].req = "error"
    /\ os[poll[p].fd] # NoSocket => poll'[p].req = "pending" /\ poll'[p].on = os[poll[p].fd]

Started(p) ==
    /\ SameWatch(p) /\ poll[p].stage = "ready" /\ poll'[p].events
    /\ poll[p].req = "no" => Asked(p)
    /\ poll[p].req # "no" => poll'[p].req = poll[p].req /\ poll'[p].on = poll[p].on
    /\ polling' = polling \cup {p}
    /\ os[poll[p].fd] # poll[p].of => "started on a stale number" \in blame'

Ended(p) ==
    /\ poll[p].stage # "none" /\ poll'[p].stage # "none"
    /\ poll'[p].fd = poll[p].fd /\ poll'[p].of = poll[p].of
    /\ ~poll'[p].events /\ poll'[p].req = poll[p].req /\ poll'[p].on = poll[p].on
    /\ polling' = polling \ {p}

Completed(p) ==
    /\ SameWatch(p) /\ poll[p].req = "pending" /\ poll'[p].req = "event"
    /\ poll'[p].events = poll[p].events /\ poll'[p].on = poll[p].on
    /\ polling' = polling

Processed(p) ==
    /\ SameWatch(p) /\ poll[p].req \notin {"no", "pending"}
    /\ poll'[p].events => poll[p].events /\ poll[p].req = "event" /\ Asked(p)
    /\ ~poll'[p].events => poll'[p].req = "no"
    /\ polling' = polling

LEMMA PollStepRecord ==
    ASSUME TypeOK, PollShape, NEW p \in Poll, PollStep(p)
    PROVE  Initialised(p) \/ Started(p) \/ Ended(p) \/ Completed(p) \/ Processed(p)
<1>0. poll[p] \in PollRecord /\ poll \in [Poll -> PollRecord]
  BY DEF TypeOK
<1>1. ASSUME NEW o \in Object, PollInit(p, o) PROVE Initialised(p)
  <2>1. SocketOf(o) # NoSocket /\ sock_fd[o] \in Descriptor /\ SocketOf(o) = os[sock_fd[o]]
    BY <1>1, SocketOfType DEF PollInit, SocketOf
  <2> DEFINE new == [poll[p] EXCEPT !.stage = "ready", !.fd = sock_fd[o], !.of = SocketOf(o)]
  <2>2. poll'[p] = new /\ polling' = polling /\ nonblocking' = nonblocking \cup {SocketOf(o)}
    BY <1>0, <1>1 DEF PollInit
  <2>3. /\ new.stage = "ready" /\ new.fd = sock_fd[o] /\ new.of = SocketOf(o)
        /\ new.events = poll[p].events /\ new.req = poll[p].req /\ new.on = poll[p].on
    BY <1>0 DEF PollRecord
  <2> QED
    BY <1>1, <2>1, <2>2, <2>3 DEF PollInit, Initialised
<1>2. ASSUME PollStart(p) PROVE Started(p)
  <2> DEFINE started == [poll[p] EXCEPT !.events = TRUE]
  <2>1. /\ started \in PollRecord
        /\ started.stage = poll[p].stage /\ started.fd = poll[p].fd /\ started.of = poll[p].of
        /\ started.req = poll[p].req /\ started.on = poll[p].on /\ started.events = TRUE
    BY <1>0 DEF PollRecord
  <2>2. poll[p].stage = "ready" /\ poll[p].fd \in Descriptor
    BY <1>2 DEF PollStart, PollShape
  <2>3. /\ poll[p].req = "no" => poll'[p] = Submitted(started)
        /\ poll[p].req # "no" => poll'[p] = started
    BY <1>0, <1>2, <2>1 DEF PollStart
  <2> HIDE DEF started
  <2>5. /\ poll'[p].stage = "ready" /\ poll'[p].fd = poll[p].fd /\ poll'[p].of = poll[p].of
        /\ poll'[p].events
    BY <2>1, <2>2, <2>3, SubmittedType
  <2>6. poll[p].req = "no" => Asked(p)
    BY <2>1, <2>2, <2>3, SubmittedType DEF Asked
  <2>7. poll[p].req # "no" => poll'[p].req = poll[p].req /\ poll'[p].on = poll[p].on
    BY <2>1, <2>3
  <2>8. polling' = polling \cup {p}
    BY <1>2 DEF PollStart
  <2>9. os[poll[p].fd] # poll[p].of => "started on a stale number" \in blame'
    BY <1>2 DEF PollStart, Blame
  <2> QED
    BY <2>2, <2>5, <2>6, <2>7, <2>8, <2>9 DEF Started, SameWatch
<1>3. ASSUME PollStop(p) \/ PollGc(p) PROVE Ended(p)
  <2> DEFINE stopped == [poll[p] EXCEPT !.events = FALSE]
             closed == [poll[p] EXCEPT !.events = FALSE,
                            !.stage = IF poll[p].req = "no" THEN "closed" ELSE "closing"]
  <2>1. /\ stopped.stage = poll[p].stage /\ stopped.fd = poll[p].fd /\ stopped.of = poll[p].of
        /\ stopped.req = poll[p].req /\ stopped.on = poll[p].on /\ stopped.events = FALSE
        /\ closed.stage # "none" /\ closed.fd = poll[p].fd /\ closed.of = poll[p].of
        /\ closed.req = poll[p].req /\ closed.on = poll[p].on /\ closed.events = FALSE
    BY <1>0 DEF PollRecord
  <2>2. poll'[p] = stopped \/ poll'[p] = closed
    BY <1>0, <1>3 DEF PollStop, PollGc
  <2>3. polling' = polling \ {p} /\ poll[p].stage # "none"
    BY <1>3 DEF PollStop, PollGc
  <2> QED
    BY <2>1, <2>2, <2>3 DEF Ended
<1>4. ASSUME RequestCompletes(p) PROVE Completed(p)
  <2>1. poll'[p] = [poll[p] EXCEPT !.req = "event"] /\ polling' = polling
    BY <1>0, <1>4 DEF RequestCompletes
  <2>2. poll[p].req = "pending" /\ poll[p].stage # "none"
    BY <1>4 DEF RequestCompletes, PollShape
  <2> QED
    BY <1>0, <2>1, <2>2 DEF Completed, SameWatch, PollRecord
<1>5. ASSUME RequestDone(p) PROVE Processed(p)
  <2> DEFINE goesOn == poll[p].events /\ poll[p].req = "event"
             idle == [poll[p] EXCEPT !.events = goesOn, !.req = "no", !.on = NoSocket,
                                !.stage = IF @ = "closing" THEN "closed" ELSE @]
  <2>1. /\ idle \in PollRecord
        /\ idle.fd = poll[p].fd /\ idle.of = poll[p].of /\ idle.req = "no"
        /\ idle.stage = IF poll[p].stage = "closing" THEN "closed" ELSE poll[p].stage
        /\ idle.events <=> goesOn
    BY <1>0 DEF PollRecord
  <2>2. (goesOn => poll'[p] = Submitted(idle)) /\ (~goesOn => poll'[p] = idle)
    BY <1>0, <1>5 DEF RequestDone
  <2> HIDE DEF idle
  <2>3. poll[p].req \notin {"no", "pending"} /\ polling' = polling
    BY <1>5 DEF RequestDone
  <2>4. poll[p].stage # "none" /\ poll[p].fd \in Descriptor
    BY <2>3 DEF PollShape
  <2>5. CASE goesOn
    <3>1. /\ poll'[p].stage = idle.stage /\ poll'[p].fd = idle.fd /\ poll'[p].of = idle.of
          /\ poll'[p].events = idle.events
          /\ os[idle.fd] = NoSocket => poll'[p].req = "error"
          /\ os[idle.fd] # NoSocket => poll'[p].req = "pending" /\ poll'[p].on = os[idle.fd]
      BY <2>1, <2>2, <2>4, <2>5, SubmittedType
    <3> QED
      BY <2>1, <2>3, <2>4, <2>5, <3>1 DEF Processed, SameWatch, Asked
  <2>6. CASE ~goesOn
    BY <2>1, <2>2, <2>3, <2>4, <2>6 DEF Processed, SameWatch, Asked
  <2> QED
    BY <2>5, <2>6
<1> QED
  BY <1>1, <1>2, <1>3, <1>4, <1>5 DEF PollStep

-----------------------------------------------------------------------------
(* The parts of IInv, one lemma each. *)

LEMMA PollShapeStep == TypeOK /\ PollShape /\ [Next]_vars => PollShape'
<1> SUFFICES ASSUME TypeOK, PollShape, [Next]_vars PROVE PollShape'
  OBVIOUS
<1>1. ASSUME NEW o \in Object, ObjectStep(o) PROVE PollShape'
  <2>1. CASE UNCHANGED <<poll, polling>>
    BY <2>1 DEF PollShape
  <2>2. ASSUME NEW f \in Descriptor, SocketClose(f) PROVE PollShape'
    <3>1. polling' = polling
      BY <2>2 DEF SocketClose
    <3>2. \A p \in Poll : Closed(p, f)
      BY <2>2, SocketClosePolls
    <3>3. ASSUME NEW p \in Poll
          PROVE  /\ poll'[p].stage # "none" => poll'[p].fd \in Descriptor /\ poll'[p].of # NoSocket
                 /\ poll'[p].stage = "none" => poll'[p].req = "no"
                 /\ poll'[p].events => p \in polling'
                 /\ p \in polling' => poll'[p].stage = "ready"
      <4>1. Closed(p, f)
        BY <3>2
      <4>2. /\ poll[p].stage # "none" => poll[p].fd \in Descriptor /\ poll[p].of # NoSocket
            /\ poll[p].stage = "none" => poll[p].req = "no"
            /\ poll[p].events => p \in polling
            /\ p \in polling => poll[p].stage = "ready"
        BY DEF PollShape
      <4>3. /\ poll'[p].stage = poll[p].stage /\ poll'[p].fd = poll[p].fd
            /\ poll'[p].of = poll[p].of /\ (poll'[p].events <=> poll[p].events)
        BY <4>1 DEF Closed
      <4>4. poll[p].req = "no" => poll'[p].req = "no"
        BY <4>1 DEF Closed
      <4> QED
        BY <3>1, <4>2, <4>3, <4>4
    <3> QED
      BY <3>3 DEF PollShape
  <2> QED
    BY <1>1, <2>1, <2>2, ObjectStepKinds
<1>2. ASSUME NEW p \in Poll, PollStep(p) PROVE PollShape'
  <2>1. Initialised(p) \/ Started(p) \/ Ended(p) \/ Completed(p) \/ Processed(p)
    BY <1>2, PollStepRecord
  <2>2. \A q \in Poll \ {p} : poll'[q] = poll[q] /\ (q \in polling' <=> q \in polling)
    BY <1>2, PollStepFrame
  <2> QED
    BY <2>1, <2>2 DEF PollShape, Initialised, Started, Ended, Completed, Processed, SameWatch
<1> QED
  BY <1>1, <1>2 DEF Next, PollShape, PeerSends, Over, vars, pollVars

\* New sockets have numbers above every one given out.
LEMMA SocketStateStep == TypeOK /\ PollShape /\ SocketState /\ [Next]_vars => SocketState'
<1> SUFFICES ASSUME TypeOK, PollShape, SocketState, [Next]_vars PROVE SocketState'
  OBVIOUS
<1>0. opened \in Nat /\ \A f \in Descriptor : os[f] \in Nat
  BY Numbers
<1>1. ASSUME NEW o \in Object, ObjectStep(o) PROVE SocketState'
  <2>1. CASE UNCHANGED <<os, opened, poll, polling>>
    BY <2>1 DEF SocketState
  <2>2. ASSUME NEW f \in Descriptor, Open(f), UNCHANGED poll PROVE SocketState'
    <3>1. /\ opened' = opened + 1
          /\ \A g \in Descriptor : os'[g] = IF g = f THEN opened + 1 ELSE os[g]
      BY <2>2 DEF Open, TypeOK
    <3>2. \A p \in Poll : poll[p].of \in Nat
      BY Numbers
    <3> QED
      BY <1>0, <2>2, <3>1, <3>2 DEF SocketState
  <2>3. ASSUME NEW f \in Descriptor, SocketClose(f) PROVE SocketState'
    <3>1. /\ opened' = opened
          /\ \A g \in Descriptor : os'[g] = IF g = f THEN NoSocket ELSE os[g]
      BY <2>3 DEF SocketClose, TypeOK
    <3>2. \A p \in Poll : Closed(p, f)
      BY <2>3, SocketClosePolls
    <3>3. \A p \in Poll : poll'[p].of <= opened'
      BY <3>1, <3>2 DEF SocketState, Closed
    <3>4. /\ \A g \in Descriptor : os'[g] <= opened'
          /\ \A g, h \in Descriptor : os'[g] = os'[h] /\ os'[g] # NoSocket => g = h
      BY <1>0, <3>1 DEF SocketState, NoSocket
    <3> QED
      BY <3>3, <3>4 DEF SocketState
  <2> QED
    BY <1>1, <2>1, <2>2, <2>3, ObjectStepKinds
<1>2. ASSUME NEW p \in Poll, PollStep(p) PROVE SocketState'
  <2>1. Initialised(p) \/ Started(p) \/ Ended(p) \/ Completed(p) \/ Processed(p)
    BY <1>2, PollStepRecord
  <2>2. /\ UNCHANGED <<os, opened>>
        /\ \A q \in Poll \ {p} : poll'[q] = poll[q]
    BY <1>2, PollStepFrame
  <2>3. poll'[p].of <= opened
    BY <2>1 DEF SocketState, Initialised, Started, Ended, Completed, Processed, SameWatch
  <2> QED
    BY <2>2, <2>3 DEF SocketState
<1> QED
  BY <1>1, <1>2 DEF Next, SocketState, PeerSends, Over, vars, objVars, osVars, pollVars

\* Requests stay with the socket of their watcher.
LEMMA PollStateStep ==
    TypeOK /\ PollShape /\ SocketState /\ PollState /\ [Next]_vars => PollState'
<1> SUFFICES ASSUME TypeOK, PollShape, SocketState, PollState, [Next]_vars,
                    blame' \cap {"closed while polled", "started on a stale number"} = {}
             PROVE  \A p \in Poll : Watching(p)'
  BY DEF PollState, Watching
<1>0. /\ opened \in Nat /\ \A f \in Descriptor : os[f] \in Nat
      /\ \A p \in Poll : poll[p].of \in Nat
  BY Numbers
<1>1. ASSUME NEW o \in Object, ObjectStep(o) PROVE \A p \in Poll : Watching(p)'
  <2>0. \A p \in Poll : Watching(p)
    BY <1>1, ObjectStepBlames DEF PollState, Watching
  <2>1. CASE UNCHANGED <<os, opened, poll, polling>>
    BY <2>0, <2>1 DEF Watching
  <2>2. ASSUME NEW f \in Descriptor, Open(f), UNCHANGED <<poll, polling>>,
               NEW p \in Poll
        PROVE  Watching(p)'
    <3>1. /\ os[f] = NoSocket
          /\ \A g \in Descriptor : os'[g] = IF g = f THEN opened + 1 ELSE os[g]
      BY <2>2 DEF Open, TypeOK
    <3>2. poll[p].of # opened + 1
      <4>1. poll[p].of <= opened /\ poll[p].of \in Nat /\ opened \in Nat
        BY <1>0, <2>2 DEF SocketState
      <4> QED
        BY <4>1, NotNext
    <3>3. p \in polling => poll[p].fd \in Descriptor /\ poll[p].fd # f
      BY <2>0, <3>1 DEF PollShape, Watching
    <3> QED
      BY <2>0, <2>2, <3>1, <3>2, <3>3 DEF Watching
  <2>3. ASSUME NEW f \in Descriptor, SocketClose(f), NEW p \in Poll
        PROVE  Watching(p)'
    <3>1. /\ polling' = polling
          /\ \A g \in Descriptor : os'[g] = IF g = f THEN NoSocket ELSE os[g]
          /\ p \in polling => poll[p].of # os[f]
      BY <2>3 DEF SocketClose, TypeOK, Blame
    <3>2. Closed(p, f)
      BY <2>3, SocketClosePolls
    <3>3. p \in polling => os'[poll'[p].fd] = poll'[p].of
      <4>1. p \in polling => os[poll[p].fd] = poll[p].of /\ poll[p].fd \in Descriptor
        BY <2>0, <2>3 DEF PollShape, Watching
      <4>2. p \in polling => poll[p].fd # f
        BY <3>1, <4>1
      <4> QED
        BY <3>1, <3>2, <4>1, <4>2 DEF Closed
    <3>4. ASSUME poll[p].req # "no" PROVE poll[p].of # NoSocket
      BY <3>4 DEF PollShape
    <3>5. ASSUME poll'[p].req = "local close"
          PROVE  ~poll'[p].events /\ \A g \in Descriptor : os'[g] # poll'[p].of
      <4>1. CASE poll[p].req = "local close"
        BY <2>0, <3>1, <3>2, <3>4, <4>1 DEF Watching, Closed
      <4>2. CASE poll[p].req = "pending" /\ poll[p].on = os[f]
        <5>1. poll[p].of = os[f] /\ os[f] # NoSocket
          BY <2>0, <3>4, <4>2 DEF Watching
        <5>2. \A g \in Descriptor : os'[g] # poll[p].of
          BY <3>1, <5>1 DEF SocketState
        <5>3. ~poll[p].events
          BY <3>1, <5>1 DEF PollShape
        <5> QED
          BY <3>2, <5>2, <5>3 DEF Closed
      <4> QED
        BY <3>2, <3>5, <4>1, <4>2 DEF Closed
    <3>6. poll'[p].events => poll'[p].req \in {"pending", "event"}
      BY <2>0, <3>2, <3>5 DEF Watching, Closed
    <3> QED
      BY <2>0, <3>1, <3>2, <3>3, <3>5, <3>6 DEF Watching, Closed
  <2> QED
    BY <1>1, <2>1, <2>2, <2>3, ObjectStepKinds
<1>2. ASSUME NEW p \in Poll, PollStep(p) PROVE \A q \in Poll : Watching(q)'
  <2>0. /\ UNCHANGED os /\ \A q \in Poll : Watching(q)
        /\ \A q \in Poll \ {p} : poll'[q] = poll[q] /\ (q \in polling' <=> q \in polling)
    BY <1>2, PollStepFrame DEF PollState, Watching
  <2>1. ASSUME NEW q \in Poll \ {p} PROVE Watching(q)'
    BY <2>0 DEF Watching
  <2>2. Watching(p)'
    <3>1. CASE Initialised(p)
      BY <2>0, <3>1 DEF Watching, Initialised, PollShape
    <3>2. CASE Started(p)
      <4>1. /\ poll[p].of # NoSocket /\ os[poll[p].fd] = poll[p].of
            /\ poll'[p].fd = poll[p].fd /\ poll'[p].of = poll[p].of
            /\ poll[p].fd \in Descriptor
        BY <3>2 DEF Started, SameWatch, PollShape
      <4>2. poll[p].req # "local close"
        BY <2>0, <4>1 DEF Watching
      <4>3. /\ poll'[p].req \in {"pending", "event"} /\ poll'[p].on = poll[p].of
        <5>1. CASE poll[p].req = "no"
          BY <3>2, <4>1, <5>1 DEF Started, Asked
        <5>2. CASE poll[p].req # "no"
          BY <2>0, <3>2, <4>2, <5>2 DEF Started, Watching, TypeOK, PollRecord
        <5> QED
          BY <5>1, <5>2
      <4> QED
        BY <2>0, <4>1, <4>3 DEF Watching
    <3>3. CASE Ended(p)
      BY <2>0, <3>3 DEF Watching, Ended
    <3>4. CASE Completed(p)
      BY <2>0, <3>4 DEF Watching, Completed, SameWatch
    <3>5. CASE Processed(p)
      BY <2>0, <3>5 DEF Watching, Processed, SameWatch, Asked, PollShape
    <3> QED
      BY <1>2, <3>1, <3>2, <3>3, <3>4, <3>5, PollStepRecord
  <2> QED
    BY <2>1, <2>2
<1>3. ASSUME UNCHANGED <<os, poll, polling, blame>> PROVE \A q \in Poll : Watching(q)'
  BY <1>3 DEF PollState, Watching
<1> QED
  BY <1>1, <1>2, <1>3 DEF Next, PeerSends, Over, vars, osVars, pollVars

-----------------------------------------------------------------------------
(* Objects and the numbers they own. *)

Owns(o) == sock_fd[o] # NoFd =>
    /\ stage[o] = "held" /\ sock_fd[o] \in Descriptor
    /\ os[sock_fd[o]] = mine[o] /\ mine[o] # NoSocket
    /\ \A other \in Object \ {o} : sock_fd[other] # sock_fd[o]

Owned(f) == os[f] # NoSocket => \E o \in Object : sock_fd[o] = f

LEMMA OwnsMeans ==
    ASSUME TypeOK
    PROVE  ObjectsReachTheirOwnSocket <=> "shared" \in blame \/ \A o \in Object : Owns(o)
  BY DEF ObjectsReachTheirOwnSocket, Owns, SocketOf, TypeOK

LEMMA BlameGrows == TypeOK /\ [Next]_vars => blame \subseteq blame'
<1> SUFFICES ASSUME TypeOK, [Next]_vars PROVE blame \subseteq blame'
  OBVIOUS
<1>1. ASSUME NEW p \in Poll, PollStep(p) PROVE blame \subseteq blame'
  BY <1>1, PollStepFrame
<1> QED
  BY <1>1, ObjectStepBlames DEF Next, PeerSends, Over, vars, pollVars

\* The new number is not in any object.
LEMMA NewNumber ==
    ASSUME TypeOK, \A o \in Object : Owns(o), NEW f \in Descriptor, Open(f)
    PROVE  /\ \A q \in Object : sock_fd[q] # f
           /\ \A g \in Descriptor : os'[g] = IF g = f THEN opened + 1 ELSE os[g]
           /\ opened + 1 # NoSocket
<1>1. os[f] = NoSocket /\ os' = [os EXCEPT ![f] = opened + 1]
  BY DEF Open
<1>2. opened + 1 # NoSocket
  BY OpenType, KernelNat
<1>3. \A q \in Object : sock_fd[q] # f
  <2>1. f # NoFd
    BY SocketAssumption DEF NoFd
  <2> QED
    BY <1>1, <2>1 DEF Owns
<1> QED
  BY <1>1, <1>2, <1>3 DEF TypeOK

\* An object that gives up its number.
Drops(o) ==
    /\ sock_fd' = [sock_fd EXCEPT ![o] = NoFd]
    /\ mine' = [mine EXCEPT ![o] = NoSocket]
    /\ \A q \in Object \ {o} : stage'[q] = stage[q]
    /\ IF sock_fd[o] # NoFd THEN SocketClose(sock_fd[o]) ELSE UNCHANGED <<os, nonblocking>>

LEMMA DropsOwns ==
    ASSUME TypeOK, NEW o \in Object, Drops(o), \A q \in Object : Owns(q)
    PROVE  /\ \A q \in Object : Owns(q)'
           /\ (\A f \in Descriptor : Owned(f)) => \A f \in Descriptor : Owned(f)'
<1>1. \A q \in Object : sock_fd'[q] = IF q = o THEN NoFd ELSE sock_fd[q]
  BY DEF Drops, TypeOK
<1>2. \A q \in Object : mine'[q] = IF q = o THEN NoSocket ELSE mine[q]
  BY DEF Drops, TypeOK
<1>3. \A f \in Descriptor : os'[f] = IF f = sock_fd[o] THEN NoSocket ELSE os[f]
  <2>1. CASE sock_fd[o] = NoFd
    BY <2>1, SocketAssumption DEF Drops, NoFd
  <2>2. CASE sock_fd[o] # NoFd
    BY <2>2 DEF Drops, SocketClose, TypeOK
  <2> QED
    BY <2>1, <2>2
<1>4. ASSUME NEW q \in Object PROVE Owns(q)'
  <2>1. CASE q = o
    BY <1>1, <2>1 DEF Owns
  <2>2. CASE q # o /\ sock_fd[q] # NoFd
    BY <1>1, <1>2, <1>3, <2>2 DEF Owns, Drops
  <2>3. CASE q # o /\ sock_fd[q] = NoFd
    BY <1>1, <2>3 DEF Owns
  <2> QED
    BY <2>1, <2>2, <2>3
<1>5. ASSUME \A f \in Descriptor : Owned(f), NEW f \in Descriptor PROVE Owned(f)'
  <2> SUFFICES ASSUME os'[f] # NoSocket PROVE \E q \in Object : sock_fd'[q] = f
    BY DEF Owned
  <2>1. f # sock_fd[o] /\ os[f] # NoSocket
    BY <1>3
  <2>2. PICK q \in Object : sock_fd[q] = f
    BY <1>5, <2>1 DEF Owned
  <2> QED
    BY <1>1, <2>1, <2>2
<1> QED
  BY <1>4, <1>5

\* An object that had no number gets the one of a new socket.
Takes(o, f) ==
    /\ Open(f)
    /\ sock_fd' = [sock_fd EXCEPT ![o] = f]
    /\ mine' = [mine EXCEPT ![o] = opened + 1]
    /\ stage' = [stage EXCEPT ![o] = "held"]

LEMMA TakesOwns ==
    ASSUME TypeOK, NEW o \in Object, NEW f \in Descriptor, Takes(o, f),
           \A q \in Object : Owns(q)
    PROVE  /\ \A q \in Object : Owns(q)'
           /\ (\A g \in Descriptor : Owned(g)) /\ sock_fd[o] = NoFd
                => \A g \in Descriptor : Owned(g)'
<1>0. Open(f)
  BY DEF Takes
<1>1. /\ \A q \in Object : sock_fd[q] # f
      /\ \A g \in Descriptor : os'[g] = IF g = f THEN opened + 1 ELSE os[g]
      /\ opened + 1 # NoSocket
  BY <1>0, NewNumber
<1>2. /\ \A q \in Object : sock_fd'[q] = IF q = o THEN f ELSE sock_fd[q]
      /\ \A q \in Object : mine'[q] = IF q = o THEN opened + 1 ELSE mine[q]
      /\ \A q \in Object : stage'[q] = IF q = o THEN "held" ELSE stage[q]
  BY DEF Takes, TypeOK
<1>3. ASSUME NEW q \in Object PROVE Owns(q)'
  <2>1. CASE q = o
    BY <1>1, <1>2, <2>1 DEF Owns
  <2>2. CASE q # o /\ sock_fd[q] # NoFd
    BY <1>1, <1>2, <2>2 DEF Owns
  <2>3. CASE q # o /\ sock_fd[q] = NoFd
    BY <1>2, <2>3 DEF Owns
  <2> QED
    BY <2>1, <2>2, <2>3
<1>4. ASSUME \A g \in Descriptor : Owned(g), sock_fd[o] = NoFd, NEW g \in Descriptor
      PROVE  Owned(g)'
  <2>1. CASE g = f
    BY <1>2, <2>1 DEF Owned
  <2>2. CASE g # f /\ os[g] # NoSocket
    <3>1. PICK q \in Object : sock_fd[q] = g
      BY <1>4, <2>2 DEF Owned
    <3>2. g # NoFd
      BY SocketAssumption DEF NoFd
    <3> QED
      BY <1>2, <1>4, <3>1, <3>2 DEF Owned
  <2>3. CASE g # f /\ os[g] = NoSocket
    BY <1>1, <2>3 DEF Owned
  <2> QED
    BY <2>1, <2>2, <2>3
<1> QED
  BY <1>3, <1>4

\* What a step does to the objects' numbers, while the script shares none.
Appears(o) ==
    /\ stage[o] = "none" /\ stage' = [stage EXCEPT ![o] = "held"]
    /\ UNCHANGED <<sock_fd, mine, os>>

Leaks(f) ==
    /\ Open(f) /\ UNCHANGED <<stage, sock_fd, mine>>
    /\ "accept raised" \in blame'

TakesBlamed(o, f) ==
    /\ Takes(o, f)
    /\ sock_fd[o] # NoFd => "initialised twice" \in blame'

NumberStep ==
    \/ UNCHANGED <<stage, sock_fd, mine, os>>
    \/ \E o \in Object : Appears(o) \/ Drops(o)
    \/ \E f \in Descriptor : Leaks(f) \/ \E o \in Object : TakesBlamed(o, f)

LEMMA NumberSteps ==
    ASSUME TypeOK, \A q \in Object : Owns(q), [Next]_vars, "shared" \notin blame'
    PROVE  NumberStep
<1>1. ASSUME NEW o \in Object, ObjectStep(o) PROVE NumberStep
  <2>1. ASSUME New(o) PROVE Appears(o)
    <3>1. sock_fd[o] = NoFd
      BY <2>1 DEF New, Owns
    <3>2. [sock_fd EXCEPT ![o] = NoFd] = sock_fd
      BY <3>1 DEF TypeOK
    <3> QED
      BY <2>1, <3>2 DEF New, osVars, Appears
  <2>2. ASSUME \/ Listen(o) \/ Block(o) \/ CallEnds(o) \/ Recv(o) \/ AcceptFails(o)
               \/ \E block \in BOOLEAN : SetBlocking(o, block)
               \/ \E p \in Poll : PollInitFails(p, o)
        PROVE  UNCHANGED <<stage, sock_fd, mine, os>>
    BY <2>2 DEF Listen, Block, CallEnds, Recv, AcceptFails, SetBlocking, PollInitFails, objVars, osVars
  <2>3. ASSUME Close(o) \/ Gc(o) PROVE Drops(o)
    BY <2>3 DEF Close, Gc, Drops, TypeOK, osVars
  <2>4. ASSUME NEW f \in Descriptor, InitSocket(o, f) PROVE TakesBlamed(o, f)
    <3>1. [stage EXCEPT ![o] = "held"] = stage
      BY <2>4 DEF InitSocket, Script, TypeOK
    <3> QED
      BY <2>4, <3>1 DEF InitSocket, InitSockobject, Takes, TakesBlamed, Blame
  <2>5. ASSUME NEW f \in Descriptor, InitFd(o, f) PROVE FALSE
    BY <2>5 DEF InitFd, Blame
  <2>6. ASSUME NEW f \in Descriptor, AcceptRaises(o, f) PROVE Leaks(f)
    BY <2>6 DEF AcceptRaises, Leaks, Blame, objVars
  <2>7. ASSUME NEW f \in Descriptor, NEW n \in Object, Accept(o, n, f)
        PROVE  TakesBlamed(n, f)
    <3>1. sock_fd[n] = NoFd
      BY <2>7 DEF Accept, Owns
    <3> QED
      BY <2>7, <3>1 DEF Accept, InitSockobject, Takes, TakesBlamed
  <2> QED
    BY <1>1, <2>1, <2>2, <2>3, <2>4, <2>5, <2>6, <2>7 DEF ObjectStep, NumberStep
<1>2. ASSUME NEW p \in Poll, PollStep(p) PROVE NumberStep
  BY <1>2, PollStepFrame DEF NumberStep, objVars
<1> QED
  BY <1>1, <1>2 DEF Next, NumberStep, PeerSends, Over, vars, objVars, osVars

LEMMA OwnStep ==
    /\ TypeOK /\ ObjectsReachTheirOwnSocket /\ OpenDescriptorsHaveAnOwner /\ [Next]_vars
    => ObjectsReachTheirOwnSocket' /\ OpenDescriptorsHaveAnOwner'
<1> SUFFICES ASSUME TypeOK, ObjectsReachTheirOwnSocket, OpenDescriptorsHaveAnOwner, [Next]_vars,
                    "shared" \notin blame'
             PROVE  ObjectsReachTheirOwnSocket' /\ OpenDescriptorsHaveAnOwner'
  BY DEF ObjectsReachTheirOwnSocket, OpenDescriptorsHaveAnOwner
<1> DEFINE careless == {"shared", "initialised twice", "accept raised"}
<1>0. blame \subseteq blame'
  BY BlameGrows
<1>1. \A o \in Object : Owns(o)
  BY <1>0, OwnsMeans
<1>2. blame' \cap careless = {} => \A f \in Descriptor : Owned(f)
  BY <1>0 DEF OpenDescriptorsHaveAnOwner, Owned
<1> DEFINE Goal == /\ \A o \in Object : Owns(o)'
                   /\ blame' \cap careless = {} => \A f \in Descriptor : Owned(f)'
<1>3. SUFFICES Goal
  BY <1>3 DEF ObjectsReachTheirOwnSocket, OpenDescriptorsHaveAnOwner, Owns, Owned, SocketOf
<1>4. CASE UNCHANGED <<stage, sock_fd, mine, os>>
  BY <1>1, <1>2, <1>4 DEF Owns, Owned
<1>5. ASSUME NEW o \in Object, Appears(o) PROVE Goal
  BY <1>1, <1>2, <1>5 DEF Owns, Owned, Appears, TypeOK
<1>6. ASSUME NEW o \in Object, Drops(o) PROVE Goal
  BY <1>1, <1>2, <1>6, DropsOwns
<1>7. ASSUME NEW o \in Object, NEW f \in Descriptor, TakesBlamed(o, f) PROVE Goal
  BY <1>1, <1>2, <1>7, TakesOwns DEF TakesBlamed
<1>8. ASSUME NEW f \in Descriptor, Leaks(f) PROVE Goal
  BY <1>1, <1>8, NewNumber DEF Owns, Leaks
<1> QED
  BY <1>1, <1>4, <1>5, <1>6, <1>7, <1>8, NumberSteps DEF NumberStep

-----------------------------------------------------------------------------
(* Blocking and non-blocking mode. *)

\* What the object believes, and what the watcher has set.
Sure(o) == sock_fd[o] # NoFd /\ sock_timeout[o] = 0 => os[sock_fd[o]] \in nonblocking

Set(p, f) == os[f] = poll[p].of /\ os[f] # NoSocket => os[f] \in nonblocking

\* A call that waits keeps the script out; only an answer ends it.
LEMMA WaitSteps ==
    ASSUME [Next]_vars
    PROVE  \/ waiting' = {}
           \/ \E o \in Object : Block(o)
           \/ UNCHANGED <<waiting, sock_fd, os, nonblocking>>
<1>1. ASSUME NEW o \in Object, ObjectStep(o), ~Block(o) PROVE waiting' = {}
  BY <1>1 DEF ObjectStep, Script, New, Listen, CallEnds, Recv, AcceptFails, Close, Gc, SetBlocking,
      InitSocket, InitFd, PollInitFails, AcceptRaises, Accept
<1>2. ASSUME NEW p \in Poll, PollStep(p)
      PROVE  waiting' = {} \/ UNCHANGED <<waiting, sock_fd, os, nonblocking>>
  BY <1>2 DEF PollStep, Script, PollInit, PollStart, PollStop, PollGc, RequestCompletes,
      RequestDone, objVars, osVars
<1> QED
  BY <1>1, <1>2 DEF Next, PeerSends, Over, vars, objVars, osVars

LEMMA ModeObjectStep ==
    ASSUME TypeOK, SocketState, \A o \in Object : Owns(o) /\ Sure(o), [Next]_vars,
           "shared" \notin blame'
    PROVE  \A o \in Object : Sure(o)'
<1> SUFFICES ASSUME NEW q \in Object, sock_fd'[q] # NoFd, sock_timeout'[q] = 0
             PROVE  os'[sock_fd'[q]] \in nonblocking'
  BY DEF Sure
<1>1. ASSUME sock_fd'[q] = sock_fd[q], sock_timeout'[q] = sock_timeout[q],
             os'[sock_fd[q]] = os[sock_fd[q]],
             nonblocking \subseteq nonblocking' \cup {NoSocket}
      PROVE  os'[sock_fd'[q]] \in nonblocking'
  BY <1>1 DEF Sure, Owns
<1>2. ASSUME NEW f \in Descriptor, Open(f), sock_fd'[q] = sock_fd[q]
      PROVE  os'[sock_fd[q]] = os[sock_fd[q]]
  BY <1>2, NewNumber DEF Owns
<1>3. ASSUME NEW o \in Object, ObjectStep(o) PROVE os'[sock_fd'[q]] \in nonblocking'
  <2>1. CASE New(o)
    <3>1. q # o
      BY <2>1 DEF New, TypeOK
    <3> QED
      BY <1>1, <2>1, <3>1 DEF New, TypeOK, osVars
  <2>2. CASE \/ Listen(o) \/ Block(o) \/ CallEnds(o) \/ Recv(o) \/ AcceptFails(o)
             \/ \E p \in Poll : PollInitFails(p, o)
    BY <1>1, <2>2 DEF Listen, Block, CallEnds, Recv, AcceptFails, PollInitFails, objVars, osVars
  <2>3. ASSUME NEW block \in BOOLEAN, SetBlocking(o, block)
        PROVE  os'[sock_fd'[q]] \in nonblocking'
    <3>1. os' = os /\ sock_fd' = sock_fd /\ os[sock_fd[q]] # NoSocket
      BY <2>3 DEF SetBlocking, Owns
    <3>2. CASE q = o
      <4>1. ~block
        <5>1. sock_timeout' = [sock_timeout EXCEPT ![o] = IF block THEN -1 ELSE 0]
          BY <2>3 DEF SetBlocking
        <5>2. sock_timeout'[o] = IF block THEN -1 ELSE 0
          BY <5>1 DEF TypeOK
        <5> QED
          BY <3>2, <5>2
      <4> QED
        BY <2>3, <3>1, <3>2, <4>1 DEF SetBlocking, SocketOf
    <3>3. CASE q # o
      <4>1. os[sock_fd[q]] # SocketOf(o)
        BY <3>1, <3>3 DEF Owns, SocketOf, SocketState
      <4>2. sock_timeout'[q] = sock_timeout[q]
        BY <2>3, <3>3 DEF SetBlocking, TypeOK
      <4>3. os[sock_fd[q]] \in nonblocking
        BY <3>1, <4>2 DEF Sure
      <4> QED
        BY <2>3, <3>1, <4>1, <4>3 DEF SetBlocking
    <3> QED
      BY <3>2, <3>3
  <2>4. CASE Close(o) \/ Gc(o)
    <3>1. /\ q # o /\ sock_fd'[q] = sock_fd[q] /\ sock_timeout'[q] = sock_timeout[q]
      BY <2>4 DEF Close, Gc, TypeOK
    <3>2. CASE sock_fd[o] = NoFd
      BY <1>1, <2>4, <3>1, <3>2 DEF Close, Gc, osVars
    <3>3. CASE sock_fd[o] # NoFd
      <4>1. /\ os' = [os EXCEPT ![sock_fd[o]] = NoSocket]
            /\ nonblocking' = nonblocking \ {os[sock_fd[o]]}
        BY <2>4, <3>3 DEF Close, Gc, SocketClose
      <4>2. sock_fd[q] # sock_fd[o] /\ os[sock_fd[q]] # os[sock_fd[o]]
        BY <3>1, <3>3 DEF Owns, SocketState
      <4>3. os[sock_fd[q]] \in nonblocking
        BY <3>1 DEF Sure
      <4> QED
        BY <3>1, <4>1, <4>2, <4>3 DEF Owns, TypeOK
    <3> QED
      BY <3>2, <3>3
  <2>5. ASSUME NEW f \in Descriptor, InitSocket(o, f) PROVE os'[sock_fd'[q]] \in nonblocking'
    <3>0. /\ sock_fd' = [sock_fd EXCEPT ![o] = f]
          /\ sock_timeout' = [sock_timeout EXCEPT ![o] = -1]
      BY <2>5 DEF InitSocket, InitSockobject
    <3>1. q # o /\ sock_fd'[q] = sock_fd[q] /\ sock_timeout'[q] = sock_timeout[q]
      <4>1. sock_timeout'[o] = -1
        BY <3>0 DEF TypeOK
      <4>2. q # o
        BY <4>1
      <4> QED
        BY <3>0, <4>2 DEF TypeOK
    <3> QED
      BY <1>1, <1>2, <2>5, <3>1 DEF InitSocket
  <2>6. ASSUME NEW f \in Descriptor, InitFd(o, f) PROVE FALSE
    BY <2>6 DEF InitFd, Blame
  <2>7. ASSUME NEW f \in Descriptor, AcceptRaises(o, f)
        PROVE  os'[sock_fd'[q]] \in nonblocking'
    BY <1>1, <1>2, <2>7 DEF AcceptRaises, objVars
  <2>8. ASSUME NEW f \in Descriptor, NEW n \in Object, Accept(o, n, f)
        PROVE  os'[sock_fd'[q]] \in nonblocking'
    <3>0. /\ sock_fd' = [sock_fd EXCEPT ![n] = f]
          /\ sock_timeout' = [sock_timeout EXCEPT ![n] = -1]
      BY <2>8 DEF Accept, InitSockobject
    <3>1. q # n /\ sock_fd'[q] = sock_fd[q] /\ sock_timeout'[q] = sock_timeout[q]
      <4>1. sock_timeout'[n] = -1
        BY <3>0 DEF TypeOK
      <4>2. q # n
        BY <4>1
      <4> QED
        BY <3>0, <4>2 DEF TypeOK
    <3> QED
      BY <1>1, <1>2, <2>8, <3>1 DEF Accept
  <2> QED
    BY <1>3, <2>1, <2>2, <2>3, <2>4, <2>5, <2>6, <2>7, <2>8 DEF ObjectStep
<1>4. ASSUME NEW p \in Poll, PollStep(p) PROVE os'[sock_fd'[q]] \in nonblocking'
  BY <1>1, <1>4, PollStepFrame DEF objVars
<1> QED
  BY <1>1, <1>3, <1>4 DEF Next, PeerSends, Over, vars, objVars, osVars

\* What a call does to the modes.
LEMMA ModesOfObjectStep ==
    ASSUME TypeOK, NEW o \in Object, ObjectStep(o)
    PROVE  \/ UNCHANGED <<os, poll>> /\ nonblocking \subseteq nonblocking'
           \/ UNCHANGED <<os, poll>> /\ SetBlocking(o, TRUE)
           \/ /\ \E f \in Descriptor : Open(f)
              /\ UNCHANGED poll /\ nonblocking \subseteq nonblocking'
           \/ \E f \in Descriptor : SocketClose(f)
<1>1. CASE Close(o)
  BY <1>1 DEF Close, TypeOK
<1>2. CASE Gc(o)
  BY <1>2 DEF Gc, TypeOK, osVars, pollVars
<1>3. CASE \E f \in Descriptor : InitSocket(o, f) \/ AcceptRaises(o, f)
                \/ \E n \in Object : Accept(o, n, f)
  BY <1>3 DEF InitSocket, AcceptRaises, Accept, pollVars
<1>4. CASE \/ New(o) \/ Listen(o) \/ Block(o) \/ CallEnds(o) \/ Recv(o) \/ AcceptFails(o)
           \/ \E f \in Descriptor : InitFd(o, f)
           \/ \E p \in Poll : PollInitFails(p, o)
  BY <1>4 DEF New, Listen, Block, CallEnds, Recv, AcceptFails, InitFd, PollInitFails, osVars, pollVars
<1>5. CASE \E block \in BOOLEAN : SetBlocking(o, block)
  <2>1. CASE SetBlocking(o, TRUE)
    BY <2>1 DEF SetBlocking, pollVars
  <2>2. CASE SetBlocking(o, FALSE)
    BY <2>2 DEF SetBlocking, pollVars
  <2> QED
    BY <1>5, <2>1, <2>2
<1> QED
  BY <1>1, <1>2, <1>3, <1>4, <1>5 DEF ObjectStep

LEMMA ModePollStep ==
    ASSUME TypeOK, PollShape, SocketState, \A p \in Poll, f \in Descriptor : Set(p, f),
           [Next]_vars, "made blocking" \notin blame'
    PROVE  \A p \in Poll, f \in Descriptor : Set(p, f)'
<1> SUFFICES ASSUME NEW p \in Poll, NEW f \in Descriptor,
                    os'[f] = poll'[p].of, os'[f] # NoSocket
             PROVE  os'[f] \in nonblocking'
  BY DEF Set
<1>1. ASSUME os'[f] = os[f], poll'[p].of = poll[p].of PROVE os[f] \in nonblocking
  BY <1>1 DEF Set
<1>2. ASSUME NEW o \in Object, ObjectStep(o) PROVE os'[f] \in nonblocking'
  <2>1. CASE UNCHANGED <<os, poll>> /\ nonblocking \subseteq nonblocking'
    BY <1>1, <2>1
  <2>2. CASE UNCHANGED <<os, poll>> /\ SetBlocking(o, TRUE)
    <3>1. SocketOf(o) # poll[p].of
      BY <2>2 DEF SetBlocking, Blame
    <3> QED
      BY <1>1, <2>2, <3>1 DEF SetBlocking
  <2>3. ASSUME NEW g \in Descriptor, Open(g), UNCHANGED poll,
               nonblocking \subseteq nonblocking'
        PROVE  os'[f] \in nonblocking'
    <3>1. os'[f] = IF f = g THEN opened + 1 ELSE os[f]
      BY <2>3 DEF Open, TypeOK
    <3>2. poll[p].of # opened + 1
      BY Numbers, NotNext DEF SocketState
    <3> QED
      BY <1>1, <2>3, <3>1, <3>2
  <2>4. ASSUME NEW g \in Descriptor, SocketClose(g) PROVE os'[f] \in nonblocking'
    <3>1. /\ os'[f] = IF f = g THEN NoSocket ELSE os[f]
          /\ nonblocking' = nonblocking \ {os[g]}
      BY <2>4 DEF SocketClose, TypeOK
    <3>2. \A q \in Poll : Closed(q, g)
      BY <2>4, SocketClosePolls
    <3>3. poll'[p].of = poll[p].of
      BY <3>2 DEF Closed
    <3>4. f # g /\ os[f] # os[g]
      BY <3>1 DEF SocketState
    <3> QED
      BY <1>1, <3>1, <3>3, <3>4
  <2> QED
    BY <1>2, <2>1, <2>2, <2>3, <2>4, ModesOfObjectStep
<1>3. ASSUME NEW q \in Poll, PollStep(q) PROVE os'[f] \in nonblocking'
  <2>1. /\ os' = os /\ nonblocking \subseteq nonblocking'
        /\ p # q => poll'[p] = poll[p]
    BY <1>3, PollStepFrame
  <2>2. CASE p # q
    BY <1>1, <2>1, <2>2
  <2>3. CASE p = q /\ Initialised(q)
    BY <2>3 DEF Initialised
  <2>4. CASE p = q /\ (Started(q) \/ Ended(q) \/ Completed(q) \/ Processed(q))
    BY <1>1, <2>1, <2>4 DEF Started, Ended, Completed, Processed, SameWatch
  <2> QED
    BY <1>3, <2>2, <2>3, <2>4, PollStepRecord
<1> QED
  BY <1>1, <1>2, <1>3 DEF Next, PeerSends, Over, vars, osVars, pollVars

LEMMA ModeStep ==
    /\ TypeOK /\ PollShape /\ SocketState /\ ObjectsReachTheirOwnSocket /\ ModeState
    /\ [Next]_vars
    => ModeState'
<1> SUFFICES ASSUME TypeOK, PollShape, SocketState, ObjectsReachTheirOwnSocket, ModeState,
                    [Next]_vars
             PROVE  ModeState'
  OBVIOUS
<1>0. blame \subseteq blame'
  BY BlameGrows
<1>1. "shared" \in blame' \/ \A o \in Object : Sure(o)'
  <2>1. "shared" \notin blame => \A o \in Object : Owns(o)
    BY OwnsMeans
  <2>2. "shared" \notin blame => \A o \in Object : Sure(o)
    BY DEF ModeState, Sure, SocketOf
  <2> QED
    BY <1>0, <2>1, <2>2, ModeObjectStep
<1>2. "made blocking" \in blame' \/ \A p \in Poll, f \in Descriptor : Set(p, f)'
  <2>1. "made blocking" \notin blame => \A p \in Poll, f \in Descriptor : Set(p, f)
    BY DEF ModeState, Set
  <2> QED
    BY <1>0, <2>1, ModePollStep
<1>3. \A o \in waiting' : SocketOf(o)' \notin nonblocking' \cup {NoSocket}
  <2>1. ASSUME NEW o \in Object, Block(o)
        PROVE  \A q \in waiting' : SocketOf(q)' \notin nonblocking' \cup {NoSocket}
    <3>1. /\ waiting' = {o} /\ SocketOf(o) \in listening \cup connected
          /\ SocketOf(o) \notin nonblocking
          /\ nonblocking' = nonblocking /\ sock_fd' = sock_fd /\ os' = os
      BY <2>1 DEF Block, objVars, osVars
    <3>2. SocketOf(o) # NoSocket
      BY <3>1, KernelNat DEF TypeOK
    <3> QED
      BY <3>1, <3>2 DEF SocketOf
  <2>2. CASE UNCHANGED <<waiting, sock_fd, os, nonblocking>>
    BY <2>2 DEF ModeState, SocketOf
  <2> QED
    BY <2>1, <2>2, WaitSteps
<1> QED
  BY <1>1, <1>2, <1>3 DEF ModeState, Sure, Set, SocketOf

-----------------------------------------------------------------------------
(* The theorems. *)

LEMMA InitInvariant == Init => IInv
<1> SUFFICES ASSUME Init PROVE IInv
  OBVIOUS
<1>1. TypeOK
  BY SocketAssumption DEF Init, TypeOK, PollRecord, NoSocket, NoFd
<1>2. PollShape /\ SocketState /\ PollState
  <2>1. \A p \in Poll : /\ poll[p].stage = "none" /\ poll[p].req = "no"
                         /\ poll[p].of = 0 /\ poll[p].events = FALSE
    BY DEF Init, NoSocket
  <2>2. /\ \A f \in Descriptor : os[f] = 0
        /\ opened = 0 /\ polling = {}
    BY DEF Init, NoSocket
  <2>3. PollShape
    BY <2>1, <2>2 DEF PollShape
  <2>4. SocketState
    BY <2>1, <2>2 DEF SocketState, NoSocket
  <2>5. PollState
    BY <2>1, <2>2 DEF PollState, Watching
  <2> QED
    BY <2>3, <2>4, <2>5
<1>3. ModeState
  BY DEF Init, ModeState
<1>4. ObjectsReachTheirOwnSocket /\ OpenDescriptorsHaveAnOwner
  BY DEF Init, ObjectsReachTheirOwnSocket, OpenDescriptorsHaveAnOwner
<1> QED
  BY <1>1, <1>2, <1>3, <1>4 DEF IInv

\* The inductive invariant holds in every behaviour.
THEOREM Invariance == Spec => []IInv
<1>1. IInv /\ [Next]_vars => IInv'
  BY TypeStep, PollShapeStep, SocketStateStep, PollStateStep, OwnStep, ModeStep DEF IInv
<1> QED
  BY InitInvariant, <1>1, PTL DEF Spec

\* The variables keep their types.
THEOREM TypeCorrect == Spec => []TypeOK
<1>1. IInv => TypeOK
  BY DEF IInv
<1> QED
  BY Invariance, <1>1, PTL

\* Calls, close and __gc reach the socket an object was made for, and no other,
\* unless the script passed a number to __init__.
THEOREM OwnSocket == Spec => []ObjectsReachTheirOwnSocket
<1>1. IInv => ObjectsReachTheirOwnSocket
  BY DEF IInv
<1> QED
  BY Invariance, <1>1, PTL

\* An open descriptor is in an object that will close it, unless __init__ was
\* called twice or the class raised an error on an accepted connection.
THEOREM NothingLost == Spec => []OpenDescriptorsHaveAnOwner
<1>1. IInv => OpenDescriptorsHaveAnOwner
  BY DEF IInv
<1> QED
  BY Invariance, <1>1, PTL

\* A started watcher has a request out, about the socket of its __init__.
THEOREM OwnWatch == Spec => []PollsWatchTheirOwnSocket
<1>1. IInv => PollsWatchTheirOwnSocket
  BY DEF IInv, PollState, Watching, PollsWatchTheirOwnSocket
<1> QED
  BY Invariance, <1>1, PTL

\* A socket in non-blocking mode or with a watcher never keeps the thread.
THEOREM NeverBlocked == Spec => []NonBlockingCallsReturn
<1>1. ASSUME IInv PROVE NonBlockingCallsReturn
  <2> SUFFICES ASSUME NEW o \in waiting
               PROVE  /\ sock_timeout[o] = 0 => "shared" \in blame
                      /\ (\E p \in Poll : poll[p].of = SocketOf(o)) => "made blocking" \in blame
    BY DEF NonBlockingCallsReturn
  <2>1. o \in Object /\ SocketOf(o) \notin nonblocking \cup {NoSocket}
    BY <1>1 DEF IInv, TypeOK, ModeState
  <2>2. sock_fd[o] # NoFd /\ sock_fd[o] \in Descriptor /\ SocketOf(o) = os[sock_fd[o]]
    BY <1>1, <2>1 DEF IInv, TypeOK, SocketOf
  <2> QED
    BY <1>1, <2>1, <2>2 DEF IInv, ModeState
<1> QED
  BY Invariance, <1>1, PTL
=============================================================================
