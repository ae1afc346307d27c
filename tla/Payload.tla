------------------------------ MODULE Payload ------------------------------
(***************************************************************************)
(* The buffers of messages: pack makes one, a message shares it, receive   *)
(* hands it to the script of another VM, and trash gives it back.          *)
(*                                                                         *)
(* What a script holds is a light userdata, the address of a               *)
(* shared_ptr<uint8_t> on the heap, with a size beside it; no __gc frees   *)
(* it, and the scripts give each one to trash once at most.  A buffer is   *)
(* shared by threads: it has a count of the shared_ptr's to it, in the     *)
(* hands of scripts and in the messages of mailboxes.  The size of a       *)
(* message carries its type in the bits from Limit upwards.                *)
(*                                                                         *)
(* The serialiser appears here by its results: that of a call of pack has  *)
(*   ok      whether a list of arguments is packed, and not an error,      *)
(*   size    the cells it takes,                                           *)
(*   read    what unpack gives of the first n cells, for every n,          *)
(* and, for the properties, what the script may expect of the list:        *)
(*   due     the result of unpack, and plain its values without an error,  *)
(*   sendable, raises   whether it can be sent and whether a __pairs fails.*)
(* LuaSeri has such results, computed as the code computes them.           *)
(*                                                                         *)
(* The VMs are of different services (iAmReady skips its own).             *)
(***************************************************************************)
EXTENDS Integers, Sequences, FiniteSets, SequencesExt

CONSTANTS
    Vm,
    Buffer,     \* the arrays that pack allocates
    Handle,     \* the shared_ptr's that scripts get
    Report,     \* the call of pack that iAmReady makes
    NoCall,
    Results,    \* functions from the calls made in a behaviour to their results
    Limit,      \* 1 << MESSAGE_TYPE_SHIFT
    MaxMessages,\* bound: messages in a mailbox
    Short       \* bound: the sizes that scripts pass instead of the one they know

ASSUME PayloadAssumption ==
    /\ {Limit, MaxMessages} \subseteq Nat \ {0} /\ Short \subseteq Nat
    /\ IsFiniteSet(Vm) /\ IsFiniteSet(Handle)
    /\ \A r \in Results :
        /\ NoCall \notin DOMAIN r /\ Report \in DOMAIN r /\ r[Report].ok
        /\ \A c \in DOMAIN r : r[c].ok \in BOOLEAN /\ r[c].size \in Nat

VARIABLES
    result,     \* result[c]: the result of the call c; never changes
    made,       \* made[b]: the call that made a buffer
    count,      \* shared_ptr's use count: 0 before and after its life
    freed,      \* how often each buffer was freed
    handle,     \* handle[h]: the script's shared_ptr
    mailbox,    \* mailbox[v]: the messages in v's queue
    ended       \* the VMs whose context, and mailbox, is gone

vars == <<result, made, count, freed, handle, mailbox, ended>>

MSG_TYPE_LUA == 1
MSG_TYPE_TEXT == 2

Calls == DOMAIN result
NoHandle == [state |-> "none"]

Init ==
    /\ result \in Results
    /\ made = [b \in Buffer |-> NoCall]
    /\ count = [b \in Buffer |-> 0] /\ freed = [b \in Buffer |-> 0]
    /\ handle = [h \in Handle |-> NoHandle]
    /\ mailbox = [v \in Vm |-> <<>>]
    /\ ended = {}

-----------------------------------------------------------------------------
\* Copies of b's shared_ptr come (n > 0) and go; the last to go frees b.
Share(b, n) ==
    /\ count' = [count EXCEPT ![b] = @ + n]
    /\ freed' = [freed EXCEPT ![b] = IF count[b] + n = 0 THEN @ + 1 ELSE @]

Held(v, h) == v \notin ended /\ handle[h].state = "held" /\ handle[h].vm = v

\* sent and passed are history: the type and the size that a message was given, 0 and
\* the whole size in the handle of the one who packs.
Holding(v, b, size, type, sent, passed) ==
    [state |-> "held", vm |-> v, of |-> b, size |-> size, type |-> type,
     sent |-> sent, passed |-> passed]

Room(v) == v \notin ended /\ Len(mailbox[v]) < MaxMessages

\* n with the bit of value p set: the types are powers of two.
SetBit(n, p) == IF (n \div p) % 2 = 1 THEN n ELSE n + p

\* Mutant: the type is not shifted above the size.
MessageUnshifted(b, size, type) ==
    [data |-> b, sz |-> SetBit(size, type), sent |-> type, passed |-> size]

Message(b, size, type) ==
    [data |-> b, sz |-> SetBit(size, type * Limit), sent |-> type, passed |-> size]

\* A call of pack that fails raises an error and leaves nothing here.
Pack(v, h, b, c) ==
    /\ v \notin ended /\ handle[h] = NoHandle /\ made[b] = NoCall
    /\ result[c].ok
    /\ made' = [made EXCEPT ![b] = c]
    /\ Share(b, 1)
    /\ handle' = [handle EXCEPT ![h] = Holding(v, b, result[c].size, 0, 0, result[c].size)]
    /\ UNCHANGED <<result, mailbox, ended>>

\* packString copies the cells into a string of Lua and deletes its shared_ptr.
PackString(v, b, c) ==
    /\ v \notin ended /\ made[b] = NoCall /\ result[c].ok
    /\ made' = [made EXCEPT ![b] = c]
    /\ freed' = [freed EXCEPT ![b] = @ + 1]
    /\ UNCHANGED <<result, count, handle, mailbox, ended>>

\* Mutant: the message gets the address only, without a shared_ptr of its own.
SendUnshared(v, h, target, size) ==
    /\ Held(v, h) /\ Room(target) /\ size <= handle[h].size
    /\ mailbox' = [mailbox EXCEPT ![target] =
            Append(@, Message(handle[h].of, size, MSG_TYPE_LUA))]
    /\ UNCHANGED <<result, made, count, freed, handle, ended>>

\* sendByVmId, sendByServiceName: the script passes a size, within what it was
\* given, and keeps its shared_ptr.  Without a target the message is gone at once
\* and nothing has changed.
Send(v, h, target, size) ==
    /\ Held(v, h) /\ Room(target) /\ size <= handle[h].size
    /\ mailbox' = [mailbox EXCEPT ![target] =
            Append(@, Message(handle[h].of, size, MSG_TYPE_LUA))]
    /\ Share(handle[h].of, 1)
    /\ UNCHANGED <<result, made, handle, ended>>

\* iAmReady: one buffer for all, and its own shared_ptr is deleted at the end.
IAmReady(v, b) ==
    LET others == Vm \ (ended \cup {v})
    IN  /\ v \notin ended /\ made[b] = NoCall /\ \A u \in others : Room(u)
        /\ made' = [made EXCEPT ![b] = Report]
        /\ mailbox' = [u \in Vm |-> IF u \in others
                THEN Append(mailbox[u], Message(b, result[Report].size, MSG_TYPE_TEXT)) ELSE mailbox[u]]
        /\ Share(b, Cardinality(others))
        /\ UNCHANGED <<result, handle, ended>>

\* getInternalMsgNonBlock: a shared_ptr for the script, and the message's goes.
Receive(v, h) ==
    /\ v \notin ended /\ mailbox[v] # <<>> /\ handle[h] = NoHandle
    /\ LET msg == Head(mailbox[v]) IN
       handle' = [handle EXCEPT ![h] =
            Holding(v, msg.data, msg.sz % Limit, msg.sz \div Limit, msg.sent, msg.passed)]
    /\ mailbox' = [mailbox EXCEPT ![v] = Tail(@)]
    /\ UNCHANGED <<result, made, count, freed, ended>>

Trash(v, h) ==
    /\ Held(v, h)
    /\ Share(handle[h].of, -1)
    /\ handle' = [handle EXCEPT ![h] = [state |-> "trashed"]]
    /\ UNCHANGED <<result, made, mailbox, ended>>

\* The context and its queue of messages are destroyed, those not received too.
VmEnds(v) ==
    LET Gone(b) == Cardinality({i \in DOMAIN mailbox[v] : mailbox[v][i].data = b})
    IN  /\ v \notin ended
        /\ ended' = ended \cup {v}
        /\ mailbox' = [mailbox EXCEPT ![v] = <<>>]
        /\ count' = [b \in Buffer |-> count[b] - Gone(b)]
        /\ freed' = [b \in Buffer |-> IF Gone(b) > 0 /\ count[b] = Gone(b)
                                        THEN freed[b] + 1 ELSE freed[b]]
        /\ UNCHANGED <<result, made, handle>>

Over == ended = Vm /\ UNCHANGED vars

Next ==
    \/ \E v \in Vm, h \in Handle :
        \/ \E b \in Buffer, c \in Calls \ {Report} : Pack(v, h, b, c)
        \/ handle[h].state = "held" /\ \E target \in Vm, size \in Short \cup {handle[h].size} :
                Send(v, h, target, size)
        \/ Receive(v, h) \/ Trash(v, h)
    \/ \E v \in Vm, b \in Buffer : IAmReady(v, b) \/ \E c \in Calls \ {Report} : PackString(v, b, c)
    \/ \E v \in Vm : VmEnds(v)
    \/ Over

Spec == Init /\ [][Next]_vars

-----------------------------------------------------------------------------
(***************************************************************************)
(* Properties.                                                             *)
(***************************************************************************)
\* The types of the state: counts never fall below zero, no buffer is freed
\* twice, and the size a receiver gets has lost its type.
TypeOK ==
    /\ made \in [Buffer -> Calls \cup {NoCall}]
    /\ count \in [Buffer -> Nat] /\ freed \in [Buffer -> {0, 1}]
    /\ \A h \in Handle : handle[h].state = "held" =>
        /\ handle[h].vm \in Vm /\ handle[h].of \in Buffer
        /\ handle[h].sent # 0 => handle[h].size \in 0 .. Limit - 1
    /\ \A v \in Vm : \A i \in DOMAIN mailbox[v] : mailbox[v][i].data \in Buffer
    /\ ended \subseteq Vm

ScriptsWith(b) == {h \in Handle : handle[h].state = "held" /\ handle[h].of = b}
MessagesWith(b) == {m \in Vm \X (1 .. MaxMessages) :
    m[2] \in DOMAIN mailbox[m[1]] /\ mailbox[m[1]][m[2]].data = b}
Holders(b) == Cardinality(ScriptsWith(b)) + Cardinality(MessagesWith(b))

\* A buffer lives as long as a script or a message, in whatever VM, has it, and
\* is freed once, when the last of them lets go, however sends, receives, trashes
\* and the ends of VMs follow one another.
BuffersLiveWhileHeld == \A b \in Buffer :
    /\ count[b] = Holders(b)
    /\ freed[b] = IF made[b] # NoCall /\ Holders(b) = 0 THEN 1 ELSE 0

\* Nobody is told a size beyond the end of a buffer, and sizes that fit below the
\* type arrive unchanged, with the type they were sent with, whoever sent, received
\* or ended in between.
SizesArrive == \A h \in Handle : handle[h].state = "held" =>
    LET c == result[made[handle[h].of]]
    IN  /\ made[handle[h].of] # NoCall /\ handle[h].size \in 0 .. c.size
        /\ handle[h].sent = 0 => handle[h].size = c.size
        /\ handle[h].sent # 0 /\ handle[h].passed < Limit =>
                handle[h].size = handle[h].passed /\ handle[h].type = handle[h].sent

\* A list of arguments that was packed and sent whole is what unpack gives the
\* receiver, at every limit of the cookies; a __pairs that yields NaN makes a list
\* that packs and never unpacks.
ArrivesAsSent == \A h \in Handle : handle[h].state = "held" =>
    LET c == result[made[handle[h].of]]
    IN  handle[h].passed = c.size /\ (handle[h].sent = 0 \/ c.size < Limit) =>
            c.read[handle[h].size] = c.due

\* Cells that were cut short, by a size that did not fit beside the type or by a
\* script, are an error or the first of the values: unpack makes nothing up.
NothingIsInvented == \A h \in Handle : handle[h].state = "held" =>
    LET c == result[made[handle[h].of]] IN
    \A n \in 0 .. handle[h].size : c.read[n].err \/ IsPrefix(c.read[n].values, c.plain)

\* pack takes every list but those with a value that cannot be sent, with tables
\* nested deeper than MAX_DEPTH, or with a __pairs that raises an error.
PackFailsForCause == \A c \in Calls :
    result[c].ok <=> result[c].sendable /\ ~result[c].raises
=============================================================================
