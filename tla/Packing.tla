------------------------------ MODULE Packing ------------------------------
(***************************************************************************)
(* A call of pack and the call of unpack that reads its buffer: the        *)
(* recursion of Stream pushes the cells of each item, part by part, to the *)
(* chain of Blocks, and seri and wb_free end the call.  unpack reads the   *)
(* buffer, or its first cells, with nothing but the cells to go by; cut    *)
(* and torn of Stream are history here.                                    *)
(***************************************************************************)
EXTENDS Blocks, Stream, Items

VARIABLES
    hand,       \* the parts of the current item that are still to push
    at,         \* history: the cells in front of each item
    unread      \* unpack: the cells from its pointer to the end it was given

vars == <<blocksVars, streamVars, hand, at, unread>>

\* What a script can give to pack: a lua_Integer has 8 bytes, a length fits an int.
Sendable(v) == v = <<v[1], v[2]>> /\
    \/ v[1] = "boolean" /\ v[2] \in BOOLEAN
    \/ v[1] = "integer" /\ v[2] \in Int /\ Fits(v[2], Byte8)
    \/ v[1] = "real" /\ v[2] \in 0 .. Byte8 - 1
    \/ v[1] = "pointer" /\ v[2] \in 0 .. Byte4 - 1
    \/ v[1] = "string" /\ v[2] \in Seq(0 .. Byte - 1) /\ Len(v[2]) < Byte4

ASSUME PackingAssumption ==
    /\ \A v \in Scalar : Sendable(v)
    /\ Fits(MaxArray, Byte4)
    /\ 0 .. Byte - 1 \subseteq Cell
    /\ \A type \in 0 .. 6, cookie \in 0 .. 8 \cup 0 .. MaxCookie - 1 : Header(type, cookie)[1] \in Cell

Init == BlocksInit /\ StreamInit /\ hand = <<>> /\ at = <<>> /\ unread = <<>>

-----------------------------------------------------------------------------
(***************************************************************************)
(* pack                                                                    *)
(***************************************************************************)
\* Mutant: a long string goes without its length.
PushItemUnsized(item) ==
    /\ hand = <<>> /\ Len(pushed) + Len(Cells(item)) <= MaxCells
    /\ PushStarts(Head(Parts(item)))
    /\ hand' = IF Len(Parts(item)) = 3 THEN <<Parts(item)[3]>> ELSE Tail(Parts(item))
    /\ at' = Append(at, Len(pushed))
    /\ UNCHANGED unread

PushItem(item) ==
    /\ hand = <<>> /\ Len(pushed) + Len(Cells(item)) <= MaxCells
    /\ PushStarts(Head(Parts(item)))
    /\ hand' = Tail(Parts(item))
    /\ at' = Append(at, Len(pushed))
    /\ UNCHANGED unread

PackScalar(v) == WriteScalar(v) /\ PushItem(v)

PackNil == WriteNil /\ PushItem(NilItem)

PackTable(n) == WriteTable(n) /\ PushItem(TableItem(n))

PackEnd == WriteEnd /\ PushItem(NilItem)

PushPartOfItem ==
    /\ hand # <<>>
    /\ PushStarts(Head(hand))
    /\ hand' = Tail(hand)
    /\ UNCHANGED <<streamVars, at, unread>>

\* The rest of a wb_push, of seri and of wb_free.
InBlocks ==
    /\ NewBlock \/ PushPart \/ PushFits \/ CopyBlock \/ CopyRest \/ FreeBlock \/ FreeDone
    /\ UNCHANGED <<streamVars, hand, at, unread>>

\* A value that cannot be sent, or tables nested too deep.
Refuse == hand = <<>> /\ FailFreeing /\ FailInside /\ UNCHANGED <<hand, at, unread>>

\* Lua raises an error: a __pairs or the function that it returned, lua_next when a
\* __pairs changed the table outside its own, luaL_checkstack, or want of memory.
LuaRaises == hand = <<>> /\ Raise /\ FailInside /\ UNCHANGED <<hand, at, unread>>

Seri ==
    /\ hand = <<>> /\ stack = <<>> /\ status = "writing"
    /\ SeriStarts
    /\ UNCHANGED <<streamVars, hand, at, unread>>

-----------------------------------------------------------------------------
(***************************************************************************)
(* unpack, of the whole buffer or of its first cells                       *)
(***************************************************************************)
\* The cells in front of item n + 1, or of the end.
Front(n) == IF n < Len(sent) THEN at[n + 1] ELSE Len(buffer)

\* n items, and maybe a part of the next one, are in the first size cells.
Unpack(size) ==
    /\ pc = "end" /\ outcome = "packed" /\ status = "writing"
    /\ \E n \in 0 .. Len(sent) :
        /\ Front(n) <= size /\ (n < Len(sent) => size < Front(n + 1))
        /\ Send(n, Front(n) < size)
    /\ unread' = SubSeq(buffer, 1, size)
    /\ UNCHANGED <<blocksVars, hand, at>>

UnpackItem ==
    /\ status = "reading"
    /\ LET one == OneItem(unread) IN
       /\ ~one.err
       /\ got' = Append(got, [item |-> one.v, place |-> Place(open)])
       /\ open' = ReadInto(open, one.v)
       /\ unread' = one.left
    /\ UNCHANGED <<blocksVars, status, stack, sent, cut, torn, hand, at>>

\* Mutant: a table that is cut short is taken for complete.
UnpackOverLeniently ==
    /\ status = "reading" /\ OneItem(unread).err
    /\ status' = IF unread = <<>> THEN "done" ELSE "invalid"
    /\ UNCHANGED <<blocksVars, stack, sent, cut, torn, open, got, hand, at, unread>>

\* The end of the cells is the end of the arguments, and an error everywhere else.
UnpackOver ==
    /\ status = "reading" /\ OneItem(unread).err
    /\ status' = IF unread = <<>> /\ open = <<>> THEN "done" ELSE "invalid"
    /\ UNCHANGED <<blocksVars, stack, sent, cut, torn, open, got, hand, at, unread>>

Over == pc = "end" /\ status \in {"failed", "done", "invalid"} /\ UNCHANGED vars

Next ==
    \/ \E v \in Scalar : PackScalar(v)
    \/ \E n \in 0 .. MaxArray : PackTable(n)
    \/ PackNil \/ PackEnd \/ PushPartOfItem \/ InBlocks
    \/ Refuse \/ LuaRaises \/ Seri
    \/ \E size \in 0 .. Len(buffer) : Unpack(size)
    \/ UnpackItem \/ UnpackOver
    \/ Over

Spec == Init /\ [][Next]_vars

-----------------------------------------------------------------------------
(***************************************************************************)
(* Properties.                                                             *)
(***************************************************************************)
EndOf(i) == at[i] + Len(Cells(sent[i].item))

\* The buffer that pack returns has the bytes of each item, whole, in order and
\* without a gap, though items are pushed in up to three parts and blocks end anywhere.
BufferHoldsTheItems == pc = "end" /\ outcome = "packed" =>
    /\ \A i \in 1 .. Len(sent) :
        /\ at[i] = (IF i = 1 THEN 0 ELSE EndOf(i - 1)) /\ EndOf(i) <= Len(buffer)
        /\ SubSeq(buffer, at[i] + 1, EndOf(i)) = Cells(sent[i].item)
    /\ Len(buffer) = IF sent = <<>> THEN 0 ELSE EndOf(Len(sent))
=============================================================================
