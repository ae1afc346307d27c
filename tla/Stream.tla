------------------------------- MODULE Stream -------------------------------
(***************************************************************************)
(* The grammar of a packed message: a call of pack and the call of unpack  *)
(* that reads what it wrote, one item at a time.                           *)
(*                                                                         *)
(* An item is a tuple with its type in front: a nil, a scalar (boolean,    *)
(* number, string or pointer), or a table, of which only the size of the   *)
(* array part is written.  A nil is a value among the arguments, in an     *)
(* array part and behind a key, and the end of the table where a key is    *)
(* due; only the recursion of the reader tells which, so it has to follow  *)
(* that of the writer through every nesting.                               *)
(*                                                                         *)
(* The recursions are stacks with a frame for each call of wb_table and of *)
(* unpack_table: its array_size, the elements it is through with, and      *)
(* whether it has the key of a pair in hand.                               *)
(*                                                                         *)
(* The cells of an item are in Items, what a script's values are and a key *)
(* that is NaN in LuaSeri.                                                 *)
(***************************************************************************)
EXTENDS Integers, Sequences

CONSTANTS
    Scalar,
    MaxDepth,   \* MAX_DEPTH
    MaxArray,   \* bound: lua_rawlen of a table
    MaxItems    \* bound: items in a message

ASSUME StreamAssumption ==
    /\ {MaxDepth, MaxArray, MaxItems} \subseteq Nat
    /\ \A v \in Scalar : v[1] \notin {"nil", "table"}

VARIABLES
    status,     \* writing, failed, reading, done, or invalid: "Invalid serialize stream"
    stack,      \* the writer's recursion
    sent,       \* what it wrote; place and after, its stack, are history
    cut,        \* the items that reach the reader whole,
    torn,       \* and whether some bytes of the next one do
    open,       \* the reader's recursion
    got         \* what it read

streamVars == <<status, stack, sent, cut, torn, open, got>>

NilItem == <<"nil">>
TableItem(n) == <<"table", n>>

Table(n) == [size |-> n, done |-> 0, keyed |-> FALSE]

StreamInit ==
    /\ status = "writing" /\ stack = <<>> /\ sent = <<>>
    /\ cut = 0 /\ torn = FALSE
    /\ open = <<>> /\ got = <<>>

-----------------------------------------------------------------------------
Innermost(s) == s[Len(s)]
Outer(s) == SubSeq(s, 1, Len(s) - 1)

\* What the next item is to a recursion s.
Kind(s) ==
    IF s = <<>> THEN "argument"
    ELSE IF Innermost(s).done < Innermost(s).size THEN "element"
    ELSE IF Innermost(s).keyed THEN "value" ELSE "key"

Place(s) ==
    [kind |-> Kind(s), depth |-> Len(s),
     index |-> IF Kind(s) = "element" THEN Innermost(s).done + 1 ELSE 0]

\* A call, and the recursion, when the value at its place is there.
Further(f) ==
    IF f.done < f.size THEN [f EXCEPT !.done = @ + 1] ELSE [f EXCEPT !.keyed = ~@]

Advance(s) == IF s = <<>> THEN s ELSE [s EXCEPT ![Len(s)] = Further(@)]

-----------------------------------------------------------------------------
(***************************************************************************)
(* The writer.                                                             *)
(***************************************************************************)
WriteItem(item, after) ==
    /\ status = "writing" /\ Len(sent) < MaxItems
    /\ sent' = Append(sent, [item |-> item, place |-> Place(stack), after |-> after])
    /\ stack' = after
    /\ UNCHANGED <<status, cut, torn, open, got>>

WriteScalar(v) ==
    /\ Len(stack) <= MaxDepth
    /\ WriteItem(v, Advance(stack))

\* Mutant: a __pairs that yields a nil key does not end its table.
WriteNilAnywhere ==
    /\ Len(stack) <= MaxDepth
    /\ WriteItem(NilItem, Advance(stack))

\* lua_next yields no nil, and lua_rawlen a border: the last element is not nil.
\* Only a __pairs, whose table has no array part, yields a nil value.
WriteNil ==
    /\ Len(stack) <= MaxDepth
    /\ \/ Kind(stack) = "argument"
       \/ Kind(stack) = "element" /\ Innermost(stack).done + 1 < Innermost(stack).size
       \/ Kind(stack) = "value" /\ Innermost(stack).size = 0
    /\ WriteItem(NilItem, Advance(stack))

\* Mutant: tables may be nested without end.
WriteTableAnywhere(n) == WriteItem(TableItem(n), Append(Advance(stack), Table(n)))

WriteTable(n) ==
    /\ Len(stack) <= MaxDepth
    /\ WriteItem(TableItem(n), Append(Advance(stack), Table(n)))

WriteEnd ==
    /\ Kind(stack) = "key"
    /\ WriteItem(NilItem, Outer(stack))

\* Too deep, a value that cannot be sent, or an error of Lua.
FailInside ==
    /\ status = "writing"
    /\ status' = "failed"
    /\ UNCHANGED <<stack, sent, cut, torn, open, got>>

\* The size that reaches the reader may be too small.
Send(n, half) ==
    /\ status = "writing" /\ stack = <<>>
    /\ half => n < Len(sent) /\ sent[n + 1].item # NilItem
    /\ cut' = n /\ torn' = half
    /\ status' = "reading"
    /\ UNCHANGED <<stack, sent, open, got>>

-----------------------------------------------------------------------------
(***************************************************************************)
(* The reader.                                                             *)
(***************************************************************************)
\* Mutant: a hole of the array part ends the table.
ReadIntoEndsAtHole(s, item) ==
    IF item[1] = "nil" /\ Kind(s) \in {"key", "element"} THEN Outer(s)
    ELSE IF item[1] = "table" THEN Append(Advance(s), Table(item[2]))
    ELSE Advance(s)

ReadInto(s, item) ==
    IF item[1] = "nil" /\ Kind(s) = "key" THEN Outer(s)
    ELSE IF item[1] = "table" THEN Append(Advance(s), Table(item[2]))
    ELSE Advance(s)

ReadItem ==
    /\ status = "reading" /\ Len(got) < cut
    /\ LET item == sent[Len(got) + 1].item IN
       /\ got' = Append(got, [item |-> item, place |-> Place(open)])
       /\ open' = ReadInto(open, item)
    /\ UNCHANGED <<status, stack, sent, cut, torn>>

\* The end of the bytes is the end of the arguments, and an error everywhere else.
ReadEnd ==
    /\ status = "reading" /\ Len(got) = cut
    /\ status' = IF open = <<>> /\ ~torn THEN "done" ELSE "invalid"
    /\ UNCHANGED <<stack, sent, cut, torn, open, got>>

StreamOver == status \in {"failed", "done", "invalid"} /\ UNCHANGED streamVars

StreamNext ==
    \/ \E v \in Scalar : WriteScalar(v)
    \/ \E n \in 0 .. MaxArray : WriteTable(n)
    \/ WriteNil \/ WriteEnd \/ FailInside
    \/ \E n \in 0 .. Len(sent), half \in BOOLEAN : Send(n, half)
    \/ ReadItem \/ ReadEnd
    \/ StreamOver

StreamSpec == StreamInit /\ [][StreamNext]_streamVars

-----------------------------------------------------------------------------
(***************************************************************************)
(* Properties.                                                             *)
(***************************************************************************)
\* Frames stay within their array part; no key is in hand before it ends.
StreamTypeOK ==
    /\ status \in {"writing", "failed", "reading", "done", "invalid"}
    /\ cut \in 0 .. Len(sent) /\ torn \in BOOLEAN
    /\ \A s \in {stack, open} : \A i \in 1 .. Len(s) :
        /\ s[i].size \in 0 .. MaxArray /\ s[i].done \in 0 .. s[i].size
        /\ s[i].keyed \in BOOLEAN /\ (s[i].keyed => s[i].done = s[i].size)

\* Every item is to the reader what it was to the writer: the same argument, element,
\* key, value or end, of a table as deep, whatever is nested and whatever is nil.
ReadAsWritten ==
    /\ Len(got) <= Len(sent)
    /\ \A i \in 1 .. Len(got) : got[i].item = sent[i].item /\ got[i].place = sent[i].place

\* unpack succeeds when the message ends with one of the arguments, and only then:
\* no table that was cut short is taken for a table.
OnlyWholeValues == LET whole == ~torn /\ (cut = 0 \/ sent[cut].after = <<>>) IN
    /\ status = "done" => whole /\ Len(got) = cut
    /\ status = "invalid" => ~whole

\* unpack has no limit of its own: that of pack keeps its recursion bounded.
ReaderNestsNoDeeper == Len(open) <= MaxDepth + 1
=============================================================================
