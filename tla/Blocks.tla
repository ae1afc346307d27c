------------------------------- MODULE Blocks -------------------------------
(***************************************************************************)
(* One call of pack, seen from its memory: the writers of lua-seri.cpp     *)
(* push cells to a chain of blocks, the first on the stack and the others  *)
(* on the heap; at the end seri copies the chain into one buffer and       *)
(* wb_free gives the blocks back.  The call may fail at any of its values, *)
(* and Lua may raise an error in the midst of it, from a __pairs or for    *)
(* want of stack, which leaves pack without passing wb_free.               *)
(*                                                                         *)
(* What is pushed, and why, is in LuaSeri.                                 *)
(***************************************************************************)
EXTENDS Integers, Sequences

CONSTANTS
    Cell,
    BlockSize,  \* BLOCK_SIZE
    MaxCells    \* bound: cells pushed in the call

ASSUME BlocksAssumption == BlockSize \in Nat \ {0} /\ MaxCells \in Nat

VARIABLES
    pc,         \* between two pushes, inside wb_push, seri or wb_free, or at the end
    chain,      \* the blocks, each as far as it is written
    len,        \* cells written
    rest,       \* what wb_push has still to write
    pushed,     \* history: everything pushed so far
    from,       \* seri: the block it copies next
    left,       \* seri: the cells it has still to copy
    buffer,     \* seri: the cells it has copied
    freed,      \* blocks of the heap that were given back
    outcome     \* how the call ends

blocksVars == <<pc, chain, len, rest, pushed, from, left, buffer, freed, outcome>>

Current == Len(chain)
Ptr == Len(chain[Current])
OnHeap == Len(chain) - 1

BlocksInit ==
    /\ pc = "between" /\ outcome = "none"
    /\ chain = << <<>> >> /\ len = 0 /\ rest = <<>> /\ pushed = <<>>
    /\ from = 1 /\ left = 0 /\ buffer = <<>>
    /\ freed = 0

-----------------------------------------------------------------------------
(***************************************************************************)
(* wb_push: a new block when the current one is full, then as much of the  *)
(* cells as it takes.                                                      *)
(***************************************************************************)
\* Mutant: the parts of a push that is cut are counted twice.
WriteCountsAll(n) ==
    /\ chain' = [chain EXCEPT ![Current] = @ \o SubSeq(rest, 1, n)]
    /\ len' = len + Len(rest)
    /\ rest' = SubSeq(rest, n + 1, Len(rest))

WriteCells(n) ==
    /\ chain' = [chain EXCEPT ![Current] = @ \o SubSeq(rest, 1, n)]
    /\ len' = len + n
    /\ rest' = SubSeq(rest, n + 1, Len(rest))

PushStarts(cells) ==
    /\ pc = "between" /\ Len(pushed) + Len(cells) <= MaxCells
    /\ rest' = cells /\ pushed' = pushed \o cells
    /\ pc' = "push"
    /\ UNCHANGED <<chain, len, from, left, buffer, freed, outcome>>

NewBlock ==
    /\ pc = "push" /\ Ptr = BlockSize
    /\ chain' = Append(chain, <<>>)
    /\ UNCHANGED <<pc, len, rest, pushed, from, left, buffer, freed, outcome>>

PushPart ==
    /\ pc = "push" /\ Ptr < BlockSize /\ Len(rest) > BlockSize - Ptr
    /\ WriteCells(BlockSize - Ptr)
    /\ UNCHANGED <<pc, pushed, from, left, buffer, freed, outcome>>

\* Mutant: the last cell of a block is not used.
PushFitsNot ==
    /\ pc = "push" /\ Ptr < BlockSize /\ Len(rest) <= BlockSize - Ptr + 1
    /\ WriteCells(Len(rest))
    /\ pc' = "between"
    /\ UNCHANGED <<pushed, from, left, buffer, freed, outcome>>

PushFits ==
    /\ pc = "push" /\ Ptr < BlockSize /\ Len(rest) <= BlockSize - Ptr
    /\ WriteCells(Len(rest))
    /\ pc' = "between"
    /\ UNCHANGED <<pushed, from, left, buffer, freed, outcome>>

-----------------------------------------------------------------------------
(***************************************************************************)
(* The ends of the call.                                                   *)
(***************************************************************************)
\* seri: the buffer has the size of what was written.
SeriStarts ==
    /\ pc = "between"
    /\ from' = 1 /\ left' = len
    /\ pc' = "copy" /\ outcome' = "packed"
    /\ UNCHANGED <<chain, len, rest, pushed, buffer, freed>>

CopyBlock ==
    /\ pc = "copy" /\ left >= BlockSize
    /\ buffer' = buffer \o chain[from]
    /\ from' = from + 1 /\ left' = left - BlockSize
    /\ UNCHANGED <<pc, chain, len, rest, pushed, freed, outcome>>

CopyRest ==
    /\ pc = "copy" /\ left < BlockSize
    /\ buffer' = IF left > 0 THEN buffer \o SubSeq(chain[from], 1, left) ELSE buffer
    /\ left' = 0
    /\ pc' = "free"
    /\ UNCHANGED <<chain, len, rest, pushed, from, freed, outcome>>

\* Mutant: the error is raised at once.
FailAtOnce ==
    /\ pc = "between"
    /\ pc' = "end" /\ outcome' = "failed"
    /\ UNCHANGED <<chain, len, rest, pushed, from, left, buffer, freed>>

\* A value that cannot be sent, or too deep: wb_free, then the error.
FailFreeing ==
    /\ pc = "between"
    /\ pc' = "free" /\ outcome' = "failed"
    /\ UNCHANGED <<chain, len, rest, pushed, from, left, buffer, freed>>

\* Lua raises an error, which jumps over wb_free.
Raise ==
    /\ pc = "between"
    /\ pc' = "end" /\ outcome' = "raised"
    /\ UNCHANGED <<chain, len, rest, pushed, from, left, buffer, freed>>

FreeBlock ==
    /\ pc = "free" /\ freed < OnHeap
    /\ freed' = freed + 1
    /\ UNCHANGED <<pc, chain, len, rest, pushed, from, left, buffer, outcome>>

FreeDone ==
    /\ pc = "free" /\ freed = OnHeap
    /\ pc' = "end"
    /\ UNCHANGED <<chain, len, rest, pushed, from, left, buffer, freed, outcome>>

BlocksOver == pc = "end" /\ UNCHANGED blocksVars

BlocksNext ==
    \/ \E cells \in UNION {[1 .. n -> Cell] : n \in 1 .. MaxCells} : PushStarts(cells)
    \/ NewBlock \/ PushPart \/ PushFits
    \/ SeriStarts \/ CopyBlock \/ CopyRest
    \/ FailFreeing \/ Raise \/ FreeBlock \/ FreeDone
    \/ BlocksOver

BlocksSpec == BlocksInit /\ [][BlocksNext]_blocksVars

-----------------------------------------------------------------------------
(***************************************************************************)
(* Properties.                                                             *)
(***************************************************************************)
\* No block is written beyond its end, and all but the current one are full.
BlocksTypeOK ==
    /\ pc \in {"between", "push", "copy", "free", "end"}
    /\ outcome \in {"none", "packed", "failed", "raised"}
    /\ chain # <<>> /\ Len(chain[Current]) \in 0 .. BlockSize
    /\ \A k \in 1 .. Len(chain) - 1 : Len(chain[k]) = BlockSize
    /\ len \in 0 .. MaxCells /\ left \in 0 .. len /\ freed \in 0 .. OnHeap

\* seri reads only cells that were written, and never follows the end of the chain,
\* also when the last block is exactly full.
CopyStaysInChain == pc = "copy" /\ left > 0 =>
    /\ from \in DOMAIN chain
    /\ Len(chain[from]) >= IF left >= BlockSize THEN BlockSize ELSE left

\* The buffer is what the writers pushed, wherever the pushes met the ends of blocks.
BufferIsWhatWasPushed == pc \in {"free", "end"} /\ outcome = "packed" => buffer = pushed

\* Every block is given back, also when pack fails half-way for one of its values,
\* unless Lua raised the error.
BlocksAreGivenBack == pc = "end" /\ outcome # "raised" => freed = OnHeap
=============================================================================
