---------------------------- MODULE BlocksProofs ----------------------------
(***************************************************************************)
(* Theorems about Blocks, for every size of a block, all cells and every   *)
(* way of cutting what is packed into pushes.                              *)
(***************************************************************************)
EXTENDS Blocks, TLAPS

-----------------------------------------------------------------------------
(***************************************************************************)
(* The inductive invariant.                                                *)
(***************************************************************************)
ChainOK ==
    /\ pc \in {"between", "push", "copy", "free", "end"}
    /\ outcome \in {"none", "packed", "failed", "raised"}
    /\ chain \in Seq(Seq(Cell)) /\ Len(chain) \in Nat \ {0}
    /\ {rest, pushed, buffer} \subseteq Seq(Cell)
    /\ {len, from, left, freed} \subseteq Nat

\* The cells in front of the k-th block.
Before(k) == (k - 1) * BlockSize

\* The chain has the cells pushed so far, but for those that wb_push has in hand.
Written ==
    /\ Ptr <= BlockSize
    /\ \A k \in 1 .. Len(chain) - 1 : Len(chain[k]) = BlockSize
    /\ len = Before(Len(chain)) + Ptr
    /\ \A k \in 1 .. Len(chain) : \A j \in 1 .. Len(chain[k]) : chain[k][j] = pushed[Before(k) + j]
    /\ Len(pushed) = len + Len(rest) /\ Len(pushed) <= MaxCells
    /\ \A j \in 1 .. Len(rest) : rest[j] = pushed[len + j]
    /\ pc # "push" => rest = <<>>

\* The buffer has the cells of the blocks before the one that seri copies next.
Copied ==
    /\ pc \in {"between", "push"} => buffer = <<>> /\ left = 0 /\ outcome = "none"
    /\ pc = "copy" => /\ outcome = "packed" /\ from >= 1
                      /\ Len(buffer) = Before(from) /\ left = len - Before(from)
                      /\ \A i \in 1 .. Len(buffer) : buffer[i] = pushed[i]
    /\ pc \in {"free", "end"} => left = 0 /\ (outcome = "packed" => buffer = pushed)

Freed ==
    /\ freed <= OnHeap /\ (pc \notin {"free", "end"} => freed = 0)
    /\ pc = "end" /\ outcome # "raised" => freed = OnHeap

ChainInv == ChainOK /\ Written /\ Copied /\ Freed

-----------------------------------------------------------------------------
(***************************************************************************)
(* Lemmas on sequences and on the places of cells.                         *)
(***************************************************************************)
LEMMA JoinFacts ==
    ASSUME NEW S, NEW s \in Seq(S), NEW t \in Seq(S)
    PROVE  /\ s \o t \in Seq(S) /\ Len(s \o t) = Len(s) + Len(t)
           /\ Len(s) \in Nat /\ Len(t) \in Nat
           /\ \A i \in 1 .. Len(s) : (s \o t)[i] = s[i]
           /\ \A i \in Len(s) + 1 .. Len(s) + Len(t) : (s \o t)[i] = t[i - Len(s)]
  OBVIOUS

LEMMA PartFacts ==
    ASSUME NEW S, NEW s \in Seq(S), NEW n \in 0 .. Len(s)
    PROVE  /\ SubSeq(s, 1, n) \in Seq(S) /\ Len(SubSeq(s, 1, n)) = n
           /\ \A i \in 1 .. n : SubSeq(s, 1, n)[i] = s[i]
           /\ SubSeq(s, n + 1, Len(s)) \in Seq(S) /\ Len(SubSeq(s, n + 1, Len(s))) = Len(s) - n
           /\ \A i \in 1 .. Len(s) - n : SubSeq(s, n + 1, Len(s))[i] = s[n + i]
  OBVIOUS

LEMMA SameCells ==
    ASSUME NEW S, NEW s \in Seq(S), NEW t \in Seq(S), Len(s) = Len(t),
           \A i \in 1 .. Len(s) : s[i] = t[i]
    PROVE  s = t
  OBVIOUS

LEMMA BeforeFacts ==
    /\ Before(1) = 0
    /\ \A k \in Nat : Before(k + 1) = Before(k) + BlockSize /\ Before(k) \in Int
    /\ \A k \in Nat \ {0} : Before(k) \in Nat
    /\ \A k, n \in Nat : k > n => Before(k) >= Before(n) + BlockSize
  <1>. USE BlocksAssumption DEF Before
  <1>1. \A k \in Nat : Before(k + 1) = Before(k) + BlockSize /\ Before(k) \in Int
    OBVIOUS
  <1>2. \A k \in Nat \ {0} : Before(k) \in Nat
    OBVIOUS
  <1>3. ASSUME NEW k \in Nat, NEW n \in Nat, k > n
        PROVE  Before(k) >= Before(n) + BlockSize
    <2>1. \A d \in Nat : d >= 1 => d * BlockSize >= BlockSize
      OBVIOUS
    <2>2. (k - n) * BlockSize >= BlockSize
      BY <1>3, <2>1
    <2>. QED BY <2>2
  <1>. QED BY <1>1, <1>2, <1>3

LEMMA BlockChanged ==
    ASSUME NEW S, NEW q \in Seq(S), Len(q) \in Nat \ {0}, NEW x \in S, NEW r,
           r = [q EXCEPT ![Len(q)] = x]
    PROVE  /\ r \in Seq(S) /\ Len(r) = Len(q) /\ r[Len(q)] = x
           /\ \A k \in 1 .. Len(q) - 1 : r[k] = q[k]
  OBVIOUS

LEMMA BlockAppended ==
    ASSUME NEW S, NEW q \in Seq(S), NEW x \in S, NEW r, r = Append(q, x)
    PROVE  /\ r \in Seq(S) /\ Len(r) = Len(q) + 1 /\ r[Len(r)] = x
           /\ \A k \in 1 .. Len(q) : r[k] = q[k]
  OBVIOUS

LEMMA NoCells ==
    ASSUME NEW S
    PROVE  /\ <<>> \in Seq(S) /\ Len(<<>>) = 0
           /\ \A s \in Seq(S) : Len(s) \in Nat /\ (Len(s) = 0 => s = <<>>)
  OBVIOUS

-----------------------------------------------------------------------------
(***************************************************************************)
(* What wb_push writes into the current block.                             *)
(***************************************************************************)
LEMMA CellsWritten ==
    ASSUME ChainInv, NEW n \in 0 .. Len(rest), Ptr + n <= BlockSize, WriteCells(n), pushed' = pushed
    PROVE  /\ chain' \in Seq(Seq(Cell)) /\ Len(chain') = Len(chain)
           /\ rest' \in Seq(Cell) /\ Len(rest') = Len(rest) - n
           /\ Ptr' = Ptr + n /\ len' = len + n /\ len' \in Nat
           /\ \A k \in 1 .. Len(chain') - 1 : Len(chain'[k]) = BlockSize
           /\ len' = Before(Len(chain')) + Ptr'
           /\ \A k \in 1 .. Len(chain') : \A j \in 1 .. Len(chain'[k]) :
                  chain'[k][j] = pushed'[Before(k) + j]
           /\ Len(pushed') = len' + Len(rest') /\ Len(pushed') <= MaxCells
           /\ \A j \in 1 .. Len(rest') : rest'[j] = pushed'[len' + j]
  <1>. DEFINE part == SubSeq(rest, 1, n)
              last == chain[Current] \o part
  <1>1. /\ chain \in Seq(Seq(Cell)) /\ Len(chain) \in Nat \ {0}
        /\ rest \in Seq(Cell) /\ len \in Nat /\ chain[Current] \in Seq(Cell)
    BY DEF ChainInv, ChainOK, Current
  <1>2. /\ part \in Seq(Cell) /\ Len(part) = n
        /\ \A i \in 1 .. n : part[i] = rest[i]
        /\ rest' \in Seq(Cell) /\ Len(rest') = Len(rest) - n
        /\ \A i \in 1 .. Len(rest) - n : rest'[i] = rest[n + i]
    <2>1. rest' = SubSeq(rest, n + 1, Len(rest))
      BY DEF WriteCells
    <2>2. rest \in Seq(Cell)
      BY <1>1
    <2>. QED BY <2>1, <2>2, PartFacts
  <1>. HIDE DEF part
  <1>3. /\ last \in Seq(Cell) /\ Len(last) = Ptr + n /\ Ptr \in Nat
        /\ \A i \in 1 .. Ptr : last[i] = chain[Current][i]
        /\ \A i \in Ptr + 1 .. Ptr + n : last[i] = part[i - Ptr]
    <2>. DEFINE cur == chain[Current]
    <2>1. cur \in Seq(Cell) /\ Ptr = Len(cur) /\ last = cur \o part
      BY <1>1 DEF Ptr
    <2>. HIDE DEF cur, last
    <2>2. /\ last \in Seq(Cell) /\ Len(last) = Len(cur) + n /\ Len(cur) \in Nat
          /\ \A i \in 1 .. Len(cur) : last[i] = cur[i]
          /\ \A i \in Len(cur) + 1 .. Len(cur) + n : last[i] = part[i - Len(cur)]
      <3>1. part \in Seq(Cell) /\ Len(part) = n
        BY <1>2
      <3>2. /\ cur \o part \in Seq(Cell) /\ Len(cur \o part) = Len(cur) + Len(part)
            /\ Len(cur) \in Nat
            /\ \A i \in 1 .. Len(cur) : (cur \o part)[i] = cur[i]
            /\ \A i \in Len(cur) + 1 .. Len(cur) + Len(part) :
                   (cur \o part)[i] = part[i - Len(cur)]
        BY <2>1, <3>1, JoinFacts
      <3>. QED BY <2>1, <3>1, <3>2
    <2>. QED BY <2>1, <2>2 DEF cur
  <1>4. chain' = [chain EXCEPT ![Len(chain)] = last]
    BY DEF WriteCells, part, Current
  <1>. HIDE DEF last
  <1>5. /\ chain' \in Seq(Seq(Cell)) /\ Len(chain') = Len(chain) /\ chain'[Len(chain)] = last
        /\ \A k \in 1 .. Len(chain) - 1 : chain'[k] = chain[k]
    BY <1>1, <1>3, <1>4, BlockChanged
  <1>6. Ptr' = Ptr + n /\ len' = len + n /\ len' \in Nat /\ n \in Nat
    <2>1. Ptr' = Len(last)
      BY <1>5 DEF Ptr, Current
    <2>2. len' = len + n /\ n \in Nat
      BY <1>1, NoCells DEF WriteCells
    <2>. QED BY <1>1, <1>3, <2>1, <2>2
  <1>7. /\ \A k \in 1 .. Len(chain) - 1 : Len(chain[k]) = BlockSize
        /\ len = Before(Len(chain)) + Ptr
        /\ \A k \in 1 .. Len(chain) : \A j \in 1 .. Len(chain[k]) :
               chain[k][j] = pushed[Before(k) + j]
        /\ Len(pushed) = len + Len(rest) /\ Len(pushed) <= MaxCells
        /\ \A j \in 1 .. Len(rest) : rest[j] = pushed[len + j]
    BY DEF ChainInv, Written
  <1>8. Before(Len(chain)) \in Nat
    BY <1>1, BeforeFacts
  <1>9. ASSUME NEW k \in 1 .. Len(chain'), NEW j \in 1 .. Len(chain'[k])
        PROVE  chain'[k][j] = pushed[Before(k) + j]
    <2>1. CASE k # Len(chain)
      <3>1. k \in 1 .. Len(chain) - 1 /\ k \in 1 .. Len(chain)
        BY <1>1, <1>5, <2>1
      <3>2. chain'[k] = chain[k] /\ j \in 1 .. Len(chain[k])
        BY <1>5, <3>1
      <3>. QED BY <1>7, <3>1, <3>2
    <2>2. CASE k = Len(chain) /\ j <= Ptr
      <3>1. j \in 1 .. Ptr
        BY <1>3, <2>2
      <3>2. j \in 1 .. Len(chain[k]) /\ k \in 1 .. Len(chain)
        BY <1>5, <2>2, <3>1 DEF Ptr, Current
      <3>3. chain'[k][j] = chain[k][j]
        BY <1>3, <1>5, <2>2, <3>1 DEF Current
      <3>. QED BY <1>7, <3>2, <3>3
    <2>3. CASE k = Len(chain) /\ ~(j <= Ptr)
      <3>1. j \in Ptr + 1 .. Ptr + n
        BY <1>3, <1>5, <2>3
      <3>2. j - Ptr \in 1 .. n /\ j - Ptr \in 1 .. Len(rest)
        BY <1>3, <1>6, <3>1
      <3>3. chain'[k][j] = part[j - Ptr]
        BY <1>3, <1>5, <2>3, <3>1
      <3>4. chain'[k][j] = pushed[len + (j - Ptr)]
        BY <1>2, <1>7, <3>2, <3>3
      <3>5. len + (j - Ptr) = Before(k) + j
        BY <1>1, <1>3, <1>7, <1>8, <2>3, <3>1
      <3>. QED BY <3>4, <3>5
    <2>. QED BY <2>1, <2>2, <2>3
  <1>10. ASSUME NEW j \in 1 .. Len(rest')
         PROVE  rest'[j] = pushed[len' + j]
    <2>1. j \in 1 .. Len(rest) - n /\ n + j \in 1 .. Len(rest)
      BY <1>2, <1>6, <1>1, NoCells
    <2>2. rest'[j] = pushed[len + (n + j)]
      BY <1>2, <1>7, <2>1
    <2>. QED BY <1>1, <1>6, <2>1, <2>2
  <1>11. \A k \in 1 .. Len(chain') - 1 : Len(chain'[k]) = BlockSize
    BY <1>1, <1>5, <1>7
  <1>12. len' = Before(Len(chain')) + Ptr'
    BY <1>1, <1>3, <1>5, <1>6, <1>7, <1>8
  <1>13. Len(pushed') = len' + Len(rest') /\ Len(pushed') <= MaxCells
    BY <1>1, <1>2, <1>6, <1>7, NoCells
  <1>. QED BY <1>2, <1>5, <1>6, <1>9, <1>10, <1>11, <1>12, <1>13

-----------------------------------------------------------------------------
(***************************************************************************)
(* What seri copies.                                                       *)
(***************************************************************************)
LEMMA CellsInChain ==
    ASSUME ChainInv, NEW k \in 1 .. Len(chain), NEW j \in 1 .. Len(chain[k])
    PROVE  Before(k) + j \in 1 .. len
  <1>1. Len(chain) \in Nat \ {0} /\ len \in Nat /\ Ptr \in Nat /\ BlockSize \in Nat
    BY BlocksAssumption, NoCells DEF ChainInv, ChainOK, Ptr, Current
  <1>2. /\ Before(k) \in Nat /\ Before(Len(chain)) \in Nat
        /\ Len(chain) > k => Before(Len(chain)) >= Before(k) + BlockSize
    <2>. DEFINE n == Len(chain)
    <2>1. n \in Nat \ {0} /\ k \in Nat \ {0} /\ n \in Nat /\ k \in Nat
      BY <1>1
    <2>. HIDE DEF n
    <2>2. Before(k) \in Nat /\ Before(n) \in Nat /\ (n > k => Before(n) >= Before(k) + BlockSize)
      BY <2>1, BeforeFacts
    <2>. QED BY <2>2 DEF n
  <1>3. len = Before(Len(chain)) + Ptr /\ (k < Len(chain) => Len(chain[k]) = BlockSize)
    BY <1>1 DEF ChainInv, Written
  <1>4. CASE k < Len(chain)
    BY <1>1, <1>2, <1>3, <1>4
  <1>5. CASE k = Len(chain)
    BY <1>1, <1>2, <1>3, <1>5 DEF Ptr, Current
  <1>. QED BY <1>1, <1>4, <1>5

LEMMA InChain ==
    ASSUME ChainInv
    PROVE  CopyStaysInChain
  <1>. SUFFICES ASSUME pc = "copy", left > 0
                PROVE  /\ from \in 1 .. Len(chain)
                       /\ Len(chain[from]) >= IF left >= BlockSize THEN BlockSize ELSE left
    BY DEF CopyStaysInChain, ChainInv, ChainOK
  <1>1. /\ Len(chain) \in Nat \ {0} /\ from \in Nat \ {0} /\ Ptr \in Nat
        /\ BlockSize \in Nat \ {0} /\ left \in Nat /\ Ptr <= BlockSize
    BY BlocksAssumption, NoCells DEF ChainInv, ChainOK, Written, Copied, Ptr, Current
  <1>2. left = len - Before(from) /\ len = Before(Len(chain)) + Ptr
    BY DEF ChainInv, Written, Copied
  <1>3. /\ Before(from) \in Nat /\ Before(Len(chain)) \in Nat
        /\ from > Len(chain) => Before(from) >= Before(Len(chain)) + BlockSize
    BY <1>1, BeforeFacts
  <1>4. from <= Len(chain)
    BY <1>1, <1>2, <1>3
  <1>5. CASE from < Len(chain)
    <2>1. Len(chain[from]) = BlockSize
      BY <1>1, <1>5 DEF ChainInv, Written
    <2>. QED BY <1>1, <1>4, <2>1
  <1>6. CASE from = Len(chain)
    <2>1. left = Ptr /\ Len(chain[from]) = Ptr
      BY <1>1, <1>2, <1>3, <1>6 DEF Ptr, Current
    <2>. QED BY <1>1, <1>4, <2>1
  <1>. QED BY <1>1, <1>4, <1>5, <1>6

LEMMA CellsCopied ==
    ASSUME ChainInv, pc = "copy", from \in 1 .. Len(chain),
           NEW t \in Seq(Cell), Len(t) <= Len(chain[from]),
           \A i \in 1 .. Len(t) : t[i] = chain[from][i]
    PROVE  /\ buffer \o t \in Seq(Cell) /\ Len(buffer \o t) = Len(buffer) + Len(t)
           /\ \A i \in 1 .. Len(buffer \o t) : (buffer \o t)[i] = pushed[i]
  <1>1. /\ buffer \in Seq(Cell) /\ chain[from] \in Seq(Cell) /\ Len(buffer) = Before(from)
        /\ \A i \in 1 .. Len(buffer) : buffer[i] = pushed[i]
        /\ \A j \in 1 .. Len(chain[from]) : chain[from][j] = pushed[Before(from) + j]
    <2>1. buffer \in Seq(Cell) /\ chain \in Seq(Seq(Cell))
      BY DEF ChainInv, ChainOK
    <2>2. chain[from] \in Seq(Cell)
      BY <2>1
    <2>3. Len(buffer) = Before(from) /\ \A i \in 1 .. Len(buffer) : buffer[i] = pushed[i]
      BY DEF ChainInv, Copied
    <2>4. \A j \in 1 .. Len(chain[from]) : chain[from][j] = pushed[Before(from) + j]
      BY DEF ChainInv, Written
    <2>. QED BY <2>1, <2>2, <2>3, <2>4
  <1>2. /\ buffer \o t \in Seq(Cell) /\ Len(buffer \o t) = Len(buffer) + Len(t)
        /\ Len(buffer) \in Nat /\ Len(t) \in Nat /\ Len(chain[from]) \in Nat
        /\ \A i \in 1 .. Len(buffer) : (buffer \o t)[i] = buffer[i]
        /\ \A i \in Len(buffer) + 1 .. Len(buffer) + Len(t) :
               (buffer \o t)[i] = t[i - Len(buffer)]
    <2>1. Len(chain[from]) \in Nat
      BY <1>1, NoCells
    <2>2. buffer \in Seq(Cell)
      BY <1>1
    <2>. QED BY <2>1, <2>2, JoinFacts
  <1>. DEFINE b == buffer \o t
  <1>. HIDE DEF b
  <1>3. ASSUME NEW i \in 1 .. Len(b)
        PROVE  b[i] = pushed[i]
    <2>1. CASE i <= Len(buffer)
      BY <1>1, <1>2, <2>1 DEF b
    <2>2. CASE i > Len(buffer)
      <3>1. i \in Len(buffer) + 1 .. Len(buffer) + Len(t)
        BY <1>2, <2>2 DEF b
      <3>2. i - Len(buffer) \in 1 .. Len(t) /\ i - Len(buffer) \in 1 .. Len(chain[from])
        BY <1>2, <3>1
      <3>3. b[i] = pushed[Before(from) + (i - Len(buffer))]
        BY <1>1, <1>2, <3>1, <3>2 DEF b
      <3>. QED BY <1>1, <3>1, <3>3
    <2>. QED BY <1>2, <2>1, <2>2
  <1>. QED BY <1>2, <1>3 DEF b

-----------------------------------------------------------------------------
(***************************************************************************)
(* The initial state and the steps.                                        *)
(***************************************************************************)
LEMMA ChainInit ==
    ASSUME BlocksInit
    PROVE  ChainInv
  <1>. DEFINE none == <<>>
  <1>1. /\ none \in Seq(Cell) /\ Len(none) = 0 /\ chain = <<none>>
        /\ rest = none /\ pushed = none /\ buffer = none
    BY DEF BlocksInit
  <1>. HIDE DEF none
  <1>2. chain \in Seq(Seq(Cell)) /\ Len(chain) = 1 /\ chain[1] = none
    BY <1>1
  <1>3. Current = 1 /\ Ptr = 0 /\ OnHeap = 0
    BY <1>1, <1>2 DEF Current, Ptr, OnHeap
  <1>4. ChainOK
    BY <1>1, <1>2 DEF BlocksInit, ChainOK
  <1>5. Written
    <2>1. len = Before(Len(chain)) + Ptr /\ Ptr <= BlockSize
      BY <1>2, <1>3, BeforeFacts, BlocksAssumption DEF BlocksInit
    <2>2. \A k \in 1 .. Len(chain) : chain[k] = none
      BY <1>2
    <2>3. 1 .. Len(none) = {} /\ Len(chain) - 1 = 0
      BY <1>1, <1>2
    <2>4. Len(pushed) = len + Len(rest) /\ Len(pushed) <= MaxCells
      BY <1>1, BlocksAssumption DEF BlocksInit
    <2>. QED BY <1>1, <2>1, <2>2, <2>3, <2>4 DEF BlocksInit, Written, none
  <1>6. Copied
    BY <1>1 DEF BlocksInit, Copied
  <1>7. Freed
    BY <1>3 DEF BlocksInit, Freed
  <1>. QED BY <1>4, <1>5, <1>6, <1>7 DEF ChainInv

LEMMA PushStartsStep ==
    ASSUME ChainInv, NEW n \in 1 .. MaxCells, NEW cells \in [1 .. n -> Cell], PushStarts(cells)
    PROVE  ChainInv'
  <1>1. cells \in Seq(Cell) /\ Len(cells) \in Nat
    OBVIOUS
  <1>2. /\ pushed \in Seq(Cell) /\ rest = <<>> /\ len \in Nat /\ Len(pushed) = len
        /\ Len(chain) \in Nat \ {0} /\ Ptr \in Nat
    BY NoCells DEF ChainInv, ChainOK, Written, PushStarts, Ptr, Current
  <1>3. /\ pushed' \in Seq(Cell) /\ Len(pushed') = len + Len(cells)
        /\ \A i \in 1 .. len : pushed'[i] = pushed[i]
        /\ \A i \in len + 1 .. len + Len(cells) : pushed'[i] = cells[i - len]
    <2>1. pushed' = pushed \o cells /\ cells \in Seq(Cell) /\ pushed \in Seq(Cell)
      BY <1>1, <1>2 DEF PushStarts
    <2>2. /\ pushed' \in Seq(Cell) /\ Len(pushed') = Len(pushed) + Len(cells)
          /\ \A i \in 1 .. Len(pushed) : pushed'[i] = pushed[i]
          /\ \A i \in Len(pushed) + 1 .. Len(pushed) + Len(cells) : pushed'[i] = cells[i - Len(pushed)]
      BY <2>1, JoinFacts
    <2>. QED BY <1>2, <2>2
  <1>4. ChainOK'
    BY <1>1, <1>3 DEF ChainInv, ChainOK, PushStarts
  <1>5. Written'
    <2>1. \A k \in 1 .. Len(chain) : \A j \in 1 .. Len(chain[k]) :
              chain[k][j] = pushed'[Before(k) + j]
      BY <1>3, CellsInChain DEF ChainInv, Written
    <2>2. \A j \in 1 .. Len(cells) : cells[j] = pushed'[len + j]
      <3>. SUFFICES ASSUME NEW j \in 1 .. Len(cells)
                    PROVE  cells[j] = pushed'[len + j]
        OBVIOUS
      <3>1. len + j \in len + 1 .. len + Len(cells) /\ (len + j) - len = j
        BY <1>1, <1>2
      <3>. QED BY <1>3, <3>1
    <2>3. Len(pushed') <= MaxCells
      BY <1>2, <1>3 DEF PushStarts
    <2>. QED BY <1>3, <2>1, <2>2, <2>3 DEF ChainInv, Written, PushStarts, Ptr, Current
  <1>6. Copied'
    BY DEF ChainInv, Copied, PushStarts
  <1>7. Freed'
    BY DEF ChainInv, Freed, PushStarts, OnHeap
  <1>. QED BY <1>4, <1>5, <1>6, <1>7 DEF ChainInv

LEMMA NewBlockStep ==
    ASSUME ChainInv, NewBlock
    PROVE  ChainInv'
  <1>. DEFINE none == <<>>
  <1>1. none \in Seq(Cell) /\ Len(none) = 0 /\ chain' = Append(chain, none)
    BY DEF NewBlock
  <1>. HIDE DEF none
  <1>2. chain \in Seq(Seq(Cell)) /\ Len(chain) \in Nat \ {0} /\ Ptr = BlockSize
    BY DEF ChainInv, ChainOK, NewBlock
  <1>3. /\ chain' \in Seq(Seq(Cell)) /\ Len(chain') = Len(chain) + 1
        /\ chain'[Len(chain')] = none /\ \A k \in 1 .. Len(chain) : chain'[k] = chain[k]
    BY <1>1, <1>2, BlockAppended
  <1>4. Ptr' = 0
    BY <1>1, <1>3 DEF Ptr, Current
  <1>5. ChainOK'
    BY <1>2, <1>3 DEF ChainInv, ChainOK, NewBlock
  <1>6. Written'
    <2>1. \A k \in 1 .. Len(chain') - 1 : Len(chain'[k]) = BlockSize
      <3>. SUFFICES ASSUME NEW k \in 1 .. Len(chain)
                    PROVE  Len(chain[k]) = BlockSize
        BY <1>2, <1>3
      <3>1. CASE k = Len(chain)
        BY <1>2, <3>1 DEF Ptr, Current
      <3>2. CASE k # Len(chain)
        <4>1. k \in 1 .. Len(chain) - 1
          BY <1>2, <3>2
        <4>. QED BY <4>1 DEF ChainInv, Written
      <3>. QED BY <3>1, <3>2
    <2>2. len' = Before(Len(chain')) + Ptr'
      <3>1. len' = len /\ len = Before(Len(chain)) + BlockSize
        BY <1>2 DEF ChainInv, Written, NewBlock
      <3>2. Before(Len(chain) + 1) = Before(Len(chain)) + BlockSize /\ Before(Len(chain)) \in Int
        BY <1>2, BeforeFacts
      <3>. QED BY <1>3, <1>4, <3>1, <3>2, BlocksAssumption
    <2>3. ASSUME NEW k \in 1 .. Len(chain'), NEW j \in 1 .. Len(chain'[k])
          PROVE  chain'[k][j] = pushed[Before(k) + j]
      <3>1. k \in 1 .. Len(chain)
        BY <1>1, <1>2, <1>3, <2>3
      <3>2. chain'[k] = chain[k] /\ j \in 1 .. Len(chain[k])
        BY <1>3, <3>1
      <3>. QED BY <3>1, <3>2 DEF ChainInv, Written
    <2>. QED BY <1>4, <2>1, <2>2, <2>3, BlocksAssumption DEF ChainInv, Written, NewBlock
  <1>7. Copied'
    BY DEF ChainInv, Copied, NewBlock
  <1>8. Freed'
    BY <1>2, <1>3 DEF ChainInv, Freed, NewBlock, OnHeap
  <1>. QED BY <1>5, <1>6, <1>7, <1>8 DEF ChainInv

LEMMA PushPartStep ==
    ASSUME ChainInv, PushPart
    PROVE  ChainInv'
  <1>1. rest \in Seq(Cell) /\ Ptr \in Nat /\ Ptr < BlockSize /\ BlockSize \in Nat
    BY BlocksAssumption, NoCells DEF ChainInv, ChainOK, Ptr, Current, PushPart
  <1>2. PICK n \in 0 .. Len(rest) : n = BlockSize - Ptr
    BY <1>1, NoCells DEF PushPart
  <1>3. WriteCells(n) /\ pushed' = pushed
    BY <1>2 DEF PushPart
  <1>4. Ptr + n = BlockSize /\ Ptr + n <= BlockSize
    BY <1>1, <1>2
  <1>5. ChainOK'
    BY <1>3, <1>4, CellsWritten DEF ChainInv, ChainOK, PushPart
  <1>6. Written'
    BY <1>1, <1>3, <1>4, CellsWritten DEF Written, PushPart
  <1>7. Copied'
    BY DEF ChainInv, Copied, PushPart
  <1>8. Freed'
    BY <1>3, <1>4, CellsWritten DEF ChainInv, Freed, PushPart, OnHeap
  <1>. QED BY <1>5, <1>6, <1>7, <1>8 DEF ChainInv

LEMMA PushFitsStep ==
    ASSUME ChainInv, PushFits
    PROVE  ChainInv'
  <1>. DEFINE n == Len(rest)
  <1>1. rest \in Seq(Cell) /\ Ptr \in Nat /\ BlockSize \in Nat /\ n \in Nat
    BY BlocksAssumption, NoCells DEF ChainInv, ChainOK, Ptr, Current
  <1>2. n \in 0 .. Len(rest) /\ Ptr + n <= BlockSize /\ Len(rest) - n = 0
    BY <1>1 DEF PushFits
  <1>3. WriteCells(n) /\ pushed' = pushed
    BY DEF PushFits
  <1>. HIDE DEF n
  <1>4. rest' = <<>>
    BY <1>2, <1>3, CellsWritten, NoCells
  <1>5. ChainOK'
    BY <1>2, <1>3, <1>4, CellsWritten DEF ChainInv, ChainOK, PushFits
  <1>6. Written'
    BY <1>2, <1>3, <1>4, CellsWritten DEF Written, PushFits
  <1>7. Copied'
    BY DEF ChainInv, Copied, PushFits
  <1>8. Freed'
    BY <1>2, <1>3, CellsWritten DEF ChainInv, Freed, PushFits, OnHeap
  <1>. QED BY <1>5, <1>6, <1>7, <1>8 DEF ChainInv

LEMMA SeriStartsStep ==
    ASSUME ChainInv, SeriStarts
    PROVE  ChainInv'
  <1>1. Before(1) = 0 /\ len \in Nat /\ Len(buffer) = 0 /\ 1 .. 0 = {}
    BY BeforeFacts, NoCells DEF ChainInv, ChainOK, Copied, SeriStarts
  <1>2. ChainOK'
    BY <1>1 DEF ChainInv, ChainOK, SeriStarts
  <1>3. Written'
    BY DEF ChainInv, Written, SeriStarts, Ptr, Current
  <1>4. Copied'
    BY <1>1 DEF ChainInv, Copied, SeriStarts
  <1>5. Freed'
    BY DEF ChainInv, Freed, SeriStarts, OnHeap
  <1>. QED BY <1>2, <1>3, <1>4, <1>5 DEF ChainInv

LEMMA CopyBlockStep ==
    ASSUME ChainInv, CopyBlock
    PROVE  ChainInv'
  <1>1. /\ left > 0 /\ left \in Nat /\ BlockSize \in Nat /\ from \in Nat /\ from >= 1
        /\ len \in Nat
    BY BlocksAssumption DEF ChainInv, ChainOK, Copied, CopyBlock
  <1>2. from \in 1 .. Len(chain) /\ Len(chain[from]) = BlockSize
    <2>1. from \in 1 .. Len(chain) /\ Len(chain[from]) >= BlockSize
      BY <1>1, InChain DEF CopyStaysInChain, CopyBlock, ChainInv, ChainOK
    <2>2. Len(chain) \in Nat /\ Ptr <= BlockSize /\ chain[from] \in Seq(Cell)
      BY <2>1 DEF ChainInv, ChainOK, Written
    <2>3. CASE from = Len(chain)
      BY <1>1, <2>1, <2>2, <2>3, NoCells DEF Ptr, Current
    <2>4. CASE from # Len(chain)
      <3>1. from \in 1 .. Len(chain) - 1
        BY <2>1, <2>2, <2>4
      <3>. QED BY <2>1, <3>1 DEF ChainInv, Written
    <2>. QED BY <2>3, <2>4
  <1>3. chain[from] \in Seq(Cell) /\ Len(chain[from]) <= Len(chain[from])
    BY <1>1, <1>2 DEF ChainInv, ChainOK
  <1>4. /\ buffer' \in Seq(Cell) /\ Len(buffer') = Len(buffer) + BlockSize
        /\ \A i \in 1 .. Len(buffer') : buffer'[i] = pushed[i]
    BY <1>2, <1>3, CellsCopied DEF CopyBlock
  <1>5. Before(from') = Before(from) + BlockSize /\ Before(from) \in Int
    BY <1>1, BeforeFacts DEF CopyBlock
  <1>6. ChainOK'
    BY <1>1, <1>4 DEF ChainInv, ChainOK, CopyBlock
  <1>7. Written'
    BY DEF ChainInv, Written, CopyBlock, Ptr, Current
  <1>8. Copied'
    <2>1. /\ pc = "copy" /\ pc' = "copy" /\ outcome' = outcome /\ pushed' = pushed
          /\ from' = from + 1 /\ left' = left - BlockSize /\ len' = len
      BY DEF CopyBlock
    <2>2. /\ outcome = "packed" /\ Len(buffer) = Before(from) /\ left = len - Before(from)
      BY <2>1 DEF ChainInv, Copied
    <2>3. from' >= 1 /\ Len(buffer') = Before(from') /\ left' = len' - Before(from')
      BY <1>1, <1>4, <1>5, <2>1, <2>2
    <2>. QED BY <1>4, <2>1, <2>2, <2>3 DEF Copied
  <1>9. Freed'
    BY DEF ChainInv, Freed, CopyBlock, OnHeap
  <1>. QED BY <1>6, <1>7, <1>8, <1>9 DEF ChainInv

LEMMA CopyRestStep ==
    ASSUME ChainInv, CopyRest
    PROVE  ChainInv'
  <1>1. /\ left \in Nat /\ BlockSize \in Nat /\ left < BlockSize /\ len \in Nat
        /\ buffer \in Seq(Cell) /\ pushed \in Seq(Cell)
    BY BlocksAssumption DEF ChainInv, ChainOK, CopyRest
  <1>2. /\ Len(pushed) = len /\ left = len - Before(from) /\ Len(buffer) = Before(from)
        /\ \A i \in 1 .. Len(buffer) : buffer[i] = pushed[i]
    <2>1. rest = <<>> /\ Len(pushed) = len + Len(rest)
      BY DEF ChainInv, Written, CopyRest
    <2>. QED BY <1>1, <2>1, NoCells DEF ChainInv, Copied, CopyRest
  <1>3. buffer' = pushed
    <2>1. CASE left = 0
      <3>1. Len(buffer) = Len(pushed)
        BY <1>1, <1>2, <2>1, NoCells
      <3>. QED BY <1>1, <1>2, <2>1, <3>1, SameCells DEF CopyRest
    <2>2. CASE left > 0
      <3>1. from \in 1 .. Len(chain) /\ Len(chain[from]) >= left
        BY <1>1, <2>2, InChain DEF CopyStaysInChain, CopyRest, ChainInv, ChainOK
      <3>2. chain[from] \in Seq(Cell) /\ left \in 0 .. Len(chain[from])
        BY <1>1, <3>1, NoCells DEF ChainInv, ChainOK
      <3>. DEFINE t == SubSeq(chain[from], 1, left)
      <3>3. /\ t \in Seq(Cell) /\ Len(t) = left
            /\ \A i \in 1 .. left : t[i] = chain[from][i]
        BY <3>2, PartFacts
      <3>4. buffer' = buffer \o t /\ pc = "copy"
        BY <2>2 DEF CopyRest
      <3>. HIDE DEF t
      <3>5. /\ buffer' \in Seq(Cell) /\ Len(buffer') = Len(buffer) + left
            /\ \A i \in 1 .. Len(buffer') : buffer'[i] = pushed[i]
        BY <3>1, <3>3, <3>4, CellsCopied
      <3>6. Len(buffer') = Len(pushed)
        BY <1>1, <1>2, <3>5, NoCells
      <3>. QED BY <1>1, <3>5, <3>6, SameCells
    <2>. QED BY <1>1, <2>1, <2>2
  <1>4. ChainOK'
    <2>1. /\ chain' = chain /\ len' = len /\ rest' = rest /\ pushed' = pushed /\ pc' = "free"
          /\ from' = from /\ left' = 0 /\ freed' = freed /\ outcome' = outcome
      BY DEF CopyRest
    <2>. QED BY <1>1, <1>3, <2>1 DEF ChainInv, ChainOK
  <1>5. Written'
    BY DEF ChainInv, Written, CopyRest, Ptr, Current
  <1>6. Copied'
    BY <1>3 DEF Copied, CopyRest
  <1>7. Freed'
    BY DEF ChainInv, Freed, CopyRest, OnHeap
  <1>. QED BY <1>4, <1>5, <1>6, <1>7 DEF ChainInv

\* The steps that copy nothing: the end of the call, and the blocks given back.
LEMMA ChainEndSteps ==
    ASSUME ChainInv, FailFreeing \/ Raise \/ FreeBlock \/ FreeDone \/ UNCHANGED blocksVars
    PROVE  ChainInv'
  <1>1. freed \in Nat /\ Len(chain) \in Nat
    BY DEF ChainInv, ChainOK
  <1>2. ChainOK'
    BY <1>1 DEF ChainInv, ChainOK, FailFreeing, Raise, FreeBlock, FreeDone, blocksVars
  <1>3. Written'
    <2>1. UNCHANGED <<chain, len, rest, pushed>>
      BY DEF FailFreeing, Raise, FreeBlock, FreeDone, blocksVars
    <2>2. pc' # "push" => pc # "push"
      BY DEF FailFreeing, Raise, FreeBlock, FreeDone, blocksVars
    <2>3. Written /\ Ptr' = Ptr
      BY <2>1 DEF ChainInv, Ptr, Current
    <2>. QED BY <2>1, <2>2, <2>3 DEF Written
  <1>4. Copied'
    BY DEF ChainInv, Copied, FailFreeing, Raise, FreeBlock, FreeDone, blocksVars
  <1>5. Freed'
    BY <1>1 DEF ChainInv, Freed, FailFreeing, Raise, FreeBlock, FreeDone, blocksVars, OnHeap
  <1>. QED BY <1>2, <1>3, <1>4, <1>5 DEF ChainInv

LEMMA ChainNext ==
    ASSUME ChainInv, [BlocksNext]_blocksVars
    PROVE  ChainInv'
  <1>1. CASE \E cells \in UNION {[1 .. n -> Cell] : n \in 1 .. MaxCells} : PushStarts(cells)
    <2>1. PICK n \in 1 .. MaxCells : \E cells \in [1 .. n -> Cell] : PushStarts(cells)
      BY <1>1
    <2>2. PICK cells \in [1 .. n -> Cell] : PushStarts(cells)
      BY <2>1
    <2>. QED BY <2>2, PushStartsStep
  <1>. QED BY <1>1, NewBlockStep, PushPartStep, PushFitsStep, SeriStartsStep, CopyBlockStep,
              CopyRestStep, ChainEndSteps DEF BlocksNext, BlocksOver

-----------------------------------------------------------------------------
(***************************************************************************)
(* The theorems.                                                           *)
(***************************************************************************)
LEMMA ChainTypes ==
    ASSUME ChainInv
    PROVE  BlocksTypeOK
  <1>1. /\ chain \in Seq(Seq(Cell)) /\ Len(chain) \in Nat \ {0} /\ Ptr \in Nat
        /\ {len, left, freed, from} \subseteq Nat
    BY NoCells DEF ChainInv, ChainOK, Ptr, Current
  <1>2. chain # <<>>
    BY <1>1
  <1>3. Ptr \in 0 .. BlockSize
    BY <1>1, BlocksAssumption DEF ChainInv, Written
  <1>4. len \in 0 .. MaxCells
    <2>1. Len(rest) \in Nat /\ len <= MaxCells
      BY <1>1, NoCells, BlocksAssumption DEF ChainInv, ChainOK, Written
    <2>. QED BY <1>1, <2>1, BlocksAssumption
  <1>5. left \in 0 .. len
    <2>1. CASE pc = "copy"
      <3>1. from \in Nat \ {0} /\ left = len - Before(from)
        BY <1>1, <2>1 DEF ChainInv, Copied
      <3>2. Before(from) \in Nat
        BY <3>1, BeforeFacts
      <3>. QED BY <1>1, <3>1, <3>2
    <2>2. CASE pc # "copy"
      BY <1>1, <2>2 DEF ChainInv, ChainOK, Copied
    <2>. QED BY <2>1, <2>2
  <1>6. freed \in 0 .. OnHeap
    BY <1>1 DEF ChainInv, Freed, OnHeap
  <1>. QED BY <1>2, <1>3, <1>4, <1>5, <1>6 DEF BlocksTypeOK, ChainInv, ChainOK, Written, Ptr

\* The chain has the pushed cells in order, and the buffer those of the copied blocks.
THEOREM ChainInvariance == BlocksSpec => []ChainInv
  <1>1. BlocksInit => ChainInv
    BY ChainInit
  <1>2. ChainInv /\ [BlocksNext]_blocksVars => ChainInv'
    BY ChainNext
  <1>. QED BY <1>1, <1>2, PTL DEF BlocksSpec

\* No block is written beyond its end, and all but the current one are full.
THEOREM BlocksTypeCorrect == BlocksSpec => []BlocksTypeOK
  <1>1. ChainInv => BlocksTypeOK
    BY ChainTypes
  <1>. QED BY <1>1, ChainInvariance, PTL

\* seri reads only what was written and never follows the end of the chain, whatever
\* the length of what was packed.
THEOREM SeriInChain == BlocksSpec => []CopyStaysInChain
  <1>1. ChainInv => CopyStaysInChain
    BY InChain
  <1>. QED BY <1>1, ChainInvariance, PTL

\* The buffer has every pushed cell once, in the order of the pushes, wherever the ends
\* of blocks cut them.
THEOREM NothingCutOrDoubled == BlocksSpec => []BufferIsWhatWasPushed
  <1>1. ChainInv => BufferIsWhatWasPushed
    BY DEF ChainInv, Copied, BufferIsWhatWasPushed
  <1>. QED BY <1>1, ChainInvariance, PTL

\* A call that fails half-way leaks no block, unless Lua raises the error.
THEOREM NoBlockLeaks == BlocksSpec => []BlocksAreGivenBack
  <1>1. ChainInv => BlocksAreGivenBack
    BY DEF ChainInv, Freed, BlocksAreGivenBack
  <1>. QED BY <1>1, ChainInvariance, PTL
=============================================================================
