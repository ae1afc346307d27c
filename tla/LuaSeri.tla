------------------------------- MODULE LuaSeri -------------------------------
(***************************************************************************)
(* The serialiser of messages, lua-seri.cpp: Packed turns the arguments    *)
(* of a call into cells, Unpacked turns cells into values.  The cells of   *)
(* one item are in Items; here are the recursions over tables.             *)
(*                                                                         *)
(* A value that is not a table is an item; besides there are               *)
(*   <<"function">>,                                                       *)
(*   <<"table", pairs, n>>  a set of <<key, value>>, and what lua_rawlen   *)
(*                          answers of it, any border,                     *)
(*   <<"proxy", s, raises>> a table whose __pairs yields the pairs s, and  *)
(*                          then ends or raises an error.                  *)
(* The real NaN is not a key.                                              *)
(***************************************************************************)
EXTENDS Items, FiniteSets, SequencesExt

CONSTANT MaxDepth

ASSUME SeriAssumption == MaxDepth \in Nat \ {0}

NaN == <<"real", 0>>

RawSet(pairs, k, v) ==
    {p \in pairs : p[1] # k} \cup (IF v = Nil THEN {} ELSE {<<k, v>>})

-----------------------------------------------------------------------------
(***************************************************************************)
(* Writing, to one sequence of cells: Blocks has the chain of blocks they  *)
(* are really written to.  err stands for the error that ends the call.    *)
(***************************************************************************)
Empty == [cells |-> <<>>, err |-> FALSE]

Push(wb, cells) == IF wb.err THEN wb ELSE [wb EXCEPT !.cells = @ \o cells]

Fail(wb) == [wb EXCEPT !.err = TRUE]

\* lua_rawgeti, and lua_next over what the array part has not sent.
At(pairs, k) == IF \E p \in pairs : p[1] = k THEN (CHOOSE p \in pairs : p[1] = k)[2] ELSE Nil
ArrayPart(pairs, n) == [i \in 1 .. n |-> At(pairs, <<"integer", i>>)]
HashPart(pairs, n) ==
    FlattenSeq(SetToSeq({p \in pairs : ~(p[1][1] = "integer" /\ p[1][2] \in 1 .. n)}))

\* Mutant: one table less than MAX_DEPTH allows.
TooDeepByOne(depth) == depth >= MaxDepth

TooDeep(depth) == depth > MaxDepth

RECURSIVE PackOne(_, _, _)
PackOne(wb, v, depth) ==
    LET All(w, values) == FoldLeft(LAMBDA b, x : PackOne(b, x, depth + 1), w, values)
        Ended(w) == Push(w, Cells(Nil))
    IN  IF wb.err THEN wb
        ELSE IF TooDeep(depth) \/ v[1] = "function" THEN Fail(wb)
        ELSE IF v[1] = "table" THEN
            Ended(All(Push(wb, Cells(<<"table", v[3]>>)), ArrayPart(v[2], v[3]) \o HashPart(v[2], v[3])))
        ELSE IF v[1] = "proxy" THEN
            LET sent == All(Push(wb, Cells(<<"table", 0>>)), FlattenSeq(v[2]))
            IN  IF v[3] THEN Fail(sent) ELSE Ended(sent)
        ELSE Push(wb, Cells(v))

Packed(args) == FoldLeft(LAMBDA b, x : PackOne(b, x, 0), Empty, args)

-----------------------------------------------------------------------------
(***************************************************************************)
(* Reading: err of a result is also the error of a key that is NaN.        *)
(***************************************************************************)
RECURSIVE UnpackOne(_), UnpackArray(_, _), UnpackHash(_)

\* table is a result whose value is the pairs read so far.
UnpackArray(table, sizes) ==
    IF sizes = <<>> \/ table.err THEN table
    ELSE LET one == UnpackOne(table.left)
         IN  IF one.err THEN Invalid
             ELSE UnpackArray(Got(RawSet(table.v, <<"integer", Head(sizes)>>, one.v), one.left),
                              Tail(sizes))

UnpackHash(table) ==
    LET key == UnpackOne(table.left)
        value == UnpackOne(key.left)
    IN  IF table.err \/ key.err THEN Invalid
        ELSE IF key.v = Nil THEN Got(<<"table", table.v>>, key.left)
        ELSE IF value.err \/ key.v = NaN THEN Invalid
        ELSE UnpackHash(Got(RawSet(table.v, key.v, value.v), value.left))

UnpackOne(left) ==
    LET one == OneItem(left)
    IN  IF ~one.err /\ one.v[1] = "table"
        THEN UnpackHash(UnpackArray(Got({}, one.left), [i \in 1 .. one.v[2] |-> i]))
        ELSE one

RECURSIVE UnpackFrom(_, _)
UnpackFrom(left, values) ==
    LET one == UnpackOne(left)
    IN  IF left = <<>> THEN [err |-> FALSE, values |-> values]
        ELSE IF one.err THEN [err |-> TRUE, values |-> <<>>]
        ELSE UnpackFrom(one.left, Append(values, one.v))

Unpacked(cells) == UnpackFrom(cells, <<>>)

-----------------------------------------------------------------------------
(***************************************************************************)
(* What a script may expect, without cells.                                *)
(***************************************************************************)
\* The value that the receiver gets for v.
RECURSIVE Plain(_)
Plain(v) ==
    CASE v[1] = "table" -> <<"table", {<<Plain(p[1]), Plain(p[2])>> : p \in v[2]}>>
      [] v[1] = "proxy" ->
            <<"table", FoldLeft(LAMBDA pairs, p : RawSet(pairs, Plain(p[1]), Plain(p[2])), {}, v[2])>>
      [] OTHER -> v

Inside(v) ==
    CASE v[1] = "table" ->
            UNION {{p[1], p[2]} : p \in v[2]} \cup ToSet(ArrayPart(v[2], v[3]))
      [] v[1] = "proxy" -> UNION {{p[1], p[2]} : p \in ToSet(v[2])}
      [] OTHER -> {}

\* Everything that is sent of v, with the number of tables around it.
RECURSIVE Within(_, _)
Within(v, depth) == {<<v, depth>>} \cup UNION {Within(x, depth + 1) : x \in Inside(v)}

\* pack raises an error of its own or one of the script's; unpack raises one.
Refused(v) == \E w \in Within(v, 0) : w[1][1] = "function" \/ w[2] > MaxDepth
Raises(v) == \E w \in Within(v, 0) : w[1][1] = "proxy" /\ w[1][3]
Unreadable(v) == \E w \in Within(v, 0) :
    w[1][1] = "proxy" /\ \E p \in ToSet(w[1][2]) : p[1] = NaN

-----------------------------------------------------------------------------
\* The list a packed, every beginning of its cells unpacked, and what to expect.
Call(a) ==
    LET pack == Packed(a)
        plain == [i \in DOMAIN a |-> Plain(a[i])]
        unreadable == \E i \in DOMAIN a : Unreadable(a[i])
    IN  [ok |-> ~pack.err, size |-> Len(pack.cells),
         read |-> [n \in 0 .. Len(pack.cells) |-> Unpacked(SubSeq(pack.cells, 1, n))],
         plain |-> plain,
         due |-> [err |-> unreadable, values |-> IF unreadable THEN <<>> ELSE plain],
         sendable |-> \A i \in DOMAIN a : ~Refused(a[i]),
         raises |-> \E i \in DOMAIN a : Raises(a[i])]
=============================================================================
