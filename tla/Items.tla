-------------------------------- MODULE Items --------------------------------
(***************************************************************************)
(* The cells of one item of a packed message, lua-seri.cpp: what the       *)
(* writers push for it, and what push_value makes of them.                 *)
(*                                                                         *)
(* A cell is a byte with Byte values instead of 256, and the widths of     *)
(* integers are counted in such bytes; the header of an item is one cell   *)
(* of its own.  An item is a tuple with its type in front: <<"nil">>,      *)
(* <<"boolean", b>>, <<"integer", i>>, <<"real", r>>, <<"pointer", p>>,    *)
(* <<"string", cells>>, or <<"table", n>>, the beginning of a table with n *)
(* elements in its array part.  Reals and pointers are opaque numbers.     *)
(***************************************************************************)
EXTENDS Integers, Sequences

CONSTANTS Byte, MaxCookie

ASSUME ItemsAssumption == Byte \in Nat \ {0} /\ MaxCookie \in Nat \ {0, 1}

Nil == <<"nil">>

Type == [nil |-> 0, boolean |-> 1, number |-> 2, userdata |-> 3,
         shortString |-> 4, longString |-> 5, table |-> 6]

\* The cookies of numbers: the width in bytes, but for a qword, and the real.
Cookie(width) == IF width = 8 THEN 6 ELSE width
Real == 8
PointerWidth == 4

Header(type, cookie) == <<type + 8 * cookie>>
TypeOf(cell) == cell % 8
CookieOf(cell) == cell \div 8

-----------------------------------------------------------------------------
(***************************************************************************)
(* Integers in memory: little-endian, in two's complement.                 *)
(***************************************************************************)
Byte2 == Byte * Byte
Byte4 == Byte2 * Byte2
Byte8 == Byte4 * Byte4

Span(width) == CASE width = 1 -> Byte [] width = 2 -> Byte2 [] width = 4 -> Byte4 [] width = 8 -> Byte8

Word(v) == <<v % Byte, (v \div Byte) % Byte>>
Dword(v) == Word(v) \o Word(v \div Byte2)
Qword(v) == Dword(v) \o Dword(v \div Byte4)

Digits(v, width) ==
    CASE width = 1 -> <<v % Byte>>
      [] width = 2 -> Word(v)
      [] width = 4 -> Dword(v)
      [] width = 8 -> Qword(v)

\* The number in the cells from i on.
WordAt(cells, i) == cells[i] + Byte * cells[i + 1]
DwordAt(cells, i) == WordAt(cells, i) + Byte2 * WordAt(cells, i + 2)

Unsigned(cells, width) ==
    CASE width = 0 -> 0
      [] width = 1 -> cells[1]
      [] width = 2 -> WordAt(cells, 1)
      [] width = 4 -> DwordAt(cells, 1)
      [] width = 8 -> DwordAt(cells, 1) + Byte4 * DwordAt(cells, 5)

AsSigned(n, span) == IF 2 * n >= span THEN n - span ELSE n
Fits(v, span) == AsSigned(v % span, span) = v

-----------------------------------------------------------------------------
(***************************************************************************)
(* Writing: the cells of each wb_push, the header's first.                 *)
(***************************************************************************)
IntegerWidth(v) ==
    IF v = 0 THEN 0
    ELSE IF ~Fits(v, Byte4) THEN 8
    ELSE IF v < 0 THEN 4
    ELSE IF v < Byte THEN 1
    ELSE IF v < Byte2 THEN 2
    ELSE 4

IntegerParts(v) == LET width == IntegerWidth(v) IN
    IF width = 0 THEN <<Header(Type.number, 0)>>
    ELSE <<Header(Type.number, Cookie(width)), Digits(v, width)>>

StringParts(s) == LET width == IF Len(s) < Byte2 THEN 2 ELSE 4 IN
    IF s = <<>> THEN <<Header(Type.shortString, 0)>>
    ELSE IF Len(s) < MaxCookie THEN <<Header(Type.shortString, Len(s)), s>>
    ELSE <<Header(Type.longString, width), Digits(Len(s), width), s>>

TableParts(n) ==
    IF n >= MaxCookie - 1 THEN <<Header(Type.table, MaxCookie - 1)>> \o IntegerParts(n)
                          ELSE <<Header(Type.table, n)>>

Parts(item) ==
    CASE item[1] = "nil" -> <<Header(Type.nil, 0)>>
      [] item[1] = "boolean" -> <<Header(Type.boolean, IF item[2] THEN 1 ELSE 0)>>
      [] item[1] = "integer" -> IntegerParts(item[2])
      [] item[1] = "real" -> <<Header(Type.number, Real), Digits(item[2], 8)>>
      [] item[1] = "pointer" -> <<Header(Type.userdata, 0), Digits(item[2], PointerWidth)>>
      [] item[1] = "string" -> StringParts(item[2])
      [] item[1] = "table" -> TableParts(item[2])

\* No item has more than three parts.
Joined(parts) ==
    CASE Len(parts) = 0 -> <<>>
      [] Len(parts) = 1 -> parts[1]
      [] Len(parts) = 2 -> parts[1] \o parts[2]
      [] Len(parts) = 3 -> parts[1] \o (parts[2] \o parts[3])

Cells(item) == Joined(Parts(item))

-----------------------------------------------------------------------------
(***************************************************************************)
(* Reading.  A result has what is left to read; err is the error "Invalid  *)
(* serialize stream".                                                      *)
(***************************************************************************)
Got(v, left) == [v |-> v, left |-> left, err |-> FALSE]
Invalid == [v |-> <<>>, left |-> <<>>, err |-> TRUE]

From(left, n) == SubSeq(left, n + 1, Len(left))

\* rb_read, which refuses to read past the end.
Take(left, n) == IF Len(left) < n THEN Invalid ELSE Got(SubSeq(left, 1, n), From(left, n))

\* Mutant: a dword is taken as it was written, as an unsigned one.
GetIntegerUnsigned(left, cookie) ==
    LET width == IF cookie = 6 THEN 8 ELSE cookie
        cells == Take(left, width)
        n == Unsigned(cells.v, width)
    IN  IF cookie \notin {0, 1, 2, 4, 6} \/ cells.err THEN Invalid
        ELSE Got(<<"integer", IF width = 8 THEN AsSigned(n, Span(width)) ELSE n>>, cells.left)

GetInteger(left, cookie) ==
    LET width == IF cookie = 6 THEN 8 ELSE cookie
        cells == Take(left, width)
        n == Unsigned(cells.v, width)
    IN  IF cookie \notin {0, 1, 2, 4, 6} \/ cells.err THEN Invalid
        ELSE Got(<<"integer", IF width >= 4 THEN AsSigned(n, Span(width)) ELSE n>>, cells.left)

\* The number of a real or of a pointer.
GetOpaque(type, left, width) ==
    LET cells == Take(left, width)
    IN  IF cells.err THEN Invalid ELSE Got(<<type, Unsigned(cells.v, width)>>, cells.left)

GetBuffer(left, n) ==
    LET cells == Take(left, n)
    IN  IF cells.err THEN Invalid ELSE Got(<<"string", cells.v>>, cells.left)

LongString(left, width) ==
    LET size == Take(left, width)
    IN  IF width \notin {2, 4} \/ size.err THEN Invalid
        ELSE GetBuffer(size.left, Unsigned(size.v, width))

ArraySize(left, cookie) ==
    IF cookie # MaxCookie - 1 THEN Got(<<"table", cookie>>, left)
    ELSE IF left = <<>> \/ TypeOf(left[1]) # Type.number \/ CookieOf(left[1]) = Real THEN Invalid
    ELSE LET size == GetInteger(Tail(left), CookieOf(left[1]))
         IN  IF size.err THEN Invalid ELSE Got(<<"table", size.v[2]>>, size.left)

PushValue(type, cookie, left) ==
    CASE type = Type.nil -> Got(Nil, left)
      [] type = Type.boolean -> Got(<<"boolean", cookie # 0>>, left)
      [] type = Type.number /\ cookie = Real -> GetOpaque("real", left, 8)
      [] type = Type.number /\ cookie # Real -> GetInteger(left, cookie)
      [] type = Type.userdata -> GetOpaque("pointer", left, PointerWidth)
      [] type = Type.shortString -> GetBuffer(left, cookie)
      [] type = Type.longString -> LongString(left, cookie)
      [] type = Type.table -> ArraySize(left, cookie)
      [] OTHER -> Invalid

\* Mutant: the end of the cells is a nil.
OneItemPastEnd(left) ==
    IF left = <<>> THEN Got(Nil, left)
    ELSE PushValue(TypeOf(left[1]), CookieOf(left[1]), Tail(left))

\* The item that the cells begin with; of a table, its elements and pairs are still to come.
OneItem(left) ==
    IF left = <<>> THEN Invalid
    ELSE PushValue(TypeOf(left[1]), CookieOf(left[1]), Tail(left))
=============================================================================
