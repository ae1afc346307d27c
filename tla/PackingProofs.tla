---------------------------- MODULE PackingProofs ----------------------------
(*****************************************************************************)
(* Theorems about Items, for bytes of any size: push_value takes from any    *)
(* bytes the item that was written there, and refuses fewer; about Stream,   *)
(* for every depth, every size of tables and every message: the two          *)
(* recursions agree on every item; then about Packing, which implements      *)
(* both Stream and Blocks, for any scalars and blocks and every byte at      *)
(* which a message is cut.                                                   *)
(*****************************************************************************)
EXTENDS Packing, BlocksProofs, SequenceTheorems, TLAPS

-----------------------------------------------------------------------------
(*****************************************************************************)
(* Integers as digits: division by powers of Byte.                           *)
(*****************************************************************************)
LEMMA Division ==
    ASSUME NEW v \in Int, NEW a \in Nat \ {0}
    PROVE  v \div a \in Int /\ v % a \in 0 .. a - 1 /\ v = a * (v \div a) + (v % a)
  OBVIOUS

LEMMA Remainder ==
    ASSUME NEW v \in Int, NEW m \in Nat \ {0}, NEW x \in Int, NEW y \in 0 .. m - 1, v = m * x + y
    PROVE  v % m = y
  <1>. DEFINE q == v \div m
              r == v % m
  <1>1. q \in Int /\ r \in 0 .. m - 1 /\ v = m * q + r
    BY Division
  <1>. HIDE DEF q, r
  <1>2. m * (x - q) = r - y
    BY <1>1
  <1>3. CASE x > q
    <2>1. \A d \in Nat \ {0} : m * d >= m
      OBVIOUS
    <2>2. m * (x - q) >= m
      BY <1>1, <1>3, <2>1
    <2>. QED BY <1>1, <1>2, <2>2
  <1>4. CASE x < q
    <2>1. \A d \in Nat \ {0} : m * d >= m
      OBVIOUS
    <2>2. m * (q - x) >= m /\ m * (q - x) = y - r
      BY <1>1, <1>4, <2>1
    <2>. QED BY <1>1, <2>2
  <1>5. CASE x = q
    BY <1>1, <1>2, <1>5
  <1>6. r = y
    BY <1>1, <1>3, <1>4, <1>5
  <1>. QED BY <1>6 DEF r

\* A number is its lower half and its upper half.
LEMMA Halves ==
    ASSUME NEW v \in Int, NEW a \in Nat \ {0}, NEW b \in Nat \ {0}
    PROVE  /\ v % (a * b) = (v % a) + a * ((v \div a) % b)
           /\ v % (a * b) \in 0 .. a * b - 1 /\ a * b \in Nat \ {0} /\ v \div a \in Int
  <1>. DEFINE q == v \div a
              r == v % a
              s == q \div b
              t == q % b
  <1>1. q \in Int /\ r \in 0 .. a - 1 /\ v = a * q + r
    BY Division
  <1>2. s \in Int /\ t \in 0 .. b - 1 /\ q = b * s + t
    BY <1>1, Division
  <1>. HIDE DEF q, r, s, t
  <1>3. a * b \in Nat \ {0}
    OBVIOUS
  <1>4. v = (a * b) * s + (r + a * t)
    BY <1>1, <1>2
  <1>5. r + a * t \in 0 .. a * b - 1
    <2>1. a * t >= 0 /\ a * t \in Int
      BY <1>2
    <2>2. a * (b - 1 - t) >= 0 /\ a * (b - 1 - t) = a * b - a - a * t
      BY <1>2
    <2>. QED BY <1>1, <1>3, <2>1, <2>2
  <1>6. v % (a * b) = r + a * t
    BY <1>3, <1>4, <1>5, <1>2, Remainder
  <1>. QED BY <1>1, <1>3, <1>5, <1>6 DEF q, r, s, t

LEMMA Spans ==
    /\ Byte \in Nat \ {0} /\ Byte2 \in Nat \ {0} /\ Byte4 \in Nat \ {0} /\ Byte8 \in Nat \ {0}
    /\ Byte4 >= Byte2 /\ Byte2 >= Byte
  <1>1. \A a \in Nat \ {0} : a * a \in Nat \ {0} /\ a * a >= a
    OBVIOUS
  <1>. QED BY <1>1, ItemsAssumption DEF Byte2, Byte4, Byte8

\* The values of a byte.
Octet == 0 .. Byte - 1

LEMMA WordFacts ==
    ASSUME NEW v \in Int
    PROVE  /\ Word(v) \in Seq(Octet) /\ Len(Word(v)) = 2
           /\ Word(v)[1] + Byte * Word(v)[2] = v % Byte2
  <1>1. v % Byte \in Octet /\ v \div Byte \in Int
    BY Spans, Division DEF Octet
  <1>2. (v \div Byte) % Byte \in Octet
    BY <1>1, Spans, Division DEF Octet
  <1>3. v % Byte2 = (v % Byte) + Byte * ((v \div Byte) % Byte)
    BY Spans, Halves DEF Byte2
  <1>. QED BY <1>1, <1>2, <1>3 DEF Word

LEMMA DwordFacts ==
    ASSUME NEW v \in Int
    PROVE  /\ Dword(v) \in Seq(Octet) /\ Len(Dword(v)) = 4
           /\ DwordAt(Dword(v), 1) = v % Byte4
  <1>. DEFINE lo == Word(v)
              hi == Word(v \div Byte2)
  <1>1. v \div Byte2 \in Int /\ v % Byte4 = (v % Byte2) + Byte2 * ((v \div Byte2) % Byte2)
    BY Spans, Halves DEF Byte4
  <1>2. /\ lo \in Seq(Octet) /\ Len(lo) = 2 /\ lo[1] + Byte * lo[2] = v % Byte2
        /\ hi \in Seq(Octet) /\ Len(hi) = 2 /\ hi[1] + Byte * hi[2] = (v \div Byte2) % Byte2
    BY <1>1, WordFacts
  <1>3. Dword(v) = lo \o hi
    BY DEF Dword
  <1>. HIDE DEF lo, hi
  <1>4. /\ lo \o hi \in Seq(Octet) /\ Len(lo \o hi) = 4
        /\ (lo \o hi)[1] = lo[1] /\ (lo \o hi)[2] = lo[2]
        /\ (lo \o hi)[3] = hi[1] /\ (lo \o hi)[4] = hi[2]
    BY <1>2, ConcatProperties
  <1>. QED BY <1>1, <1>2, <1>3, <1>4 DEF DwordAt, WordAt

LEMMA SameDword ==
    ASSUME NEW c, NEW d, NEW k \in Nat, \A i \in 0 .. 3 : c[k + i] = d[1 + i]
    PROVE  DwordAt(c, k) = DwordAt(d, 1)
  <1>1. c[k] = d[1] /\ c[k + 1] = d[2] /\ c[k + 2] = d[3] /\ c[k + 3] = d[4]
    <2>1. c[k + 0] = d[1 + 0] /\ c[k + 1] = d[1 + 1] /\ c[k + 2] = d[1 + 2] /\ c[k + 3] = d[1 + 3]
      OBVIOUS
    <2>. QED BY <2>1
  <1>2. WordAt(c, k) = WordAt(d, 1)
    BY <1>1 DEF WordAt
  <1>3. k + 2 + 1 = k + 3 /\ 1 + 2 = 3 /\ 1 + 2 + 1 = 4
    OBVIOUS
  <1>4. WordAt(c, k + 2) = WordAt(d, 1 + 2)
    BY <1>1, <1>3 DEF WordAt
  <1>. QED BY <1>2, <1>4 DEF DwordAt

LEMMA QwordFacts ==
    ASSUME NEW v \in Int
    PROVE  /\ Qword(v) \in Seq(Octet) /\ Len(Qword(v)) = 8
           /\ DwordAt(Qword(v), 1) + Byte4 * DwordAt(Qword(v), 5) = v % Byte8
  <1>. DEFINE lo == Dword(v)
              hi == Dword(v \div Byte4)
  <1>1. v \div Byte4 \in Int /\ v % Byte8 = (v % Byte4) + Byte4 * ((v \div Byte4) % Byte4)
    BY Spans, Halves DEF Byte8
  <1>2. /\ lo \in Seq(Octet) /\ Len(lo) = 4 /\ DwordAt(lo, 1) = v % Byte4
        /\ hi \in Seq(Octet) /\ Len(hi) = 4 /\ DwordAt(hi, 1) = (v \div Byte4) % Byte4
    BY <1>1, DwordFacts
  <1>3. Qword(v) = lo \o hi
    BY DEF Qword
  <1>. HIDE DEF lo, hi
  <1>4. /\ Qword(v) \in Seq(Octet) /\ Len(Qword(v)) = 8
        /\ \A i \in 1 .. 8 : Qword(v)[i] = IF i <= 4 THEN lo[i] ELSE hi[i - 4]
    <2>1. /\ lo \o hi \in Seq(Octet) /\ Len(lo \o hi) = Len(lo) + Len(hi)
          /\ \A i \in 1 .. Len(lo) + Len(hi) : (lo \o hi)[i] = IF i <= Len(lo) THEN lo[i] ELSE hi[i - Len(lo)]
      BY <1>2, ConcatProperties
    <2>. QED BY <1>2, <1>3, <2>1
  <1>5. DwordAt(Qword(v), 1) = DwordAt(lo, 1)
    <2>1. \A i \in 0 .. 3 : Qword(v)[1 + i] = lo[1 + i]
      BY <1>4
    <2>. QED BY <2>1, SameDword
  <1>6. DwordAt(Qword(v), 5) = DwordAt(hi, 1)
    <2>1. \A i \in 0 .. 3 : 5 + i \in 1 .. 8 /\ ~(5 + i <= 4) /\ 5 + i - 4 = 1 + i
      OBVIOUS
    <2>2. \A i \in 0 .. 3 : Qword(v)[5 + i] = hi[1 + i]
      BY <1>4, <2>1
    <2>. QED BY <2>2, SameDword
  <1>. QED BY <1>1, <1>2, <1>4, <1>5, <1>6

\* Whatever cells agree with the digits of v have the value that v has in so many bytes.
LEMMA DigitFacts ==
    ASSUME NEW v \in Int, NEW width \in {1, 2, 4, 8}
    PROVE  /\ Digits(v, width) \in Seq(Octet) /\ Len(Digits(v, width)) = width
           /\ Span(width) \in Nat \ {0}
           /\ \A cells : (\A i \in 1 .. width : cells[i] = Digits(v, width)[i])
                            => Unsigned(cells, width) = v % Span(width)
  <1>1. CASE width = 1
    <2>1. v % Byte \in Octet
      BY Spans, Division DEF Octet
    <2>2. Digits(v, width) = <<v % Byte>> /\ Span(width) = Byte
      BY <1>1 DEF Digits, Span
    <2>3. ASSUME NEW cells, \A i \in 1 .. width : cells[i] = <<v % Byte>>[i]
          PROVE  Unsigned(cells, width) = v % Byte
      <3>1. cells[1] = v % Byte
        BY <1>1, <2>3
      <3>. QED BY <1>1, <3>1 DEF Unsigned
    <2>4. <<v % Byte>> \in Seq(Octet) /\ Len(<<v % Byte>>) = 1
      BY <2>1
    <2>. QED BY <1>1, <2>2, <2>3, <2>4, Spans
  <1>2. CASE width = 2
    <2>1. Digits(v, width) = Word(v) /\ Span(width) = Byte2
      BY <1>2 DEF Digits, Span
    <2>2. ASSUME NEW cells, \A i \in 1 .. width : cells[i] = Word(v)[i]
          PROVE  Unsigned(cells, width) = Word(v)[1] + Byte * Word(v)[2]
      <3>1. cells[1] = Word(v)[1] /\ cells[1 + 1] = Word(v)[2]
        BY <1>2, <2>2
      <3>. QED BY <1>2, <3>1 DEF Unsigned, WordAt
    <2>. QED BY <1>2, <2>1, <2>2, WordFacts, Spans
  <1>3. CASE width = 4
    <2>1. Digits(v, width) = Dword(v) /\ Span(width) = Byte4
      BY <1>3 DEF Digits, Span
    <2>2. ASSUME NEW cells, \A i \in 1 .. width : cells[i] = Dword(v)[i]
          PROVE  Unsigned(cells, width) = DwordAt(Dword(v), 1)
      BY <1>3, <2>2 DEF Unsigned, WordAt, DwordAt
    <2>. QED BY <1>3, <2>1, <2>2, DwordFacts, Spans
  <1>4. CASE width = 8
    <2>1. Digits(v, width) = Qword(v) /\ Span(width) = Byte8
      BY <1>4 DEF Digits, Span
    <2>2. ASSUME NEW cells, \A i \in 1 .. width : cells[i] = Qword(v)[i]
          PROVE  Unsigned(cells, width) = DwordAt(Qword(v), 1) + Byte4 * DwordAt(Qword(v), 5)
      BY <1>4, <2>2 DEF Unsigned, WordAt, DwordAt
    <2>. QED BY <1>4, <2>1, <2>2, QwordFacts, Spans
  <1>. QED BY <1>1, <1>2, <1>3, <1>4

-----------------------------------------------------------------------------
(*****************************************************************************)
(* What is left of a sequence of cells.                                      *)
(*****************************************************************************)
\* s begins with the cells of c, as many of them as it has.
Begins(s, c) == \A j \in 1 .. Len(c) : j <= Len(s) => s[j] = c[j]

LEMMA FromFacts ==
    ASSUME NEW S, NEW s \in Seq(S), NEW n \in 0 .. Len(s)
    PROVE  /\ From(s, n) \in Seq(S) /\ Len(From(s, n)) = Len(s) - n /\ Len(s) \in Nat
           /\ \A i \in 1 .. Len(s) - n : From(s, n)[i] = s[n + i]
  <1>1. Len(s) \in Nat /\ n + 1 \in Int /\ n \in Nat
    BY LenProperties
  <1>2. \A i \in n + 1 .. Len(s) : s[i] \in S
    BY <1>1
  <1>3. /\ From(s, n) \in Seq(S)
        /\ Len(From(s, n)) = IF n + 1 <= Len(s) THEN Len(s) - (n + 1) + 1 ELSE 0
        /\ \A i \in 1 .. Len(s) - (n + 1) + 1 : From(s, n)[i] = s[(n + 1) + i - 1]
    BY <1>1, <1>2, SubSeqProperties DEF From
  <1>4. Len(s) - (n + 1) + 1 = Len(s) - n /\ \A i \in 1 .. Len(s) - n : (n + 1) + i - 1 = n + i
    BY <1>1
  <1>5. Len(From(s, n)) = Len(s) - n
    <2>1. CASE n = Len(s)
      <3>1. ~(n + 1 <= Len(s)) /\ Len(s) - n = 0
        BY <1>1, <2>1
      <3>. QED BY <1>3, <3>1
    <2>2. CASE n # Len(s)
      <3>1. n + 1 <= Len(s)
        BY <1>1, <2>2
      <3>. QED BY <1>3, <1>4, <3>1
    <2>. QED BY <2>1, <2>2
  <1>6. ASSUME NEW i \in 1 .. Len(s) - n
        PROVE  From(s, n)[i] = s[n + i]
    BY <1>3, <1>4
  <1>. QED BY <1>1, <1>3, <1>5, <1>6

LEMMA FromFrom ==
    ASSUME NEW S, NEW s \in Seq(S), NEW m \in 0 .. Len(s), NEW n \in 0 .. Len(s) - m
    PROVE  From(From(s, m), n) = From(s, m + n)
  <1>1. From(s, m) \in Seq(S) /\ Len(From(s, m)) = Len(s) - m /\ Len(s) \in Nat
        /\ \A i \in 1 .. Len(s) - m : From(s, m)[i] = s[m + i]
    BY FromFacts
  <1>2. From(From(s, m), n) \in Seq(S) /\ Len(From(From(s, m), n)) = Len(s) - m - n
        /\ \A i \in 1 .. Len(s) - m - n : From(From(s, m), n)[i] = From(s, m)[n + i]
    <2>. PICK t \in Seq(S) : t = From(s, m)
      BY <1>1
    <2>1. n \in 0 .. Len(t)
      BY <1>1
    <2>2. /\ From(t, n) \in Seq(S) /\ Len(From(t, n)) = Len(t) - n
          /\ \A i \in 1 .. Len(t) - n : From(t, n)[i] = t[n + i]
      BY <2>1, FromFacts
    <2>. QED BY <1>1, <2>2
  <1>3. m + n \in 0 .. Len(s)
    BY <1>1
  <1>4. From(s, m + n) \in Seq(S) /\ Len(From(s, m + n)) = Len(s) - (m + n)
        /\ \A i \in 1 .. Len(s) - (m + n) : From(s, m + n)[i] = s[(m + n) + i]
    BY <1>3, FromFacts
  <1>5. Len(s) - m - n = Len(s) - (m + n)
    BY <1>1
  <1>6. ASSUME NEW i \in 1 .. Len(s) - (m + n)
        PROVE  From(From(s, m), n)[i] = From(s, m + n)[i]
    <2>1. n + i \in 1 .. Len(s) - m /\ m + (n + i) = (m + n) + i
      BY <1>1
    <2>2. From(From(s, m), n)[i] = From(s, m)[n + i]
      BY <1>2, <1>5
    <2>3. From(s, m)[n + i] = s[m + (n + i)]
      BY <1>1, <2>1
    <2>. QED BY <1>4, <2>1, <2>2, <2>3
  <1>. QED BY <1>2, <1>4, <1>5, <1>6, SeqEqual

LEMMA TailFacts ==
    ASSUME NEW S, NEW s \in Seq(S), s # <<>>
    PROVE  /\ Tail(s) = From(s, 1) /\ Tail(s) \in Seq(S) /\ Len(Tail(s)) = Len(s) - 1
           /\ Len(s) \in Nat \ {0} /\ s[1] \in S
  <1>1. Len(s) \in Nat \ {0}
    BY EmptySeq
  <1>2. Tail(s) = From(s, 1)
    BY TailIsSubSeq DEF From
  <1>. QED BY <1>1, <1>2, FromFacts

LEMMA FromNothing ==
    ASSUME NEW S, NEW s \in Seq(S)
    PROVE  From(s, 0) = s
  BY SubSeqFull DEF From

LEMMA TakeFacts ==
    ASSUME NEW S, NEW s \in Seq(S), NEW n \in Nat
    PROVE  /\ Len(s) < n => Take(s, n) = Invalid
           /\ n <= Len(s) => /\ Take(s, n) = Got(SubSeq(s, 1, n), From(s, n))
                             /\ SubSeq(s, 1, n) \in Seq(S) /\ Len(SubSeq(s, 1, n)) = n
                             /\ \A i \in 1 .. n : SubSeq(s, 1, n)[i] = s[i]
           /\ Len(s) \in Nat
  <1>1. Len(s) \in Nat
    BY LenProperties
  <1>2. ASSUME n <= Len(s)
        PROVE  /\ SubSeq(s, 1, n) \in Seq(S) /\ Len(SubSeq(s, 1, n)) = n
               /\ \A i \in 1 .. n : SubSeq(s, 1, n)[i] = s[i]
    <2>1. \A i \in 1 .. n : s[i] \in S
      BY <1>1, <1>2
    <2>2. /\ SubSeq(s, 1, n) \in Seq(S)
          /\ Len(SubSeq(s, 1, n)) = IF 1 <= n THEN n - 1 + 1 ELSE 0
          /\ \A i \in 1 .. n - 1 + 1 : SubSeq(s, 1, n)[i] = s[1 + i - 1]
      BY <2>1, SubSeqProperties
    <2>3. n - 1 + 1 = n /\ \A i \in 1 .. n : 1 + i - 1 = i
      OBVIOUS
    <2>4. Len(SubSeq(s, 1, n)) = n
      BY <2>2
    <2>5. ASSUME NEW i \in 1 .. n PROVE SubSeq(s, 1, n)[i] = s[i]
      BY <2>2, <2>3
    <2>. QED BY <2>2, <2>4, <2>5
  <1>. QED BY <1>1, <1>2 DEF Take

LEMMA BeginsJoin ==
    ASSUME NEW S, NEW T, NEW s \in Seq(S), NEW a \in Seq(T), NEW b \in Seq(T), Begins(s, a \o b)
    PROVE  /\ Begins(s, a)
           /\ Len(a) <= Len(s) => Begins(From(s, Len(a)), b)
           /\ Len(a) \in Nat /\ Len(b) \in Nat /\ Len(a \o b) = Len(a) + Len(b)
  <1>1. /\ Len(a) \in Nat /\ Len(b) \in Nat /\ Len(s) \in Nat /\ Len(a \o b) = Len(a) + Len(b)
        /\ \A i \in 1 .. Len(a) + Len(b) : (a \o b)[i] = IF i <= Len(a) THEN a[i] ELSE b[i - Len(a)]
    BY LenProperties, ConcatProperties
  <1>2. \A j \in 1 .. Len(a) + Len(b) : j <= Len(s) => s[j] = (a \o b)[j]
    BY <1>1 DEF Begins
  <1>3. Begins(s, a)
    BY <1>1, <1>2 DEF Begins
  <1>4. ASSUME Len(a) <= Len(s), NEW j \in 1 .. Len(b), j <= Len(From(s, Len(a)))
        PROVE  From(s, Len(a))[j] = b[j]
    <2>1. Len(From(s, Len(a))) = Len(s) - Len(a) /\ \A i \in 1 .. Len(s) - Len(a) : From(s, Len(a))[i] = s[Len(a) + i]
      BY <1>1, <1>4, FromFacts
    <2>2. Len(a) + j \in 1 .. Len(a) + Len(b) /\ Len(a) + j <= Len(s) /\ Len(a) + j - Len(a) = j
          /\ ~(Len(a) + j <= Len(a)) /\ j \in 1 .. Len(s) - Len(a)
      BY <1>1, <1>4, <2>1
    <2>3. From(s, Len(a))[j] = s[Len(a) + j]
      BY <2>1, <2>2
    <2>4. s[Len(a) + j] = (a \o b)[Len(a) + j]
      BY <1>2, <2>2
    <2>5. (a \o b)[Len(a) + j] = b[j]
      BY <1>1, <2>2
    <2>. QED BY <2>3, <2>4, <2>5
  <1>. QED BY <1>1, <1>3, <1>4 DEF Begins

-----------------------------------------------------------------------------
(*****************************************************************************)
(* The readers of get_integer and of opaque numbers: digits come back as the *)
(* number they were made of.                                                 *)
(*****************************************************************************)
LEMMA GotFacts ==
    ASSUME NEW v, NEW more
    PROVE  Got(v, more).v = v /\ Got(v, more).left = more /\ ~Got(v, more).err
  BY DEF Got

LEMMA WidthFacts ==
    ASSUME NEW v \in Int
    PROVE  /\ IntegerWidth(v) \in {0, 1, 2, 4, 8}
           /\ IntegerWidth(v) = 0 <=> v = 0
           /\ IntegerWidth(v) \in {1, 2} => v >= 0 /\ v < Span(IntegerWidth(v))
           /\ IntegerWidth(v) = 4 => Fits(v, Byte4)
           /\ IntegerWidth(v) = 8 => ~Fits(v, Byte4)
  BY Spans DEF IntegerWidth, Span

\* A cookie stands for one width only.
LEMMA CookieFacts ==
    ASSUME NEW width \in {0, 1, 2, 4, 8}
    PROVE  /\ Cookie(width) \in {0, 1, 2, 4, 6} /\ Cookie(width) # Real
           /\ (IF Cookie(width) = 6 THEN 8 ELSE Cookie(width)) = width
  BY DEF Cookie, Real

\* The digits of v, read as get_integer reads them, signed from a dword upwards.
LEMMA SignFacts ==
    ASSUME NEW v \in Int, Fits(v, Byte4) \/ Fits(v, Byte8), IntegerWidth(v) # 0
    PROVE  LET width == IntegerWidth(v)
               n == v % Span(width)
           IN  (IF width >= 4 THEN AsSigned(n, Span(width)) ELSE n) = v
  <1>. DEFINE width == IntegerWidth(v)
  <1>1. CASE width \in {1, 2}
    <2>1. v \in Nat /\ v < Span(width) /\ Span(width) \in Nat \ {0} /\ ~(width >= 4)
      BY <1>1, WidthFacts, Spans DEF Span
    <2>2. v % Span(width) = v
      BY <2>1
    <2>. QED BY <2>1, <2>2
  <1>2. CASE width = 4
    BY <1>2, WidthFacts DEF Fits, Span
  <1>3. CASE width = 8
    BY <1>3, WidthFacts DEF Fits, Span
  <1>. QED BY <1>1, <1>2, <1>3, WidthFacts

\* What wb_integer writes behind the header.
IntegerDigits(v) == IF IntegerWidth(v) = 0 THEN <<>> ELSE Digits(v, IntegerWidth(v))

LEMMA IntegerDigitsFacts ==
    ASSUME NEW v \in Int
    PROVE  IntegerDigits(v) \in Seq(Octet) /\ Len(IntegerDigits(v)) = IntegerWidth(v)
  <1>1. IntegerWidth(v) # 0 => IntegerWidth(v) \in {1, 2, 4, 8}
    BY WidthFacts
  <1>. QED BY <1>1, DigitFacts, EmptySeq DEF IntegerDigits

\* get_integer undoes wb_integer at every width, and refuses fewer bytes.
LEMMA IntegerRead ==
    ASSUME NEW S, NEW s \in Seq(S), NEW v \in Int, Fits(v, Byte4) \/ Fits(v, Byte8),
           Begins(s, IntegerDigits(v))
    PROVE  LET width == IntegerWidth(v) IN
           /\ width <= Len(s) => GetInteger(s, Cookie(width)) = Got(<<"integer", v>>, From(s, width))
           /\ Len(s) < width => GetInteger(s, Cookie(width)) = Invalid
           /\ width \in Nat
  <1>. DEFINE width == IntegerWidth(v)
              cells == Take(s, width)
              n == Unsigned(cells.v, width)
  <1>1. width \in {0, 1, 2, 4, 8} /\ width \in Nat
    BY WidthFacts
  <1>2. GetInteger(s, Cookie(width)) =
            IF cells.err THEN Invalid
            ELSE Got(<<"integer", IF width >= 4 THEN AsSigned(n, Span(width)) ELSE n>>, cells.left)
    BY <1>1, CookieFacts DEF GetInteger
  <1>3. CASE Len(s) < width
    <2>1. cells.err
      BY <1>1, <1>3, TakeFacts DEF Invalid
    <2>2. ~(width <= Len(s))
      BY <1>1, <1>3, TakeFacts
    <2>. QED BY <1>1, <1>2, <1>3, <2>1, <2>2
  <1>4. CASE width <= Len(s)
    <2>1. cells = Got(SubSeq(s, 1, width), From(s, width)) /\ \A i \in 1 .. width : SubSeq(s, 1, width)[i] = s[i]
      BY <1>1, <1>4, TakeFacts
    <2>2. ~cells.err /\ cells.v = SubSeq(s, 1, width) /\ cells.left = From(s, width)
      <3>1. cells = Got(SubSeq(s, 1, width), From(s, width))
        BY <2>1
      <3>. HIDE DEF cells
      <3>2. ~cells.err
        BY <3>1, GotFacts
      <3>3. cells.v = SubSeq(s, 1, width)
        BY <3>1, GotFacts
      <3>4. cells.left = From(s, width)
        BY <3>1, GotFacts
      <3>. QED BY <3>2, <3>3, <3>4
    <2>3. (IF width >= 4 THEN AsSigned(n, Span(width)) ELSE n) = v
      <3>1. CASE width = 0
        BY <3>1, WidthFacts DEF Unsigned
      <3>2. CASE width # 0
        <4>1. width \in {1, 2, 4, 8} /\ IntegerDigits(v) = Digits(v, width) /\ Len(Digits(v, width)) = width
          BY <1>1, <3>2, DigitFacts DEF IntegerDigits
        <4>2. \A i \in 1 .. width : cells.v[i] = Digits(v, width)[i]
          <5>1. Len(s) \in Nat
            BY LenProperties
          <5>2. \A i \in 1 .. width : s[i] = Digits(v, width)[i]
            BY <1>4, <4>1, <5>1 DEF Begins
          <5>. QED BY <2>1, <2>2, <5>2
        <4>3. n = v % Span(width)
          <5>1. ASSUME NEW w \in {1, 2, 4, 8}, NEW read, \A i \in 1 .. w : read[i] = Digits(v, w)[i]
                PROVE  Unsigned(read, w) = v % Span(w)
            BY <5>1, DigitFacts
          <5>. HIDE DEF width, cells
          <5>. QED BY <4>1, <4>2, <5>1
        <4>. QED BY <3>2, <4>3, SignFacts
      <3>. QED BY <3>1, <3>2
    <2>4. ~(Len(s) < width)
      BY <1>1, <1>4, TakeFacts
    <2>. QED BY <1>1, <1>2, <2>2, <2>3, <2>4
  <1>. QED BY <1>1, <1>3, <1>4, TakeFacts

\* A real and a pointer, and the length of a long string, come back as they were.
LEMMA NumberRead ==
    ASSUME NEW S, NEW s \in Seq(S), NEW width \in {1, 2, 4, 8}, NEW v \in 0 .. Span(width) - 1,
           Begins(s, Digits(v, width))
    PROVE  /\ width <= Len(s) => Take(s, width) = Got(SubSeq(s, 1, width), From(s, width))
                                 /\ Unsigned(SubSeq(s, 1, width), width) = v
           /\ Len(s) < width => Take(s, width) = Invalid
           /\ Digits(v, width) \in Seq(Octet) /\ Len(Digits(v, width)) = width
  <1>1. v \in Int /\ v % Span(width) = v /\ width \in Nat
    <2>1. width \in Nat /\ Span(width) \in Nat \ {0}
      BY Spans DEF Span
    <2>2. v \in Int /\ v = Span(width) * 0 + v
      BY <2>1
    <2>. QED BY <2>1, <2>2, Remainder
  <1>2. Digits(v, width) \in Seq(Octet) /\ Len(Digits(v, width)) = width
    BY <1>1, DigitFacts
  <1>3. ASSUME width <= Len(s)
        PROVE  Unsigned(SubSeq(s, 1, width), width) = v
    <2>1. \A i \in 1 .. width : SubSeq(s, 1, width)[i] = s[i]
      BY <1>1, <1>3, TakeFacts
    <2>2. \A i \in 1 .. width : s[i] = Digits(v, width)[i]
      <3>1. Len(s) \in Nat
        BY LenProperties
      <3>. QED BY <1>1, <1>2, <1>3, <3>1 DEF Begins
    <2>3. \A i \in 1 .. width : SubSeq(s, 1, width)[i] = Digits(v, width)[i]
      BY <2>1, <2>2
    <2>4. \A cells : (\A i \in 1 .. width : cells[i] = Digits(v, width)[i])
                        => Unsigned(cells, width) = v % Span(width)
      BY <1>1, DigitFacts
    <2>. QED BY <1>1, <2>3, <2>4
  <1>. QED BY <1>1, <1>2, <1>3, TakeFacts

LEMMA BufferRead ==
    ASSUME NEW S, NEW T, NEW s \in Seq(S), NEW c \in Seq(T), Begins(s, c)
    PROVE  /\ Len(c) <= Len(s) => GetBuffer(s, Len(c)) = Got(<<"string", c>>, From(s, Len(c)))
           /\ Len(s) < Len(c) => GetBuffer(s, Len(c)) = Invalid
           /\ Len(c) \in Nat /\ Len(s) \in Nat
  <1>. DEFINE n == Len(c)
  <1>1. n \in Nat /\ Len(s) \in Nat
    BY LenProperties
  <1>2. CASE Len(s) < n
    <2>1. Take(s, n) = Invalid
      BY <1>1, <1>2, TakeFacts
    <2>2. Take(s, n).err
      BY <2>1 DEF Invalid
    <2>. QED BY <1>1, <1>2, <2>2 DEF GetBuffer
  <1>3. CASE n <= Len(s)
    <2>1. /\ Take(s, n) = Got(SubSeq(s, 1, n), From(s, n))
          /\ SubSeq(s, 1, n) \in Seq(S) /\ Len(SubSeq(s, 1, n)) = n
          /\ \A i \in 1 .. n : SubSeq(s, 1, n)[i] = s[i]
      BY <1>1, <1>3, TakeFacts
    <2>2. \A i \in 1 .. n : SubSeq(s, 1, n)[i] = c[i]
      BY <1>1, <1>3, <2>1 DEF Begins
    <2>3. SubSeq(s, 1, n) = c
      <3>1. SubSeq(s, 1, n) \in Seq(S \cup T) /\ c \in Seq(S \cup T)
        BY <2>1, SeqMonotonic
      <3>. QED BY <2>1, <2>2, <3>1, SeqEqual
    <2>4. ~Take(s, n).err /\ Take(s, n).v = c /\ Take(s, n).left = From(s, n)
      BY <2>1, <2>3 DEF Got
    <2>. QED BY <1>1, <1>3, <2>4 DEF GetBuffer
  <1>. QED BY <1>1, <1>2, <1>3

-----------------------------------------------------------------------------
(*****************************************************************************)
(* An item is a header and what follows it.                                  *)
(*****************************************************************************)
\* What reading an item of n cells from s has to give.
Whole(item, s, n) == IF n <= Len(s) THEN Got(item, From(s, n)) ELSE Invalid

\* The cookies that a header can have.
Cookies == 0 .. 8 \cup 0 .. MaxCookie - 1

LEMMA HeaderFacts ==
    ASSUME NEW type \in 0 .. 6, NEW cookie \in Cookies
    PROVE  /\ Header(type, cookie) \in Seq(Cell) /\ Len(Header(type, cookie)) = 1
           /\ TypeOf(Header(type, cookie)[1]) = type /\ CookieOf(Header(type, cookie)[1]) = cookie
  <1>1. cookie \in Nat
    BY ItemsAssumption DEF Cookies
  <1>2. (type + 8 * cookie) % 8 = type /\ (type + 8 * cookie) \div 8 = cookie
    BY <1>1
  <1>3. Header(type, cookie)[1] = type + 8 * cookie
    BY DEF Header
  <1>4. type + 8 * cookie \in Cell
    BY <1>3, PackingAssumption DEF Cookies
  <1>5. Header(type, cookie) \in Seq(Cell) /\ Len(Header(type, cookie)) = 1
    BY <1>4 DEF Header
  <1>. QED BY <1>2, <1>3, <1>5 DEF TypeOf, CookieOf

\* A header and what follows it, in cells that may end anywhere.
LEMMA BehindHeader ==
    ASSUME NEW S, NEW s \in Seq(S), NEW h \in Seq(Cell),
           NEW body \in Seq(Cell), Begins(s, h \o body)
    PROVE  Len(h) = 1 =>
           /\ Len(body) \in Nat
           /\ s # <<>> => /\ Len(s) \in Nat \ {0} /\ s[1] = h[1]
                          /\ Tail(s) = From(s, 1) /\ From(s, 1) \in Seq(S)
                          /\ Begins(From(s, 1), body)
  <1>1. /\ Begins(s, h) /\ Len(body) \in Nat /\ Len(h \o body) = Len(h) + Len(body)
        /\ Len(h) <= Len(s) => Begins(From(s, Len(h)), body)
    BY BeginsJoin
  <1>2. ASSUME s # <<>>
        PROVE  Tail(s) = From(s, 1) /\ From(s, 1) \in Seq(S) /\ Len(s) \in Nat \ {0}
    BY <1>2, TailFacts
  <1>3. Len(h) = 1 /\ s # <<>> => s[1] = h[1]
    BY <1>1, <1>2 DEF Begins
  <1>. QED BY <1>1, <1>2, <1>3

\* A header, and the cells behind it.
Headed(c, type, cookie, body) == c = Header(type, cookie) \o body

\* c is a cell longer than body.
OneMore(c, body) == Len(c) = 1 + Len(body)

LEMMA BehindItsHeader ==
    ASSUME NEW S, NEW s \in Seq(S), NEW type \in 0 .. 6, NEW cookie \in Cookies,
           NEW body \in Seq(Cell), NEW c, Headed(c, type, cookie, body), Begins(s, c)
    PROVE  /\ c \in Seq(Cell) /\ OneMore(c, body) /\ Len(body) \in Nat
           /\ s # <<>> => /\ Len(s) \in Nat \ {0} /\ TypeOf(s[1]) = type /\ CookieOf(s[1]) = cookie
                          /\ Tail(s) = From(s, 1) /\ From(s, 1) \in Seq(S)
                          /\ Begins(From(s, 1), body)
  <1>. PICK h \in Seq(Cell) : h = Header(type, cookie)
    BY HeaderFacts
  <1>1. Len(h) = 1 /\ TypeOf(h[1]) = type /\ CookieOf(h[1]) = cookie
    BY HeaderFacts
  <1>2. c = h \o body /\ c \in Seq(Cell) /\ Len(c) = Len(h) + Len(body)
    BY ConcatProperties DEF Headed
  <1>3. Len(h) = 1 =>
        /\ Len(body) \in Nat
        /\ s # <<>> => /\ Len(s) \in Nat \ {0} /\ s[1] = h[1]
                       /\ Tail(s) = From(s, 1) /\ From(s, 1) \in Seq(S)
                       /\ Begins(From(s, 1), body)
    <2>1. Begins(s, h \o body)
      BY <1>2
    <2>. QED BY <2>1, BehindHeader
  <1>. QED BY <1>1, <1>2, <1>3 DEF OneMore

\* What is behind m cells and m more.
LEMMA WholeBehind ==
    ASSUME NEW S, NEW s \in Seq(S), NEW k \in 0 .. Len(s), NEW m \in Nat, NEW item
    PROVE  Whole(item, From(s, k), m) = Whole(item, s, k + m)
  <1>1. Len(s) \in Nat /\ Len(From(s, k)) = Len(s) - k
    BY FromFacts
  <1>2. CASE m <= Len(s) - k
    <2>1. From(From(s, k), m) = From(s, k + m) /\ k + m <= Len(s)
      BY <1>1, <1>2, FromFrom
    <2>. QED BY <1>1, <1>2, <2>1 DEF Whole
  <1>3. CASE ~(m <= Len(s) - k)
    <2>1. ~(k + m <= Len(s))
      BY <1>1, <1>3
    <2>. QED BY <1>1, <1>3, <2>1 DEF Whole
  <1>. QED BY <1>2, <1>3

\* push_value reads these cells behind a header as the item, wherever they end.
Reads(type, cookie, body, item) ==
    \A t \in Seq(Cell) : Begins(t, body) => PushValue(type, cookie, t) = Whole(item, t, Len(body))

\* An item is read when push_value reads what follows its header.
LEMMA ReadBehindHeader ==
    ASSUME NEW s \in Seq(Cell), NEW type \in 0 .. 6, NEW cookie \in Cookies,
           NEW body \in Seq(Cell), NEW item, NEW c, Headed(c, type, cookie, body), Begins(s, c),
           Reads(type, cookie, body, item)
    PROVE  OneItem(s) = Whole(item, s, Len(c)) /\ c \in Seq(Cell) /\ Len(c) \in Nat \ {0}
  <1>0. /\ c \in Seq(Cell) /\ OneMore(c, body) /\ Len(body) \in Nat
        /\ s # <<>> => /\ Len(s) \in Nat \ {0} /\ TypeOf(s[1]) = type /\ CookieOf(s[1]) = cookie
                       /\ Tail(s) = From(s, 1) /\ From(s, 1) \in Seq(Cell)
                       /\ Begins(From(s, 1), body)
    BY BehindItsHeader
  <1>1. Len(c) = 1 + Len(body)
    BY <1>0 DEF OneMore
  <1>2. CASE s = <<>>
    <2>1. Len(s) = 0 /\ ~(1 + Len(body) <= Len(s))
      BY <1>0, <1>1, <1>2, EmptySeq
    <2>. QED BY <1>0, <1>1, <1>2, <2>1 DEF OneItem, Whole
  <1>3. CASE s # <<>>
    <2>1. OneItem(s) = PushValue(type, cookie, From(s, 1))
      BY <1>0, <1>1, <1>3 DEF OneItem
    <2>2. PushValue(type, cookie, From(s, 1)) = Whole(item, From(s, 1), Len(body))
      BY <1>0, <1>1, <1>3 DEF Reads
    <2>3. Whole(item, From(s, 1), Len(body)) = Whole(item, s, 1 + Len(body))
      <3>1. 1 \in 0 .. Len(s)
        BY <1>0, <1>1, <1>3
      <3>. QED BY <1>0, <1>1, <3>1, WholeBehind
    <2>. QED BY <1>0, <1>1, <2>1, <2>2, <2>3
  <1>. QED BY <1>2, <1>3

-----------------------------------------------------------------------------
(*****************************************************************************)
(* The readers of push_value.                                                *)
(*****************************************************************************)
LEMMA WholeNothing ==
    ASSUME NEW S, NEW s \in Seq(S), NEW item
    PROVE  Whole(item, s, Len(<<>>)) = Got(item, s)
  <1>1. Len(s) \in Nat /\ Len(<<>>) = 0
    BY LenProperties
  <1>. QED BY <1>1, FromNothing DEF Whole

LEMMA PushInteger ==
    ASSUME NEW S, NEW s \in Seq(S), NEW v \in Int, Fits(v, Byte4) \/ Fits(v, Byte8),
           Begins(s, IntegerDigits(v))
    PROVE  /\ GetInteger(s, Cookie(IntegerWidth(v))) = Whole(<<"integer", v>>, s, Len(IntegerDigits(v)))
           /\ PushValue(Type.number, Cookie(IntegerWidth(v)), s) = Whole(<<"integer", v>>, s, Len(IntegerDigits(v)))
  <1>. DEFINE width == IntegerWidth(v)
  <1>1. Cookie(width) # Real /\ Len(IntegerDigits(v)) = width /\ Len(s) \in Nat
    BY WidthFacts, CookieFacts, IntegerDigitsFacts, LenProperties
  <1>2. PushValue(Type.number, Cookie(width), s) = GetInteger(s, Cookie(width))
    BY <1>1 DEF PushValue, Type
  <1>3. /\ width <= Len(s) => GetInteger(s, Cookie(width)) = Got(<<"integer", v>>, From(s, width))
        /\ Len(s) < width => GetInteger(s, Cookie(width)) = Invalid
        /\ width \in Nat
    BY IntegerRead
  <1>4. GetInteger(s, Cookie(width)) = Whole(<<"integer", v>>, s, width)
    BY <1>1, <1>3 DEF Whole
  <1>. QED BY <1>1, <1>2, <1>4

LEMMA OpaqueRead ==
    ASSUME NEW S, NEW s \in Seq(S), NEW width \in {4, 8}, NEW v \in 0 .. Span(width) - 1, NEW type,
           Begins(s, Digits(v, width))
    PROVE  GetOpaque(type, s, width) = Whole(<<type, v>>, s, Len(Digits(v, width)))
  <1>1. /\ width <= Len(s) => Take(s, width) = Got(SubSeq(s, 1, width), From(s, width))
                              /\ Unsigned(SubSeq(s, 1, width), width) = v
        /\ Len(s) < width => Take(s, width) = Invalid
        /\ Len(Digits(v, width)) = width /\ Len(s) \in Nat
    <2>1. width \in {1, 2, 4, 8}
      OBVIOUS
    <2>. QED BY <2>1, NumberRead, LenProperties
  <1>2. CASE width <= Len(s)
    <2>1. ~Take(s, width).err /\ Take(s, width).v = SubSeq(s, 1, width) /\ Take(s, width).left = From(s, width)
      <3>1. Take(s, width) = Got(SubSeq(s, 1, width), From(s, width))
        BY <1>1, <1>2
      <3>. QED BY <3>1 DEF Got
    <2>. QED BY <1>1, <1>2, <2>1 DEF GetOpaque, Whole
  <1>3. CASE Len(s) < width
    <2>1. Take(s, width).err
      BY <1>1, <1>3 DEF Invalid
    <2>2. ~(width <= Len(s))
      BY <1>1, <1>3
    <2>. QED BY <1>1, <2>1, <2>2 DEF GetOpaque, Whole
  <1>. QED BY <1>1, <1>2, <1>3

LEMMA StringRead ==
    ASSUME NEW S, NEW s \in Seq(S), NEW c \in Seq(Octet), Begins(s, c)
    PROVE  GetBuffer(s, Len(c)) = Whole(<<"string", c>>, s, Len(c))
  <1>1. /\ Len(c) <= Len(s) => GetBuffer(s, Len(c)) = Got(<<"string", c>>, From(s, Len(c)))
        /\ Len(s) < Len(c) => GetBuffer(s, Len(c)) = Invalid
        /\ Len(c) \in Nat /\ Len(s) \in Nat
    BY BufferRead
  <1>. QED BY <1>1 DEF Whole

LEMMA OctetsAreCells ==
    ASSUME NEW c \in Seq(Octet)
    PROVE  c \in Seq(Cell)
  <1>1. Octet \subseteq Cell
    BY PackingAssumption DEF Octet
  <1>. QED BY <1>1, SeqMonotonic

LEMMA LongStringRead ==
    ASSUME NEW S, NEW s \in Seq(S), NEW width \in {2, 4}, NEW c \in Seq(Octet), Len(c) < Span(width),
           Begins(s, Digits(Len(c), width) \o c)
    PROVE  LongString(s, width) = Whole(<<"string", c>>, s, Len(Digits(Len(c), width) \o c))
  <1>. DEFINE n == Len(c)
              d == Digits(n, width)
  <1>1. n \in 0 .. Span(width) - 1 /\ Span(width) \in Nat /\ Len(s) \in Nat /\ n \in Nat /\ width \in Nat
    BY LenProperties, Spans DEF Span
  <1>2. d \in Seq(Octet) /\ Len(d) = width
    <2>1. n \in Int /\ width \in {1, 2, 4, 8}
      BY <1>1
    <2>. QED BY <2>1, DigitFacts
  <1>. HIDE DEF d
  <1>3. /\ Begins(s, d) /\ Len(d \o c) = width + n
        /\ width <= Len(s) => Begins(From(s, width), c)
    <2>1. Begins(s, d \o c)
      BY DEF d
    <2>. QED BY <1>2, <2>1, BeginsJoin
  <1>4. /\ width <= Len(s) => Take(s, width) = Got(SubSeq(s, 1, width), From(s, width))
                              /\ Unsigned(SubSeq(s, 1, width), width) = n
        /\ Len(s) < width => Take(s, width) = Invalid
    BY <1>1, <1>3, NumberRead DEF d
  <1>5. CASE width <= Len(s)
    <2>. DEFINE t == From(s, width)
    <2>1. ~Take(s, width).err /\ Take(s, width).v = SubSeq(s, 1, width) /\ Take(s, width).left = t
      <3>1. Take(s, width) = Got(SubSeq(s, 1, width), t)
        BY <1>4, <1>5
      <3>. QED BY <3>1 DEF Got
    <2>2. LongString(s, width) = GetBuffer(t, n)
      BY <1>4, <1>5, <2>1 DEF LongString
    <2>3. t \in Seq(S) /\ Len(t) = Len(s) - width
      BY <1>1, <1>5, FromFacts
    <2>4. GetBuffer(t, n) = Whole(<<"string", c>>, t, n)
      BY <1>3, <1>5, <2>3, StringRead
    <2>5. Whole(<<"string", c>>, t, n) = Whole(<<"string", c>>, s, width + n)
      BY <1>1, <1>5, WholeBehind
    <2>. QED BY <1>3, <2>2, <2>4, <2>5 DEF d
  <1>6. CASE Len(s) < width
    <2>1. Take(s, width).err
      BY <1>4, <1>6 DEF Invalid
    <2>2. ~(width + n <= Len(s))
      BY <1>1, <1>6
    <2>. QED BY <1>3, <2>1, <2>2 DEF LongString, Whole, d
  <1>. QED BY <1>1, <1>5, <1>6

LEMMA LongTableRead ==
    ASSUME NEW S, NEW s \in Seq(S), NEW n \in Nat, Fits(n, Byte4),
           NEW c, Headed(c, 2, Cookie(IntegerWidth(n)), IntegerDigits(n)), Begins(s, c)
    PROVE  ArraySize(s, MaxCookie - 1) = Whole(<<"table", n>>, s, Len(c)) /\ c \in Seq(Cell)
  <1>. DEFINE cookie == Cookie(IntegerWidth(n))
              d == IntegerDigits(n)
              m == Len(d)
  <1>1. cookie \in Cookies /\ cookie # Real /\ Type.number = 2
    BY WidthFacts, CookieFacts DEF Type, Cookies
  <1>2. d \in Seq(Cell)
    BY IntegerDigitsFacts, OctetsAreCells
  <1>3. /\ c \in Seq(Cell) /\ OneMore(c, d) /\ m \in Nat
        /\ s # <<>> => /\ Len(s) \in Nat \ {0} /\ TypeOf(s[1]) = Type.number /\ CookieOf(s[1]) = cookie
                       /\ Tail(s) = From(s, 1) /\ From(s, 1) \in Seq(S)
                       /\ Begins(From(s, 1), d)
    <2>1. Headed(c, Type.number, cookie, d) /\ Type.number \in 0 .. 6
      BY <1>1
    <2>. HIDE DEF cookie, d
    <2>. QED BY <1>1, <1>2, <2>1, BehindItsHeader
  <1>6. Len(c) = 1 + m
    BY <1>3 DEF OneMore
  <1>4. CASE s = <<>>
    <2>1. Len(s) = 0 /\ ~(1 + m <= Len(s))
      BY <1>3, <1>6, <1>4, EmptySeq
    <2>. QED BY <1>3, <1>6, <1>4, <2>1 DEF ArraySize, Whole
  <1>5. CASE s # <<>>
    <2>1. PICK size : size = GetInteger(From(s, 1), cookie)
      OBVIOUS
    <2>2. ArraySize(s, MaxCookie - 1) = IF size.err THEN Invalid ELSE Got(<<"table", size.v[2]>>, size.left)
      BY <1>1, <1>3, <1>5, <2>1 DEF ArraySize
    <2>3. size = Whole(<<"integer", n>>, From(s, 1), m)
      BY <1>3, <1>6, <1>5, <2>1, PushInteger
    <2>4. size = Whole(<<"integer", n>>, s, 1 + m)
      <3>1. 1 \in 0 .. Len(s)
        BY <1>3, <1>6, <1>5
      <3>. QED BY <1>3, <1>6, <2>3, <3>1, WholeBehind
    <2>. HIDE DEF m, cookie
    <2>5. CASE 1 + m <= Len(s)
      <3>1. size = Got(<<"integer", n>>, From(s, 1 + m))
        BY <2>4, <2>5 DEF Whole
      <3>2. ~size.err /\ size.v[2] = n /\ size.left = From(s, 1 + m)
        BY <3>1 DEF Got
      <3>. QED BY <1>3, <1>6, <2>2, <2>5, <3>2 DEF Whole, m, cookie
    <2>6. CASE ~(1 + m <= Len(s))
      <3>1. size = Invalid
        BY <2>4, <2>6 DEF Whole
      <3>2. size.err
        BY <3>1 DEF Invalid
      <3>. QED BY <1>3, <1>6, <2>2, <2>6, <3>2 DEF Whole, m, cookie
    <2>. QED BY <2>5, <2>6
  <1>. QED BY <1>4, <1>5

-----------------------------------------------------------------------------
(*****************************************************************************)
(* The cells of an item, wherever they end: type by type.                    *)
(*****************************************************************************)
\* The items of a message.
Item == {NilItem} \cup Scalar \cup {TableItem(n) : n \in 0 .. MaxArray}

\* The cells of a wb_push.
Run == Seq(Cell) \ {<<>>}

\* Cells that read as one item, wherever they end.
Legible(item, c) ==
    /\ c \in Seq(Cell) /\ Len(c) \in Nat \ {0}
    /\ \A s \in Seq(Cell) : Begins(s, c) => OneItem(s) = Whole(item, s, Len(c))

\* The parts of an item, and its cells.
InParts(parts, c) ==
    \/ \E p \in Run : parts = <<p>> /\ c = p
    \/ \E p, q \in Run : parts = <<p, q>> /\ c = p \o q
    \/ \E p, q, r \in Run : parts = <<p, q, r>> /\ c = p \o (q \o r)

LEMMA NothingBegins ==
    ASSUME NEW c \in Seq(Cell)
    PROVE  Begins(<<>>, c) /\ <<>> \in Seq(Cell)
  <1>1. Len(<<>>) = 0 /\ <<>> \in Seq(Cell)
    BY EmptySeq
  <1>. QED BY <1>1 DEF Begins

LEMMA LegibleBehindHeader ==
    ASSUME NEW type \in 0 .. 6, NEW cookie \in Cookies, NEW body \in Seq(Cell), NEW item,
           NEW c, Headed(c, type, cookie, body),
           Reads(type, cookie, body, item)
    PROVE  Legible(item, c)
  <1>1. \A s \in Seq(Cell) : Begins(s, c) =>
            OneItem(s) = Whole(item, s, Len(c)) /\ c \in Seq(Cell) /\ Len(c) \in Nat \ {0}
    <2>. TAKE s \in Seq(Cell)
    <2>. HAVE Begins(s, c)
    <2>. QED BY ReadBehindHeader
  <1>2. c \in Seq(Cell)
    BY HeaderFacts, ConcatProperties DEF Headed
  <1>3. Len(c) \in Nat \ {0}
    BY <1>1, <1>2, NothingBegins
  <1>. QED BY <1>1, <1>2, <1>3 DEF Legible

LEMMA LegibleHeader ==
    ASSUME NEW type \in 0 .. 6, NEW cookie \in Cookies, NEW item, Reads(type, cookie, <<>>, item)
    PROVE  Legible(item, Header(type, cookie))
  <1>. PICK c : c = Header(type, cookie)
    OBVIOUS
  <1>. PICK body \in Seq(Cell) : body = <<>>
    BY NothingBegins, HeaderFacts
  <1>1. Headed(c, type, cookie, body) /\ Reads(type, cookie, body, item)
    BY HeaderFacts, ConcatEmptySeq DEF Headed
  <1>2. Legible(item, c)
    BY <1>1, LegibleBehindHeader
  <1>. QED BY <1>2

LEMMA JoinedFacts ==
    /\ \A p : Joined(<<p>>) = p
    /\ \A p, q : Joined(<<p, q>>) = p \o q
    /\ \A p, q, r : Joined(<<p, q, r>>) = p \o (q \o r)
  BY DEF Joined

LEMMA HeaderRun ==
    ASSUME NEW type \in 0 .. 6, NEW cookie \in Cookies
    PROVE  Header(type, cookie) \in Run /\ Header(type, cookie) \o <<>> = Header(type, cookie)
  <1>1. Header(type, cookie) \in Seq(Cell) /\ Len(Header(type, cookie)) = 1
    BY HeaderFacts
  <1>. QED BY <1>1, EmptySeq, ConcatEmptySeq DEF Run

LEMMA RunFacts ==
    ASSUME NEW c \in Seq(Octet), Len(c) # 0
    PROVE  c \in Run
  BY OctetsAreCells, EmptySeq DEF Run

LEMMA NilLegible ==
    /\ Legible(<<"nil">>, Cells(<<"nil">>)) /\ InParts(Parts(<<"nil">>), Cells(<<"nil">>))
    /\ Len(Cells(<<"nil">>)) = 1
  <1>. DEFINE h == Header(0, 0)
  <1>1. h \in Run /\ h \o <<>> = h /\ Len(h) = 1 /\ <<>> \in Seq(Cell) /\ 0 \in Cookies
    <2>1. 0 \in Cookies
      BY DEF Cookies
    <2>. QED BY <2>1, HeaderRun, HeaderFacts, EmptySeq
  <1>2. Parts(<<"nil">>) = <<h>>
    BY DEF Parts, Type
  <1>. HIDE DEF h
  <1>3. Cells(<<"nil">>) = h
    BY <1>2, JoinedFacts DEF Cells
  <1>4. Reads(0, 0, <<>>, <<"nil">>)
    BY WholeNothing DEF Reads, PushValue, Type, Nil
  <1>5. Legible(<<"nil">>, h)
    BY <1>1, <1>4, LegibleHeader DEF h
  <1>. QED BY <1>1, <1>2, <1>3, <1>5 DEF InParts

LEMMA BooleanLegible ==
    ASSUME NEW b \in BOOLEAN
    PROVE  LET item == <<"boolean", b>> IN Legible(item, Cells(item)) /\ InParts(Parts(item), Cells(item))
  <1>. DEFINE item == <<"boolean", b>>
  <1>. PICK cookie \in {0, 1} : cookie = (IF b THEN 1 ELSE 0)
    OBVIOUS
  <1>. DEFINE h == Header(1, cookie)
  <1>1. cookie \in Cookies
    BY DEF Cookies
  <1>2. h \in Run /\ h \o <<>> = h /\ <<>> \in Seq(Cell)
    BY <1>1, HeaderRun, EmptySeq
  <1>3. Parts(item) = <<h>>
    BY DEF Parts, Type
  <1>. HIDE DEF h
  <1>4. Cells(item) = h
    BY <1>3, JoinedFacts DEF Cells
  <1>5. Reads(1, cookie, <<>>, item)
    <2>1. \A t \in Seq(Cell) : PushValue(1, cookie, t) = Got(<<"boolean", cookie # 0>>, t)
      BY DEF PushValue, Type
    <2>2. (cookie # 0) = b
      OBVIOUS
    <2>. QED BY <2>1, <2>2, WholeNothing DEF Reads
  <1>. HIDE DEF item
  <1>6. Legible(item, h)
    BY <1>1, <1>2, <1>5, LegibleHeader DEF h
  <1>. QED BY <1>2, <1>3, <1>4, <1>6 DEF InParts, item

LEMMA IntegerPartsFacts ==
    ASSUME NEW v \in Int
    PROVE  LET h == Header(2, Cookie(IntegerWidth(v)))
               d == IntegerDigits(v)
           IN  /\ h \in Run /\ Cookie(IntegerWidth(v)) \in Cookies /\ d \in Seq(Cell) /\ Len(d) = IntegerWidth(v)
               /\ v = 0 => IntegerParts(v) = <<h>> /\ h = h \o d
               /\ v # 0 => IntegerParts(v) = <<h, d>> /\ d \in Run
  <1>. DEFINE width == IntegerWidth(v)
              h == Header(2, Cookie(width))
              d == IntegerDigits(v)
  <1>1. Cookie(width) \in Cookies /\ width \in {0, 1, 2, 4, 8} /\ (width = 0 <=> v = 0)
    BY WidthFacts, CookieFacts DEF Cookies
  <1>2. h \in Run /\ h \o <<>> = h
    BY <1>1, HeaderRun
  <1>3. d \in Seq(Octet) /\ d \in Seq(Cell) /\ Len(d) = width
    BY IntegerDigitsFacts, OctetsAreCells
  <1>4. CASE v = 0
    <2>1. width = 0 /\ d = <<>> /\ Cookie(width) = 0
      BY <1>1, <1>4 DEF IntegerDigits, Cookie
    <2>2. IntegerParts(v) = <<h>>
      BY <2>1 DEF IntegerParts, Type
    <2>. QED BY <1>1, <1>2, <1>3, <1>4, <2>1, <2>2
  <1>5. CASE v # 0
    BY <1>1, <1>2, <1>3, <1>5, RunFacts DEF IntegerParts, IntegerDigits, Type
  <1>. QED BY <1>1, <1>2, <1>3, <1>4, <1>5

LEMMA IntegerLegible ==
    ASSUME NEW v \in Int, Fits(v, Byte8)
    PROVE  LET item == <<"integer", v>> IN Legible(item, Cells(item)) /\ InParts(Parts(item), Cells(item))
  <1>. DEFINE item == <<"integer", v>>
              cookie == Cookie(IntegerWidth(v))
              h == Header(2, cookie)
              d == IntegerDigits(v)
  <1>1. /\ h \in Run /\ cookie \in Cookies /\ d \in Seq(Cell)
        /\ v = 0 => IntegerParts(v) = <<h>> /\ h = h \o d
        /\ v # 0 => IntegerParts(v) = <<h, d>> /\ d \in Run
    BY IntegerPartsFacts
  <1>2. Parts(item) = IntegerParts(v)
    BY DEF Parts
  <1>3. Reads(2, cookie, d, item)
    BY PushInteger DEF Reads, Type
  <1>. HIDE DEF h, d, item, cookie
  <1>4. Cells(item) = h \o d
    <2>1. CASE v = 0
      BY <1>1, <1>2, <2>1, JoinedFacts DEF Cells
    <2>2. CASE v # 0
      <3>1. Parts(item) = <<h, d>>
        BY <1>1, <1>2, <2>2
      <3>. QED BY <3>1, JoinedFacts DEF Cells
    <2>. QED BY <2>1, <2>2
  <1>5. Legible(item, Cells(item))
    <2>1. Headed(Cells(item), 2, cookie, d)
      BY <1>4 DEF h, Headed
    <2>. QED BY <1>1, <1>3, <2>1, LegibleBehindHeader
  <1>6. InParts(Parts(item), Cells(item))
    BY <1>1, <1>2, <1>4 DEF InParts
  <1>. QED BY <1>5, <1>6 DEF item

LEMMA DigitRun ==
    ASSUME NEW width \in {2, 4, 8}, NEW v \in Nat
    PROVE  Digits(v, width) \in Run /\ Digits(v, width) \in Seq(Octet)
  <1>1. Digits(v, width) \in Seq(Octet) /\ Len(Digits(v, width)) = width
    <2>1. width \in {1, 2, 4, 8} /\ v \in Int
      OBVIOUS
    <2>. QED BY <2>1, DigitFacts
  <1>2. Digits(v, width) \in Seq(Cell) /\ Digits(v, width) # <<>>
    BY <1>1, OctetsAreCells, EmptySeq
  <1>. QED BY <1>1, <1>2 DEF Run

\* An item of a header and one part more.
LEMMA LegibleInTwo ==
    ASSUME NEW type \in 0 .. 6, NEW cookie \in Cookies, NEW d \in Run, NEW item,
           Parts(item) = <<Header(type, cookie), d>>, Reads(type, cookie, d, item)
    PROVE  Legible(item, Cells(item)) /\ InParts(Parts(item), Cells(item))
  <1>. PICK h \in Run : h = Header(type, cookie)
    BY HeaderRun
  <1>1. Cells(item) = h \o d /\ Parts(item) = <<h, d>>
    BY JoinedFacts DEF Cells
  <1>2. Headed(Cells(item), type, cookie, d) /\ d \in Seq(Cell)
    BY <1>1 DEF Headed, Run
  <1>. QED BY <1>1, <1>2, LegibleBehindHeader DEF InParts

\* An item of a header and two parts more.
LEMMA LegibleInThree ==
    ASSUME NEW type \in 0 .. 6, NEW cookie \in Cookies, NEW d \in Run, NEW e \in Run, NEW item,
           Parts(item) = <<Header(type, cookie), d, e>>,
           Reads(type, cookie, d \o e, item)
    PROVE  Legible(item, Cells(item)) /\ InParts(Parts(item), Cells(item))
  <1>. PICK h \in Run : h = Header(type, cookie)
    BY HeaderRun
  <1>1. Parts(item) = <<h, d, e>>
    OBVIOUS
  <1>2. Cells(item) = h \o (d \o e)
    BY <1>1 DEF Cells, Joined
  <1>3. Headed(Cells(item), type, cookie, d \o e) /\ d \o e \in Seq(Cell)
    BY <1>2, ConcatProperties DEF Headed, Run
  <1>4. Legible(item, Cells(item))
    BY <1>3, LegibleBehindHeader
  <1>. QED BY <1>1, <1>2, <1>4 DEF InParts

LEMMA OpaqueLegible ==
    /\ \A r \in 0 .. Byte8 - 1 :
        LET item == <<"real", r>> IN Legible(item, Cells(item)) /\ InParts(Parts(item), Cells(item))
    /\ \A p \in 0 .. Byte4 - 1 :
        LET item == <<"pointer", p>> IN Legible(item, Cells(item)) /\ InParts(Parts(item), Cells(item))
  <1>1. ASSUME NEW r \in 0 .. Byte8 - 1
        PROVE  LET item == <<"real", r>> IN Legible(item, Cells(item)) /\ InParts(Parts(item), Cells(item))
    <2>. DEFINE item == <<"real", r>>
                d == Digits(r, 8)
    <2>1. r \in 0 .. Span(8) - 1 /\ 8 \in Cookies
      BY DEF Span, Cookies
    <2>2. d \in Run
      BY DigitRun
    <2>3. Parts(item) = <<Header(2, 8), d>>
      BY DEF Parts, Type, Real
    <2>4. Reads(2, 8, d, item)
      BY <2>1, OpaqueRead DEF Reads, PushValue, Type, Real
    <2>. HIDE DEF d, item
    <2>5. Legible(item, Cells(item)) /\ InParts(Parts(item), Cells(item))
      BY <2>1, <2>2, <2>3, <2>4, LegibleInTwo
    <2>. QED BY <2>5 DEF item
  <1>2. ASSUME NEW p \in 0 .. Byte4 - 1
        PROVE  LET item == <<"pointer", p>> IN Legible(item, Cells(item)) /\ InParts(Parts(item), Cells(item))
    <2>. DEFINE item == <<"pointer", p>>
                d == Digits(p, 4)
    <2>1. p \in 0 .. Span(4) - 1 /\ 0 \in Cookies
      BY DEF Span, Cookies
    <2>2. d \in Run
      BY DigitRun
    <2>3. Parts(item) = <<Header(3, 0), d>>
      BY DEF Parts, Type, PointerWidth
    <2>4. Reads(3, 0, d, item)
      BY <2>1, OpaqueRead DEF Reads, PushValue, Type, PointerWidth
    <2>. HIDE DEF d, item
    <2>5. Legible(item, Cells(item)) /\ InParts(Parts(item), Cells(item))
      BY <2>1, <2>2, <2>3, <2>4, LegibleInTwo
    <2>. QED BY <2>5 DEF item
  <1>. QED BY <1>1, <1>2

LEMMA StringLegible ==
    ASSUME NEW s \in Seq(Octet), Len(s) < Byte4
    PROVE  LET item == <<"string", s>> IN Legible(item, Cells(item)) /\ InParts(Parts(item), Cells(item))
  <1>. DEFINE item == <<"string", s>>
              n == Len(s)
  <1>1. n \in Nat /\ Parts(item) = StringParts(s) /\ s \in Seq(Cell)
    BY OctetsAreCells, LenProperties DEF Parts
  <1>2. CASE s = <<>>
    <2>1. Parts(item) = <<Header(4, 0)>> /\ 0 \in Cookies
      BY <1>1, <1>2 DEF StringParts, Type, Cookies
    <2>2. Reads(4, 0, <<>>, item)
      <3>1. \A t \in Seq(Cell) : Begins(t, s) => GetBuffer(t, Len(s)) = Whole(item, t, Len(s))
        BY StringRead
      <3>2. Len(s) = 0
        BY <1>2, EmptySeq
      <3>3. \A t \in Seq(Cell) : PushValue(4, 0, t) = GetBuffer(t, Len(s))
        BY <3>2 DEF PushValue, Type
      <3>. QED BY <1>2, <3>1, <3>3 DEF Reads
    <2>. HIDE DEF item
    <2>3. Cells(item) = Header(4, 0)
      BY <2>1, JoinedFacts DEF Cells
    <2>4. Legible(item, Cells(item)) /\ InParts(Parts(item), Cells(item))
      BY <2>1, <2>2, <2>3, LegibleHeader, HeaderRun DEF InParts
    <2>. QED BY <2>4 DEF item
  <1>3. CASE s # <<>> /\ n < MaxCookie
    <2>1. Parts(item) = <<Header(4, n), s>> /\ n \in Cookies /\ s \in Run
      BY <1>1, <1>3, ItemsAssumption DEF StringParts, Type, Cookies, Run
    <2>2. Reads(4, n, s, item)
      BY StringRead DEF Reads, PushValue, Type
    <2>. HIDE DEF item, n
    <2>3. Legible(item, Cells(item)) /\ InParts(Parts(item), Cells(item))
      BY <2>1, <2>2, LegibleInTwo
    <2>. QED BY <2>3 DEF item
  <1>4. CASE s # <<>> /\ ~(n < MaxCookie)
    <2>. PICK width \in {2, 4} : width = (IF n < Byte2 THEN 2 ELSE 4)
      OBVIOUS
    <2>. DEFINE d == Digits(n, width)
    <2>1. Parts(item) = <<Header(5, width), d, s>> /\ width \in Cookies /\ s \in Run
      BY <1>1, <1>4 DEF StringParts, Type, Cookies, Run
    <2>2. d \in Run
      BY <1>1, DigitRun
    <2>3. n < Span(width)
      BY <1>1 DEF Span
    <2>4. Reads(5, width, d \o s, item)
      <3>1. \A t \in Seq(Cell) : Begins(t, d \o s) => LongString(t, width) = Whole(item, t, Len(d \o s))
        BY <2>3, LongStringRead
      <3>2. \A t \in Seq(Cell) : PushValue(5, width, t) = LongString(t, width)
        BY DEF PushValue, Type
      <3>. HIDE DEF d, item
      <3>. QED BY <3>1, <3>2 DEF Reads
    <2>. HIDE DEF item, d
    <2>5. Legible(item, Cells(item)) /\ InParts(Parts(item), Cells(item))
      BY <2>1, <2>2, <2>4, LegibleInThree
    <2>. QED BY <2>5 DEF item
  <1>. QED BY <1>2, <1>3, <1>4

LEMMA FitsBelow ==
    ASSUME NEW n \in 0 .. MaxArray
    PROVE  Fits(n, Byte4)
  <1>1. MaxArray \in Nat /\ Byte4 \in Nat \ {0} /\ n \in Nat
    BY StreamAssumption, Spans
  <1>2. MaxArray % Byte4 \in 0 .. Byte4 - 1
    BY <1>1
  <1>3. 2 * MaxArray < Byte4
    BY <1>1, <1>2, PackingAssumption DEF Fits, AsSigned
  <1>4. n % Byte4 = n
    <2>1. n = Byte4 * 0 + n /\ n \in 0 .. Byte4 - 1
      BY <1>1, <1>3
    <2>. QED BY <1>1, <1>3
  <1>. QED BY <1>1, <1>3, <1>4 DEF Fits, AsSigned

LEMMA OneAndTwo ==
    ASSUME NEW h, NEW d, NEW e
    PROVE  <<h>> \o <<d, e>> = <<h, d, e>>
  <1>. DEFINE S == {h, d, e}
  <1>1. <<h>> \in Seq(S) /\ <<d, e>> \in Seq(S) /\ <<h, d, e>> \in Seq(S)
    OBVIOUS
  <1>2. <<h>> \o <<d, e>> \in Seq(S) /\ Len(<<h>> \o <<d, e>>) = 3 /\ Len(<<h, d, e>>) = 3
    OBVIOUS
  <1>3. \A i \in 1 .. 3 : (<<h>> \o <<d, e>>)[i] = <<h, d, e>>[i]
    OBVIOUS
  <1>. HIDE DEF S
  <1>. QED BY <1>1, <1>2, <1>3, SeqEqual

LEMMA TableLegible ==
    ASSUME NEW n \in 0 .. MaxArray
    PROVE  LET item == <<"table", n>> IN Legible(item, Cells(item)) /\ InParts(Parts(item), Cells(item))
  <1>. DEFINE item == <<"table", n>>
  <1>1. n \in Nat /\ Parts(item) = TableParts(n) /\ MaxCookie - 1 \in Nat \ {0}
    BY StreamAssumption, ItemsAssumption DEF Parts
  <1>2. CASE n < MaxCookie - 1
    <2>1. Parts(item) = <<Header(6, n)>> /\ n \in Cookies /\ n # MaxCookie - 1
      BY <1>1, <1>2 DEF TableParts, Type, Cookies
    <2>2. Reads(6, n, <<>>, item)
      <3>1. \A t \in Seq(Cell) : PushValue(6, n, t) = Got(item, t)
        BY <2>1 DEF PushValue, ArraySize, Type
      <3>. QED BY <3>1, WholeNothing DEF Reads
    <2>. HIDE DEF item
    <2>3. Cells(item) = Header(6, n)
      BY <2>1, JoinedFacts DEF Cells
    <2>4. Legible(item, Cells(item)) /\ InParts(Parts(item), Cells(item))
      BY <2>1, <2>2, <2>3, LegibleHeader, HeaderRun DEF InParts
    <2>. QED BY <2>4 DEF item
  <1>3. CASE ~(n < MaxCookie - 1)
    <2>. DEFINE cookie == Cookie(IntegerWidth(n))
    <2>1. n # 0 /\ n \in Int /\ MaxCookie - 1 \in Cookies
      <3>1. n # 0 /\ n \in Int
        BY <1>3, ItemsAssumption
      <3>2. MaxCookie - 1 \in 0 .. MaxCookie - 1
        BY <1>1
      <3>. QED BY <3>1, <3>2 DEF Cookies
    <2>2. Fits(n, Byte4)
      BY <1>1, FitsBelow
    <2>. PICK e \in Run : e = IntegerDigits(n) /\ IntegerParts(n) = <<Header(2, cookie), e>> /\ cookie \in Cookies
      BY <2>1, IntegerPartsFacts
    <2>. HIDE DEF cookie
    <2>. PICK d \in Run : d = Header(2, cookie)
      BY HeaderRun
    <2>3. Parts(item) = <<Header(6, MaxCookie - 1), d, e>>
      <3>1. TableParts(n) = <<Header(6, MaxCookie - 1)>> \o IntegerParts(n)
        BY <1>1, <1>3 DEF TableParts, Type
      <3>. QED BY <1>1, <3>1, OneAndTwo
    <2>4. Reads(6, MaxCookie - 1, d \o e, item)
      <3>1. Headed(d \o e, 2, cookie, e)
        BY DEF Headed
      <3>2. \A t \in Seq(Cell) : Begins(t, d \o e) => ArraySize(t, MaxCookie - 1) = Whole(item, t, Len(d \o e))
        BY <1>1, <2>2, <3>1, LongTableRead DEF cookie
      <3>3. \A t \in Seq(Cell) : PushValue(6, MaxCookie - 1, t) = ArraySize(t, MaxCookie - 1)
        BY DEF PushValue, Type
      <3>. HIDE DEF item
      <3>. QED BY <3>2, <3>3 DEF Reads
    <2>. HIDE DEF item
    <2>5. Legible(item, Cells(item)) /\ InParts(Parts(item), Cells(item))
      BY <2>1, <2>3, <2>4, LegibleInThree
    <2>. QED BY <2>5 DEF item
  <1>. QED BY <1>1, <1>2, <1>3

-----------------------------------------------------------------------------
(***************************************************************************)
(* The inductive invariant.                                                *)
(***************************************************************************)
Frame == {f \in [size : 0 .. MaxArray, done : Nat, keyed : BOOLEAN] :
            f.done <= f.size /\ (f.keyed => f.done = f.size)}

Places == [kind : {"argument", "element", "key", "value"}, depth : Nat, index : Nat]

StreamOK ==
    /\ status \in {"writing", "failed", "reading", "done", "invalid"}
    /\ stack \in Seq(Frame) /\ open \in Seq(Frame)
    /\ sent \in Seq([item : Item, place : Places, after : Seq(Frame)])
    /\ got \in Seq([item : Item, place : Places])
    /\ cut \in Nat /\ torn \in BOOLEAN

\* The writer's stack when it had written i items.
After(i) == IF i = 0 THEN <<>> ELSE sent[i].after

\* One who reads the items from the beginning goes through the writer's stacks.
Followed ==
    /\ stack = After(Len(sent))
    /\ \A i \in 1 .. Len(sent) :
        /\ sent[i].place = Place(After(i - 1))
        /\ sent[i].after = ReadInto(After(i - 1), sent[i].item)
        /\ Len(sent[i].after) <= MaxDepth + 1

\* The reader has the stack that the writer had at the same item.
Following ==
    /\ Len(got) <= cut /\ cut <= Len(sent)
    /\ open = After(Len(got))
    /\ \A i \in 1 .. Len(got) : got[i].item = sent[i].item /\ got[i].place = sent[i].place
    /\ status = "writing" => got = <<>> /\ cut = 0
    /\ status \in {"done", "invalid"} => Len(got) = cut
    /\ status = "done" => open = <<>> /\ ~torn
    /\ status = "invalid" => open # <<>> \/ torn

StreamInv == StreamOK /\ Followed /\ Following

-----------------------------------------------------------------------------
(***************************************************************************)
(* Lemmas on sequences and stacks.                                         *)
(***************************************************************************)
LEMMA AppendFacts ==
    ASSUME NEW S, NEW q \in Seq(S), NEW x \in S
    PROVE  /\ Append(q, x) \in Seq(S) /\ Len(Append(q, x)) = Len(q) + 1 /\ Len(q) \in Nat
           /\ Append(q, x)[Len(q) + 1] = x
           /\ \A i \in 1 .. Len(q) : Append(q, x)[i] = q[i]
  OBVIOUS

LEMMA Elements ==
    ASSUME NEW S, NEW q \in Seq(S), NEW i \in 1 .. Len(q)
    PROVE  q[i] \in S
  OBVIOUS

LEMMA NoItems ==
    ASSUME NEW S
    PROVE  /\ <<>> \in Seq(S) /\ Len(<<>>) = 0
           /\ \A q \in Seq(S) : Len(q) \in Nat /\ (q # <<>> => Len(q) > 0 /\ q[Len(q)] \in S)
  OBVIOUS

LEMMA OuterFacts ==
    ASSUME NEW S, NEW q \in Seq(S), q # <<>>
    PROVE  Outer(q) \in Seq(S) /\ Len(Outer(q)) = Len(q) - 1
  BY DEF Outer

LEMMA LastFacts ==
    ASSUME NEW S, NEW q \in Seq(S), q # <<>>, NEW x \in S
    PROVE  [q EXCEPT ![Len(q)] = x] \in Seq(S) /\ Len([q EXCEPT ![Len(q)] = x]) = Len(q)
  OBVIOUS

LEMMA KindFacts ==
    ASSUME NEW s \in Seq(Frame)
    PROVE  /\ Kind(s) \in {"argument", "element", "key", "value"}
           /\ Kind(s) = "argument" <=> s = <<>>
           /\ s # <<>> => Innermost(s) \in Frame
           /\ Place(s) \in Places
  <1>1. s # <<>> => Innermost(s) \in Frame
    BY NoItems DEF Innermost
  <1>2. Kind(s) \in {"argument", "element", "key", "value"} /\ (Kind(s) = "argument" <=> s = <<>>)
    BY DEF Kind
  <1>3. Len(s) \in Nat
    BY NoItems
  <1>4. (IF Kind(s) = "element" THEN Innermost(s).done + 1 ELSE 0) \in Nat
    BY <1>1, <1>2 DEF Frame
  <1>. QED BY <1>1, <1>2, <1>3, <1>4 DEF Place, Places

LEMMA FurtherFacts ==
    ASSUME NEW f \in Frame
    PROVE  Further(f) \in Frame
  <1>. DEFINE g == Further(f)
  <1>1. /\ f \in [size : 0 .. MaxArray, done : Nat, keyed : BOOLEAN] /\ f.size \in Nat
        /\ f.done <= f.size /\ (f.keyed => f.done = f.size)
    BY StreamAssumption DEF Frame
  <1>2. CASE f.done < f.size
    <2>1. g = [f EXCEPT !.done = f.done + 1]
      BY <1>2 DEF Further
    <2>. HIDE DEF g
    <2>2. g \in [size : 0 .. MaxArray, done : Nat, keyed : BOOLEAN]
      BY <1>1, <2>1
    <2>3. g.done = f.done + 1 /\ g.size = f.size /\ g.keyed = f.keyed
      BY <1>1, <2>1
    <2>4. g \in Frame
      BY <1>1, <1>2, <2>2, <2>3 DEF Frame
    <2>. QED BY <2>4 DEF g
  <1>3. CASE ~(f.done < f.size)
    <2>1. g = [f EXCEPT !.keyed = ~f.keyed]
      BY <1>3 DEF Further
    <2>. HIDE DEF g
    <2>2. g \in [size : 0 .. MaxArray, done : Nat, keyed : BOOLEAN]
      BY <1>1, <2>1
    <2>3. g.done = f.done /\ g.size = f.size
      BY <1>1, <2>1
    <2>4. f.done = f.size
      BY <1>1, <1>3
    <2>5. g \in Frame
      BY <2>2, <2>3, <2>4, <1>1 DEF Frame
    <2>. QED BY <2>5 DEF g
  <1>. QED BY <1>2, <1>3

\* A value that is through leaves a proper frame: an element more in the array part,
\* or the other half of a pair behind it.
LEMMA AdvanceFacts ==
    ASSUME NEW s \in Seq(Frame)
    PROVE  Advance(s) \in Seq(Frame) /\ Len(Advance(s)) = Len(s)
  <1>1. CASE s = <<>>
    BY <1>1 DEF Advance, Kind
  <1>2. CASE s # <<>>
    <2>1. s[Len(s)] \in Frame
      BY <1>2, NoItems
    <2>2. Further(s[Len(s)]) \in Frame
      BY <2>1, FurtherFacts
    <2>. QED BY <1>2, <2>2, LastFacts DEF Advance
  <1>. QED BY <1>1, <1>2

\* What one item does to a recursion.
LEMMA ReadIntoFacts ==
    ASSUME NEW s \in Seq(Frame), NEW item \in Item
    PROVE  /\ ReadInto(s, item) \in Seq(Frame)
           /\ item[1] = "nil" /\ Kind(s) = "key" => Len(ReadInto(s, item)) = Len(s) - 1
           /\ ~(item[1] = "nil" /\ Kind(s) = "key") => Len(ReadInto(s, item)) <= Len(s) + 1
  <1>1. Advance(s) \in Seq(Frame) /\ Len(Advance(s)) = Len(s) /\ Len(s) \in Nat
    BY AdvanceFacts, NoItems
  <1>2. CASE item[1] = "nil" /\ Kind(s) = "key"
    BY <1>2, KindFacts, OuterFacts DEF ReadInto
  <1>3. CASE ~(item[1] = "nil" /\ Kind(s) = "key") /\ item[1] = "table"
    <2>1. item[2] \in 0 .. MaxArray
      BY <1>3, StreamAssumption DEF Item, NilItem, TableItem
    <2>2. Table(item[2]) \in Frame
      BY <2>1 DEF Table, Frame
    <2>. QED BY <1>1, <1>3, <2>2, AppendFacts DEF ReadInto
  <1>4. CASE ~(item[1] = "nil" /\ Kind(s) = "key") /\ item[1] # "table"
    BY <1>1, <1>4 DEF ReadInto
  <1>. QED BY <1>2, <1>3, <1>4

LEMMA AfterFacts ==
    ASSUME StreamInv, NEW i \in 0 .. Len(sent)
    PROVE  After(i) \in Seq(Frame) /\ Len(After(i)) <= MaxDepth + 1
  <1>1. CASE i = 0
    BY <1>1, NoItems, StreamAssumption DEF After
  <1>2. CASE i # 0
    <2>1. i \in 1 .. Len(sent)
      BY <1>2
    <2>2. sent[i] \in [item : Item, place : Places, after : Seq(Frame)]
      BY <2>1, Elements DEF StreamInv, StreamOK
    <2>. QED BY <1>2, <2>1, <2>2 DEF After, StreamInv, Followed
  <1>. QED BY <1>1, <1>2

-----------------------------------------------------------------------------
(***************************************************************************)
(* The steps of the writer: what it means by an item is what the reader    *)
(* will make of it.                                                        *)
(***************************************************************************)
LEMMA WriteKeeps ==
    ASSUME StreamInv, NEW item \in Item, WriteItem(item, ReadInto(stack, item)),
           Len(ReadInto(stack, item)) <= MaxDepth + 1
    PROVE  StreamInv'
  <1>. DEFINE e == [item |-> item, place |-> Place(stack), after |-> ReadInto(stack, item)]
  <1>1. stack \in Seq(Frame) /\ ReadInto(stack, item) \in Seq(Frame) /\ Place(stack) \in Places
    BY KindFacts, ReadIntoFacts DEF StreamInv, StreamOK
  <1>2. e \in [item : Item, place : Places, after : Seq(Frame)]
    BY <1>1
  <1>3. sent' = Append(sent, e) /\ stack' = e.after
    BY DEF WriteItem
  <1>4. e.item = item /\ e.place = Place(stack) /\ e.after = ReadInto(stack, item)
    OBVIOUS
  <1>. HIDE DEF e
  <1>5. /\ sent' \in Seq([item : Item, place : Places, after : Seq(Frame)])
        /\ Len(sent') = Len(sent) + 1 /\ Len(sent) \in Nat /\ sent'[Len(sent) + 1] = e
        /\ \A i \in 1 .. Len(sent) : sent'[i] = sent[i]
    BY <1>2, <1>3, AppendFacts DEF StreamInv, StreamOK
  <1>6. \A i \in 0 .. Len(sent) : After(i)' = After(i)
    BY <1>5 DEF After
  <1>7. status = "writing" /\ UNCHANGED <<status, cut, torn, open, got>>
    BY DEF WriteItem
  <1>8. StreamOK'
    BY <1>1, <1>3, <1>4, <1>5, <1>7 DEF StreamInv, StreamOK
  <1>9. Followed'
    <2>1. stack' = After(Len(sent))'
      BY <1>3, <1>5 DEF After
    <2>2. ASSUME NEW i \in 1 .. Len(sent')
          PROVE  /\ sent'[i].place = Place(After(i - 1)')
                 /\ sent'[i].after = ReadInto(After(i - 1)', sent'[i].item)
                 /\ Len(sent'[i].after) <= MaxDepth + 1
      <3>1. i - 1 \in 0 .. Len(sent) /\ After(i - 1)' = After(i - 1)
        BY <1>5, <1>6
      <3>2. CASE i = Len(sent) + 1
        <4>1. sent'[i] = e /\ After(i - 1) = stack
          BY <1>5, <3>2 DEF StreamInv, Followed
        <4>. QED BY <1>4, <3>1, <4>1
      <3>3. CASE i # Len(sent) + 1
        <4>1. i \in 1 .. Len(sent) /\ sent'[i] = sent[i]
          BY <1>5, <3>3
        <4>. QED BY <3>1, <4>1 DEF StreamInv, Followed
      <3>. QED BY <3>2, <3>3
    <2>. QED BY <2>1, <2>2 DEF Followed
  <1>10. Following'
    <2>1. Len(got) = 0 /\ got' = <<>> /\ cut' = 0 /\ Len(got') = 0
      BY <1>7, NoItems DEF StreamInv, Following
    <2>2. open' = After(Len(got))'
      BY <1>7, <2>1 DEF StreamInv, Following, After
    <2>. QED BY <1>5, <1>7, <2>1, <2>2 DEF StreamInv, Following
  <1>. QED BY <1>8, <1>9, <1>10 DEF StreamInv

LEMMA WriterSteps ==
    ASSUME StreamInv,
           \/ \E v \in Scalar : WriteScalar(v)
           \/ \E n \in 0 .. MaxArray : WriteTable(n)
           \/ WriteNil \/ WriteEnd
    PROVE  StreamInv'
  <1>1. stack \in Seq(Frame) /\ Len(stack) \in Nat /\ MaxDepth \in Nat
    BY NoItems, StreamAssumption DEF StreamInv, StreamOK
  <1>2. ASSUME NEW item \in Item, Len(stack) <= MaxDepth, WriteItem(item, ReadInto(stack, item))
        PROVE  StreamInv'
    BY <1>1, <1>2, ReadIntoFacts, NoItems, WriteKeeps
  <1>3. CASE \E v \in Scalar : WriteScalar(v)
    <2>1. PICK v \in Scalar : WriteScalar(v)
      BY <1>3
    <2>2. v \in Item /\ ReadInto(stack, v) = Advance(stack)
      BY StreamAssumption DEF Item, ReadInto
    <2>. QED BY <1>2, <2>1, <2>2 DEF WriteScalar
  <1>4. CASE \E n \in 0 .. MaxArray : WriteTable(n)
    <2>1. PICK n \in 0 .. MaxArray : WriteTable(n)
      BY <1>4
    <2>2. /\ TableItem(n) \in Item
          /\ ReadInto(stack, TableItem(n)) = Append(Advance(stack), Table(n))
      BY DEF Item, TableItem, ReadInto
    <2>. QED BY <1>2, <2>1, <2>2 DEF WriteTable
  <1>5. CASE WriteNil
    <2>1. NilItem \in Item /\ ReadInto(stack, NilItem) = Advance(stack)
      BY <1>5 DEF Item, NilItem, ReadInto, WriteNil
    <2>. QED BY <1>2, <1>5, <2>1 DEF WriteNil
  <1>6. CASE WriteEnd
    <2>1. NilItem \in Item /\ ReadInto(stack, NilItem) = Outer(stack)
      BY <1>6 DEF Item, NilItem, ReadInto, WriteEnd
    <2>2. Len(Outer(stack)) = Len(stack) - 1 /\ Len(stack) <= MaxDepth + 1
      <3>1. stack # <<>> /\ stack = After(Len(sent)) /\ Len(sent) \in 0 .. Len(sent)
        BY <1>1, <1>6, KindFacts, NoItems DEF WriteEnd, StreamInv, StreamOK, Followed
      <3>. QED BY <1>1, <3>1, OuterFacts, AfterFacts
    <2>. QED BY <1>1, <1>6, <2>1, <2>2, WriteKeeps DEF WriteEnd
  <1>. QED BY <1>3, <1>4, <1>5, <1>6

-----------------------------------------------------------------------------
(***************************************************************************)
(* The steps of the reader, and the others.                                *)
(***************************************************************************)
LEMMA ReadItemStep ==
    ASSUME StreamInv, ReadItem
    PROVE  StreamInv'
  <1>. DEFINE n == Len(got)
              item == sent[n + 1].item
              e == [item |-> item, place |-> Place(open)]
  <1>1. n \in Nat /\ Len(sent) \in Nat /\ n + 1 \in 1 .. Len(sent) /\ n + 1 <= cut
    BY NoItems DEF StreamInv, StreamOK, Following, ReadItem
  <1>2. open \in Seq(Frame) /\ open = After(n)
    BY DEF StreamInv, StreamOK, Following
  <1>3. item \in Item /\ Place(open) \in Places /\ e \in [item : Item, place : Places]
    <2>1. sent[n + 1] \in [item : Item, place : Places, after : Seq(Frame)]
      BY <1>1, Elements DEF StreamInv, StreamOK
    <2>. HIDE DEF n
    <2>2. item \in Item
      BY <2>1
    <2>. HIDE DEF item
    <2>. QED BY <1>2, <2>2, KindFacts
  <1>4. /\ got' = Append(got, e) /\ open' = ReadInto(open, item)
        /\ UNCHANGED <<status, stack, sent, cut, torn>> /\ status = "reading"
    BY DEF ReadItem
  <1>5. sent[n + 1].place = e.place /\ sent[n + 1].item = e.item /\ open' = sent[n + 1].after
    BY <1>1, <1>2, <1>4 DEF StreamInv, Followed
  <1>. HIDE DEF e, item
  <1>6. /\ got' \in Seq([item : Item, place : Places]) /\ Len(got') = n + 1 /\ got'[n + 1] = e
        /\ \A i \in 1 .. n : got'[i] = got[i]
    BY <1>3, <1>4, AppendFacts DEF StreamInv, StreamOK
  <1>7. open' \in Seq(Frame)
    BY <1>2, <1>3, <1>4, ReadIntoFacts
  <1>. HIDE DEF n
  <1>8. StreamOK'
    BY <1>4, <1>6, <1>7 DEF StreamInv, StreamOK
  <1>9. Followed'
    BY <1>4 DEF StreamInv, Followed, After
  <1>10. Following'
    <2>1. ASSUME NEW i \in 1 .. Len(got')
          PROVE  got'[i].item = sent[i].item /\ got'[i].place = sent[i].place
      <3>1. CASE i = n + 1
        BY <1>5, <1>6, <3>1
      <3>2. CASE i # n + 1
        <4>1. i \in 1 .. n
          BY <1>1, <1>6, <3>2
        <4>. QED BY <1>6, <4>1 DEF n, StreamInv, Following
      <3>. QED BY <3>1, <3>2
    <2>2. open' = After(Len(got))'
      BY <1>1, <1>4, <1>5, <1>6 DEF After
    <2>3. cut' <= Len(sent') /\ Len(got') <= cut'
      BY <1>1, <1>4, <1>6 DEF StreamInv, Following
    <2>. QED BY <1>4, <2>1, <2>2, <2>3 DEF Following
  <1>. QED BY <1>8, <1>9, <1>10 DEF StreamInv

LEMMA SendStep ==
    ASSUME StreamInv, NEW n \in 0 .. Len(sent), NEW half \in BOOLEAN, Send(n, half)
    PROVE  StreamInv'
  <1>1. Len(sent) \in Nat /\ got = <<>> /\ Len(got) = 0 /\ n \in Nat
    BY NoItems DEF StreamInv, StreamOK, Following, Send
  <1>2. StreamOK'
    BY <1>1 DEF StreamInv, StreamOK, Send
  <1>3. Followed'
    BY DEF StreamInv, Followed, After, Send
  <1>4. Following'
    BY <1>1 DEF StreamInv, Following, After, Send
  <1>. QED BY <1>2, <1>3, <1>4 DEF StreamInv

LEMMA EndSteps ==
    ASSUME StreamInv, FailInside \/ ReadEnd \/ UNCHANGED streamVars
    PROVE  StreamInv'
  <1>1. StreamOK'
    BY DEF StreamInv, StreamOK, FailInside, ReadEnd, streamVars
  <1>2. Followed'
    BY DEF StreamInv, Followed, After, FailInside, ReadEnd, streamVars
  <1>3. Following'
    BY DEF StreamInv, Following, After, FailInside, ReadEnd, streamVars
  <1>. QED BY <1>1, <1>2, <1>3 DEF StreamInv

LEMMA StreamInitial ==
    ASSUME StreamInit
    PROVE  StreamInv
  <1>1. StreamOK
    BY NoItems DEF StreamInit, StreamOK
  <1>2. Followed
    BY NoItems DEF StreamInit, Followed, After
  <1>3. Following
    BY NoItems DEF StreamInit, Following, After
  <1>. QED BY <1>1, <1>2, <1>3 DEF StreamInv

LEMMA StreamStep ==
    ASSUME StreamInv, [StreamNext]_streamVars
    PROVE  StreamInv'
  BY WriterSteps, SendStep, ReadItemStep, EndSteps DEF StreamNext, StreamOver

-----------------------------------------------------------------------------
(***************************************************************************)
(* The theorems.                                                           *)
(***************************************************************************)
\* The reader always has the stack that the writer had at the same item.
THEOREM StreamInvariance == StreamSpec => []StreamInv
  <1>1. StreamInit => StreamInv
    BY StreamInitial
  <1>2. StreamInv /\ [StreamNext]_streamVars => StreamInv'
    BY StreamStep
  <1>. QED BY <1>1, <1>2, PTL DEF StreamSpec

\* Frames stay within their array part; no key is in hand before it ends.
THEOREM StreamTypeCorrect == StreamSpec => []StreamTypeOK
  <1>1. ASSUME StreamInv
        PROVE  StreamTypeOK
    <2>1. cut \in 0 .. Len(sent)
      BY <1>1, NoItems DEF StreamInv, StreamOK, Following
    <2>2. \A s \in Seq(Frame) : \A i \in 1 .. Len(s) : s[i] \in Frame
      OBVIOUS
    <2>3. \A s \in {stack, open} : \A i \in 1 .. Len(s) : s[i] \in Frame
      BY <1>1, <2>2 DEF StreamInv, StreamOK
    <2>4. \A f \in Frame : /\ f.size \in 0 .. MaxArray /\ f.done \in 0 .. f.size
                           /\ f.keyed \in BOOLEAN /\ (f.keyed => f.done = f.size)
      BY DEF Frame
    <2>. QED BY <1>1, <2>1, <2>3, <2>4 DEF StreamInv, StreamOK, StreamTypeOK
  <1>. QED BY <1>1, StreamInvariance, PTL

\* However tables, holes, pairs and nils follow one another, unpack takes every item
\* for what pack wrote it as.
THEOREM SameMeaning == StreamSpec => []ReadAsWritten
  <1>1. ASSUME StreamInv
        PROVE  ReadAsWritten
    BY <1>1, NoItems DEF StreamInv, StreamOK, Following, ReadAsWritten
  <1>. QED BY <1>1, StreamInvariance, PTL

\* A message that was cut is refused unless the cut is between two arguments, and one
\* that was not is never refused.
THEOREM CutsAreNoticed == StreamSpec => []OnlyWholeValues
  <1>1. ASSUME StreamInv
        PROVE  OnlyWholeValues
    BY <1>1 DEF StreamInv, Following, After, OnlyWholeValues
  <1>. QED BY <1>1, StreamInvariance, PTL

\* The limit of pack bounds the recursion of unpack, at every cut of a message.
THEOREM BoundedReader == StreamSpec => []ReaderNestsNoDeeper
  <1>1. ASSUME StreamInv
        PROVE  ReaderNestsNoDeeper
    <2>1. Len(got) \in 0 .. Len(sent) /\ open = After(Len(got))
      BY <1>1, NoItems DEF StreamInv, StreamOK, Following
    <2>. QED BY <1>1, <2>1, AfterFacts DEF ReaderNestsNoDeeper
  <1>. QED BY <1>1, StreamInvariance, PTL

-----------------------------------------------------------------------------
(***************************************************************************)
(* The codec of one item, as a whole.                                      *)
(***************************************************************************)
\* What pack writes is an item.
ItemFacts ==
    /\ NilItem \in Item
    /\ \A v \in Scalar : v \in Item
    /\ \A n \in 0 .. MaxArray : TableItem(n) \in Item

LEMMA ItemsAre == ItemFacts
  BY DEF ItemFacts, Item

LEMMA ItemCells ==
    ASSUME NEW item \in Item
    PROVE  Legible(item, Cells(item)) /\ InParts(Parts(item), Cells(item))
  <1>1. CASE item = NilItem
    BY <1>1, NilLegible DEF NilItem
  <1>2. ASSUME NEW n \in 0 .. MaxArray, item = TableItem(n)
        PROVE  Legible(item, Cells(item)) /\ InParts(Parts(item), Cells(item))
    BY <1>2, TableLegible DEF TableItem
  <1>3. ASSUME item \in Scalar
        PROVE  Legible(item, Cells(item)) /\ InParts(Parts(item), Cells(item))
    <2>. PICK x : x = item[2]
      OBVIOUS
    <2>1. \/ item = <<"boolean", x>> /\ x \in BOOLEAN
          \/ item = <<"integer", x>> /\ x \in Int /\ Fits(x, Byte8)
          \/ item = <<"real", x>> /\ x \in 0 .. Byte8 - 1
          \/ item = <<"pointer", x>> /\ x \in 0 .. Byte4 - 1
          \/ item = <<"string", x>> /\ x \in Seq(Octet) /\ Len(x) < Byte4
      <3>1. Sendable(item)
        BY <1>3, PackingAssumption
      <3>. QED BY <3>1 DEF Sendable, Octet
    <2>. QED BY <2>1, BooleanLegible, IntegerLegible, OpaqueLegible, StringLegible
  <1>. QED BY <1>1, <1>2, <1>3 DEF Item

\* What is in hand: at most two parts of an item.
Hands == {<<>>} \cup {<<p>> : p \in Run} \cup {<<p, q>> : p \in Run, q \in Run}

LEMMA HandsAre ==
    /\ <<>> \in Hands
    /\ \A p \in Run : <<p>> \in Hands
    /\ \A p \in Run, q \in Run : <<p, q>> \in Hands
  BY DEF Hands

LEMMA RunIsCells ==
    ASSUME NEW p \in Run
    PROVE  p \in Seq(Cell) /\ p # <<>>
  BY DEF Run

LEMMA HandFacts ==
    ASSUME NEW h \in Hands
    PROVE  /\ Joined(h) \in Seq(Cell)
           /\ h = <<>> => Joined(h) = <<>>
           /\ h # <<>> => /\ Head(h) \in Run /\ Tail(h) \in Hands
                          /\ Joined(h) = Head(h) \o Joined(Tail(h))
  <1>1. CASE h = <<>>
    BY <1>1, EmptySeq DEF Joined
  <1>2. ASSUME NEW p \in Run, h = <<p>>
        PROVE  /\ Joined(h) \in Seq(Cell) /\ h # <<>>
               /\ Head(h) \in Run /\ Tail(h) \in Hands
               /\ Joined(h) = Head(h) \o Joined(Tail(h))
    <2>1. Head(h) = p /\ Tail(h) = <<>> /\ h # <<>>
      BY <1>2
    <2>2. Joined(h) = p /\ Joined(<<>>) = <<>>
      BY <1>2 DEF Joined
    <2>3. p \o <<>> = p
      BY RunIsCells, ConcatEmptySeq
    <2>. QED BY <2>1, <2>2, <2>3, RunIsCells, HandsAre
  <1>3. ASSUME NEW p \in Run, NEW q \in Run, h = <<p, q>>
        PROVE  /\ Joined(h) \in Seq(Cell) /\ h # <<>>
               /\ Head(h) \in Run /\ Tail(h) \in Hands
               /\ Joined(h) = Head(h) \o Joined(Tail(h))
    <2>1. Head(h) = p /\ Tail(h) = <<q>> /\ h # <<>>
      BY <1>3
    <2>2. Joined(h) = p \o q /\ Joined(<<q>>) = q
      BY <1>3 DEF Joined
    <2>. QED BY <2>1, <2>2, RunIsCells, HandsAre, ConcatProperties
  <1>. QED BY <1>1, <1>2, <1>3 DEF Hands

LEMMA PartsFacts ==
    ASSUME NEW item \in Item
    PROVE  /\ Head(Parts(item)) \in Run /\ Tail(Parts(item)) \in Hands
           /\ Cells(item) = Head(Parts(item)) \o Joined(Tail(Parts(item)))
           /\ Cells(item) \in Seq(Cell) /\ Len(Cells(item)) \in Nat \ {0}
  <1>. PICK parts : parts = Parts(item)
    OBVIOUS
  <1>. PICK c : c = Cells(item)
    OBVIOUS
  <1>1. InParts(parts, c) /\ c \in Seq(Cell) /\ Len(c) \in Nat \ {0}
    BY ItemCells DEF Legible
  <1>2. ASSUME NEW p \in Run, parts = <<p>>, c = p
        PROVE  Head(parts) \in Run /\ Tail(parts) \in Hands /\ c = Head(parts) \o Joined(Tail(parts))
    <2>1. Head(parts) = p /\ Tail(parts) = <<>>
      BY <1>2
    <2>2. Joined(<<>>) = <<>> /\ p \o <<>> = p
      BY RunIsCells, ConcatEmptySeq DEF Joined
    <2>. QED BY <1>2, <2>1, <2>2, HandsAre
  <1>3. ASSUME NEW p \in Run, NEW q \in Run, parts = <<p, q>>, c = p \o q
        PROVE  Head(parts) \in Run /\ Tail(parts) \in Hands /\ c = Head(parts) \o Joined(Tail(parts))
    <2>1. Head(parts) = p /\ Tail(parts) = <<q>>
      BY <1>3
    <2>2. Joined(<<q>>) = q
      BY DEF Joined
    <2>. QED BY <1>3, <2>1, <2>2, HandsAre
  <1>4. ASSUME NEW p \in Run, NEW q \in Run, NEW r \in Run, parts = <<p, q, r>>, c = p \o (q \o r)
        PROVE  Head(parts) \in Run /\ Tail(parts) \in Hands /\ c = Head(parts) \o Joined(Tail(parts))
    <2>1. Head(parts) = p /\ Tail(parts) = <<q, r>>
      BY <1>4
    <2>2. Joined(<<q, r>>) = q \o r
      BY DEF Joined
    <2>. QED BY <1>4, <2>1, <2>2, HandsAre
  <1>. QED BY <1>1, <1>2, <1>3, <1>4 DEF InParts

-----------------------------------------------------------------------------
(***************************************************************************)
(* Packing: its invariant.                                                 *)
(***************************************************************************)
\* The cells pushed so far, and those in hand.
All == pushed \o Joined(hand)

\* They are the cells of the items, in order and without a gap.
Pushing ==
    /\ hand \in Hands /\ at \in Seq(Nat) /\ Len(at) = Len(sent)
    /\ pc \notin {"between", "push"} => hand = <<>>
    /\ Len(All) = IF sent = <<>> THEN 0 ELSE EndOf(Len(sent))
    /\ \A i \in 1 .. Len(sent) :
        /\ at[i] = IF i = 1 THEN 0 ELSE EndOf(i - 1)
        /\ EndOf(i) <= Len(All)
        /\ \A j \in 1 .. Len(Cells(sent[i].item)) : All[at[i] + j] = Cells(sent[i].item)[j]
        /\ \A k \in 1 .. i - 1 : EndOf(k) <= at[i]

\* unpack was given size cells of the buffer, and is at the item after those it got.
Window(size) ==
    /\ Front(cut) <= size /\ Front(Len(got)) <= size
    /\ cut < Len(sent) => size < Front(cut + 1)
    /\ torn = (Front(cut) < size)
    /\ unread = SubSeq(buffer, Front(Len(got)) + 1, size)

Reading == status = "reading" =>
    /\ pc = "end" /\ outcome = "packed"
    /\ \E size \in 0 .. Len(buffer) : Window(size)

IInv == ChainInv /\ StreamInv /\ Pushing /\ Reading

LEMMA SentFacts ==
    ASSUME StreamInv, NEW i \in 1 .. Len(sent)
    PROVE  /\ sent[i].item \in Item /\ Len(sent) \in Nat
           /\ Cells(sent[i].item) \in Seq(Cell) /\ Len(Cells(sent[i].item)) \in Nat \ {0}
  <1>1. sent[i] \in [item : Item, place : Places, after : Seq(Frame)] /\ Len(sent) \in Nat
    BY Elements, NoItems DEF StreamInv, StreamOK
  <1>2. sent[i].item \in Item
    BY <1>1
  <1>. QED BY <1>1, <1>2, PartsFacts

LEMMA EndOfLast ==
    ASSUME StreamInv, at \in Seq(Nat), Len(at) = Len(sent)
    PROVE  \A i \in 1 .. Len(sent) : at[i] \in Nat /\ EndOf(i) \in Nat /\ EndOf(i) > at[i]
  <1>. SUFFICES ASSUME NEW i \in 1 .. Len(sent)
                PROVE  at[i] \in Nat /\ EndOf(i) \in Nat /\ EndOf(i) > at[i]
    OBVIOUS
  <1>1. at[i] \in Nat
    BY Elements
  <1>. QED BY <1>1, SentFacts DEF EndOf

LEMMA AllFacts ==
    ASSUME ChainInv, hand \in Hands
    PROVE  /\ All \in Seq(Cell) /\ Len(All) \in Nat /\ pushed \in Seq(Cell)
           /\ hand = <<>> => All = pushed
  <1>1. pushed \in Seq(Cell) /\ Joined(hand) \in Seq(Cell) /\ (hand = <<>> => Joined(hand) = <<>>)
    BY HandFacts DEF ChainInv, ChainOK
  <1>. QED BY <1>1, ConcatProperties, ConcatEmptySeq, LenProperties DEF All

-----------------------------------------------------------------------------
(***************************************************************************)
(* unpack is at the items that pack wrote.                                 *)
(***************************************************************************)
LEMMA SliceIsFrom ==
    ASSUME NEW S, NEW b \in Seq(S), NEW size \in 0 .. Len(b), NEW m \in 0 .. size
    PROVE  LET u == SubSeq(b, m + 1, size) IN
           /\ u \in Seq(S) /\ Len(u) = size - m /\ Len(b) \in Nat
           /\ \A j \in 1 .. size - m : u[j] = b[m + j]
  <1>1. Len(b) \in Nat /\ size \in Nat /\ m \in Nat
    BY LenProperties
  <1>2. /\ SubSeq(b, 1, size) \in Seq(S) /\ Len(SubSeq(b, 1, size)) = size
        /\ \A i \in 1 .. size : SubSeq(b, 1, size)[i] = b[i]
    BY PartFacts
  <1>3. SubSeq(b, m + 1, size) = From(SubSeq(b, 1, size), m)
    <2>. DEFINE p == SubSeq(b, 1, size)
                u == SubSeq(b, m + 1, size)
                w == SubSeq(p, m + 1, Len(p))
    <2>1. \A i \in m + 1 .. size : b[i] \in S
      BY <1>1
    <2>2. u = [j \in 1 .. size - (m + 1) + 1 |-> b[(m + 1) + j - 1]]
      BY <1>1
    <2>3. w = [j \in 1 .. size - (m + 1) + 1 |-> p[(m + 1) + j - 1]]
      <3>1. Len(p) = size
        BY <1>2
      <3>2. w = SubSeq(p, m + 1, size)
        BY <3>1
      <3>. HIDE DEF p
      <3>. QED BY <1>1, <3>2
    <2>4. \A j \in 1 .. size - (m + 1) + 1 : p[(m + 1) + j - 1] = b[(m + 1) + j - 1]
      BY <1>1, <1>2
    <2>. HIDE DEF p, u, w
    <2>5. u = w
      BY <2>2, <2>3, <2>4
    <2>. QED BY <2>5 DEF From, u, w, p
  <1>4. m \in 0 .. Len(SubSeq(b, 1, size))
    BY <1>2
  <1>5. /\ From(SubSeq(b, 1, size), m) \in Seq(S) /\ Len(From(SubSeq(b, 1, size), m)) = size - m
        /\ \A j \in 1 .. size - m : From(SubSeq(b, 1, size), m)[j] = SubSeq(b, 1, size)[m + j]
    <2>. PICK p \in Seq(S) : p = SubSeq(b, 1, size) /\ Len(p) = size
      BY <1>2
    <2>1. m \in 0 .. Len(p)
      BY <1>4
    <2>2. From(p, m) \in Seq(S) /\ Len(From(p, m)) = Len(p) - m /\ \A j \in 1 .. Len(p) - m : From(p, m)[j] = p[m + j]
      BY <2>1, FromFacts
    <2>. QED BY <2>2
  <1>6. \A j \in 1 .. size - m : m + j \in 1 .. size
    BY <1>1
  <1>. QED BY <1>1, <1>2, <1>3, <1>5, <1>6

LEMMA SliceFrom ==
    ASSUME NEW S, NEW b \in Seq(S), NEW size \in 0 .. Len(b), NEW m \in 0 .. size, NEW n \in 0 .. size - m
    PROVE  From(SubSeq(b, m + 1, size), n) = SubSeq(b, m + n + 1, size)
  <1>1. m + n \in 0 .. size /\ size \in Nat /\ Len(b) \in Nat /\ m \in Nat /\ n \in Nat
    BY LenProperties
  <1>. PICK u : u = SubSeq(b, m + 1, size)
    OBVIOUS
  <1>2. u \in Seq(S) /\ Len(u) = size - m /\ \A j \in 1 .. size - m : u[j] = b[m + j]
    BY SliceIsFrom
  <1>. PICK k \in 0 .. size : k = m + n
    BY <1>1
  <1>. PICK w : w = SubSeq(b, k + 1, size)
    OBVIOUS
  <1>3. w \in Seq(S) /\ Len(w) = size - k /\ \A j \in 1 .. size - k : w[j] = b[k + j]
    BY SliceIsFrom
  <1>4. /\ From(u, n) \in Seq(S) /\ Len(From(u, n)) = Len(u) - n
        /\ \A j \in 1 .. Len(u) - n : From(u, n)[j] = u[n + j]
    <2>1. n \in 0 .. Len(u) /\ u \in Seq(S)
      BY <1>2
    <2>. QED BY <2>1, FromFacts
  <1>5. Len(u) - n = size - k
    BY <1>1, <1>2
  <1>6. ASSUME NEW j \in 1 .. size - k
        PROVE  From(u, n)[j] = w[j]
    <2>1. n + j \in 1 .. size - m /\ m + (n + j) = k + j
      BY <1>1
    <2>2. From(u, n)[j] = u[n + j] /\ w[j] = b[k + j]
      BY <1>3, <1>4, <1>5
    <2>3. u[n + j] = b[m + (n + j)]
      BY <1>2, <2>1
    <2>. QED BY <2>1, <2>2, <2>3
  <1>7. From(u, n) = w
    BY <1>3, <1>4, <1>5, <1>6, SeqEqual
  <1>. QED BY <1>7

LEMMA FrontFacts ==
    ASSUME IInv, pc = "end", outcome = "packed"
    PROVE  /\ buffer \in Seq(Cell) /\ Len(buffer) \in Nat /\ Len(sent) \in Nat
           /\ Front(0) = 0 /\ Front(Len(sent)) = Len(buffer)
           /\ \A n \in 0 .. Len(sent) : Front(n) \in 0 .. Len(buffer)
           /\ \A n \in 0 .. Len(sent) - 1 :
                /\ Front(n + 1) = Front(n) + Len(Cells(sent[n + 1].item))
                /\ \A j \in 1 .. Len(Cells(sent[n + 1].item)) :
                        buffer[Front(n) + j] = Cells(sent[n + 1].item)[j]
           /\ \A m, n \in 0 .. Len(sent) : m <= n => Front(m) <= Front(n)
  <1>1. buffer = All /\ All \in Seq(Cell) /\ Len(buffer) \in Nat
    BY AllFacts DEF IInv, Pushing, ChainInv, Copied
  <1>. PICK l \in Nat : l = Len(sent)
    BY NoItems DEF IInv, StreamInv, StreamOK
  <1>2. sent = <<>> <=> l = 0
    BY EmptySeq DEF IInv, StreamInv, StreamOK
  <1>3. \A i \in 1 .. l : at[i] \in Nat /\ EndOf(i) \in Nat /\ EndOf(i) > at[i]
    BY EndOfLast DEF IInv, Pushing
  <1>4. \A i \in 1 .. l :
            /\ at[i] = IF i = 1 THEN 0 ELSE EndOf(i - 1)
            /\ EndOf(i) <= Len(buffer)
            /\ \A j \in 1 .. Len(Cells(sent[i].item)) : buffer[at[i] + j] = Cells(sent[i].item)[j]
            /\ \A k \in 1 .. i - 1 : EndOf(k) <= at[i]
    BY <1>1 DEF IInv, Pushing
  <1>5. Len(buffer) = IF l = 0 THEN 0 ELSE EndOf(l)
    BY <1>1, <1>2 DEF IInv, Pushing
  <1>6. \A n \in 0 .. l : Front(n) = IF n < l THEN at[n + 1] ELSE Len(buffer)
    BY DEF Front
  <1>7. Front(l) = Len(buffer) /\ Front(0) = 0
    <2>1. l # 0 => 1 \in 1 .. l /\ 0 \in 0 .. l /\ 0 < l /\ 0 + 1 = 1
      OBVIOUS
    <2>. QED BY <1>4, <1>5, <1>6, <2>1
  <1>8. ASSUME NEW n \in 0 .. l
        PROVE  Front(n) \in 0 .. Len(buffer)
    <2>1. CASE n < l
      <3>1. n + 1 \in 1 .. l
        BY <2>1
      <3>. QED BY <1>1, <1>3, <1>4, <1>6, <2>1, <3>1
    <2>2. CASE n = l
      BY <1>1, <1>7, <2>2
    <2>. QED BY <2>1, <2>2
  <1>9. ASSUME NEW n \in 0 .. l - 1
        PROVE  /\ Front(n + 1) = Front(n) + Len(Cells(sent[n + 1].item))
               /\ \A j \in 1 .. Len(Cells(sent[n + 1].item)) :
                        buffer[Front(n) + j] = Cells(sent[n + 1].item)[j]
    <2>1. n + 1 \in 1 .. l /\ Front(n) = at[n + 1]
      BY <1>6
    <2>2. EndOf(n + 1) = at[n + 1] + Len(Cells(sent[n + 1].item))
      BY DEF EndOf
    <2>3. Front(n + 1) = EndOf(n + 1)
      <3>1. CASE n + 1 < l
        <4>1. n + 2 \in 1 .. l /\ n + 2 # 1 /\ n + 2 - 1 = n + 1 /\ n + 1 + 1 = n + 2 /\ n + 1 \in 0 .. l
          BY <3>1
        <4>2. at[n + 2] = EndOf(n + 1)
          BY <1>4, <4>1
        <4>3. Front(n + 1) = at[n + 2]
          BY <1>6, <3>1, <4>1
        <4>. QED BY <4>2, <4>3
      <3>2. CASE n + 1 = l
        BY <1>5, <1>7, <3>2
      <3>. QED BY <3>1, <3>2
    <2>. QED BY <1>4, <2>1, <2>2, <2>3
  <1>10. ASSUME NEW m \in 0 .. l, NEW n \in 0 .. l, m <= n
         PROVE  Front(m) <= Front(n)
    <2>1. CASE m = n
      BY <1>1, <1>8, <2>1
    <2>2. CASE m < n /\ n = l
      BY <1>1, <1>7, <1>8, <2>2
    <2>3. CASE m < n /\ n < l
      <3>1. n + 1 \in 1 .. l /\ m + 1 \in 1 .. n + 1 - 1 /\ m + 1 \in 1 .. l
        BY <2>3
      <3>2. EndOf(m + 1) <= at[n + 1] /\ EndOf(m + 1) > at[m + 1]
        BY <1>3, <1>4, <3>1
      <3>3. at[m + 1] \in Nat /\ at[n + 1] \in Nat /\ EndOf(m + 1) \in Nat
        BY <1>3, <3>1
      <3>. QED BY <1>6, <2>3, <3>2, <3>3
    <2>. QED BY <1>10, <2>1, <2>2, <2>3
  <1>. QED BY <1>1, <1>7, <1>8, <1>9, <1>10

\* The next item is whole in front of unpack until it has cut of them; then there is
\* none, or one whose cells end too soon.
LEMMA NextItem ==
    ASSUME IInv, status = "reading"
    PROVE  /\ Len(got) < cut =>
                LET item == sent[Len(got) + 1].item IN
                /\ OneItem(unread) = Got(item, From(unread, Len(Cells(item))))
                /\ (\E size \in 0 .. Len(buffer) : Window(size)) =>
                    \E size \in 0 .. Len(buffer) :
                        /\ Window(size) /\ Front(Len(got) + 1) <= size
                        /\ From(unread, Len(Cells(item))) = SubSeq(buffer, Front(Len(got) + 1) + 1, size)
           /\ Len(got) = cut => OneItem(unread).err /\ (unread = <<>> <=> ~torn)
           /\ Len(got) \in Nat /\ Len(got) <= cut /\ cut <= Len(sent) /\ torn \in BOOLEAN
  <1>. PICK g \in Nat : g = Len(got)
    BY NoItems DEF IInv, StreamInv, StreamOK
  <1>. PICK l \in Nat : l = Len(sent)
    BY NoItems DEF IInv, StreamInv, StreamOK
  <1>1. cut \in Nat /\ g <= cut /\ cut <= l /\ torn \in BOOLEAN
    BY DEF IInv, StreamInv, StreamOK, Following
  <1>. PICK size \in 0 .. Len(buffer) : Window(size)
    BY DEF IInv, Reading
  <1>2. /\ buffer \in Seq(Cell) /\ Len(buffer) \in Nat
        /\ Front(l) = Len(buffer)
        /\ \A n \in 0 .. l : Front(n) \in 0 .. Len(buffer)
        /\ \A n \in 0 .. l - 1 :
                /\ Front(n + 1) = Front(n) + Len(Cells(sent[n + 1].item))
                /\ \A j \in 1 .. Len(Cells(sent[n + 1].item)) :
                        buffer[Front(n) + j] = Cells(sent[n + 1].item)[j]
        /\ \A m, n \in 0 .. l : m <= n => Front(m) <= Front(n)
    BY FrontFacts DEF IInv, Reading
  <1>. PICK m \in 0 .. size : m = Front(g)
    <2>1. g \in 0 .. l
      BY <1>1
    <2>. QED BY <1>2, <2>1 DEF Window
  <1>3. /\ unread \in Seq(Cell) /\ Len(unread) = size - m /\ unread = SubSeq(buffer, m + 1, size)
        /\ \A j \in 1 .. size - m : unread[j] = buffer[m + j]
    <2>1. unread = SubSeq(buffer, m + 1, size)
      BY DEF Window
    <2>2. buffer \in Seq(Cell)
      BY <1>2
    <2>3. LET u == SubSeq(buffer, m + 1, size) IN
          u \in Seq(Cell) /\ Len(u) = size - m /\ \A j \in 1 .. size - m : u[j] = buffer[m + j]
      BY <2>2, SliceIsFrom
    <2>. QED BY <2>1, <2>3
  <1>4. ASSUME g < l
        PROVE  LET item == sent[g + 1].item IN
               /\ Front(g + 1) = m + Len(Cells(item)) /\ Len(Cells(item)) \in Nat \ {0}
               /\ OneItem(unread) = Whole(item, unread, Len(Cells(item)))
    <2>. PICK item \in Item : item = sent[g + 1].item
      BY <1>1, <1>4, SentFacts DEF IInv
    <2>. PICK c \in Seq(Cell) : c = Cells(item)
      BY PartsFacts
    <2>1. g \in 0 .. l - 1
      BY <1>4
    <2>2. Len(c) \in Nat \ {0} /\ Legible(item, c)
      BY PartsFacts, ItemCells
    <2>3. Front(g + 1) = m + Len(c) /\ \A j \in 1 .. Len(c) : buffer[m + j] = c[j]
      BY <1>2, <2>1
    <2>4. Begins(unread, c)
      <3>1. ASSUME NEW j \in 1 .. Len(c), j <= Len(unread)
            PROVE  unread[j] = c[j]
        <4>1. j \in 1 .. size - m
          BY <1>3, <2>2, <3>1
        <4>. QED BY <1>3, <2>3, <4>1
      <3>. QED BY <3>1 DEF Begins
    <2>5. OneItem(unread) = Whole(item, unread, Len(c))
      BY <1>3, <2>2, <2>4 DEF Legible
    <2>. QED BY <2>2, <2>3, <2>5
  <1>5. ASSUME g < cut
        PROVE  LET item == sent[g + 1].item IN
               /\ OneItem(unread) = Got(item, From(unread, Len(Cells(item))))
               /\ Front(g + 1) <= size
               /\ From(unread, Len(Cells(item))) = SubSeq(buffer, Front(g + 1) + 1, size)
    <2>. PICK item : item = sent[g + 1].item
      OBVIOUS
    <2>. PICK n : n = Len(Cells(item))
      OBVIOUS
    <2>1. Front(g + 1) = m + n /\ n \in Nat \ {0} /\ OneItem(unread) = Whole(item, unread, n)
      BY <1>1, <1>4, <1>5
    <2>2. Front(g + 1) <= Front(cut) /\ Front(cut) <= size /\ Front(cut) \in Nat
      <3>1. g + 1 \in 0 .. l /\ cut \in 0 .. l /\ g + 1 <= cut
        BY <1>1, <1>5
      <3>. QED BY <1>2, <3>1 DEF Window
    <2>3. m + n <= size /\ n \in 0 .. size - m /\ n <= Len(unread)
      <3>1. m + n <= size
        BY <2>1, <2>2
      <3>. QED BY <1>3, <2>1, <3>1
    <2>4. OneItem(unread) = Got(item, From(unread, n))
      BY <2>1, <2>3 DEF Whole
    <2>5. From(unread, n) = SubSeq(buffer, m + n + 1, size)
      BY <1>2, <1>3, <2>3, SliceFrom
    <2>. QED BY <2>1, <2>3, <2>4, <2>5
  <1>6. ASSUME g = cut
        PROVE  OneItem(unread).err /\ (unread = <<>> <=> ~torn)
    <2>1. unread = <<>> <=> Len(unread) = 0
      BY <1>3, EmptySeq
    <2>2. torn <=> m < size
      BY <1>6 DEF Window
    <2>3. unread = <<>> <=> ~torn
      BY <1>3, <2>1, <2>2
    <2>4. CASE g = l
      <3>1. m = size
        BY <1>2, <2>4
      <3>2. unread = <<>>
        BY <1>3, <2>1, <3>1
      <3>. QED BY <2>3, <3>2 DEF OneItem, Invalid
    <2>5. CASE g < l
      <3>. PICK item : item = sent[g + 1].item
        OBVIOUS
      <3>. PICK n : n = Len(Cells(item))
        OBVIOUS
      <3>1. Front(g + 1) = m + n /\ n \in Nat \ {0} /\ OneItem(unread) = Whole(item, unread, n)
        BY <1>4, <2>5
      <3>2. size < Front(g + 1)
        BY <1>6, <2>5 DEF Window
      <3>3. ~(n <= Len(unread))
        <4>1. Len(unread) = size - m /\ size < m + n
          BY <1>3, <3>1, <3>2
        <4>2. size \in Nat /\ m \in Nat /\ n \in Nat
          BY <1>2, <1>3, <3>1
        <4>. QED BY <4>1, <4>2
      <3>4. OneItem(unread) = Invalid
        BY <3>1, <3>3 DEF Whole
      <3>. QED BY <2>3, <3>4 DEF Invalid
    <2>. QED BY <1>1, <1>6, <2>4, <2>5
  <1>. QED BY <1>1, <1>5, <1>6

-----------------------------------------------------------------------------
(***************************************************************************)
(* Every step of Packing is one of Blocks, of Stream or of both.           *)
(***************************************************************************)
LEMMA PushIsAStep ==
    ASSUME ChainInv, NEW cells \in Run, PushStarts(cells)
    PROVE  BlocksNext
  <1>1. cells \in Seq(Cell) /\ Len(cells) \in Nat \ {0} /\ Len(pushed) \in Nat /\ MaxCells \in Nat
    BY RunIsCells, EmptySeq, NoCells, BlocksAssumption DEF ChainInv, ChainOK
  <1>2. Len(cells) \in 1 .. MaxCells
    BY <1>1 DEF PushStarts
  <1>3. cells \in [1 .. Len(cells) -> Cell]
    BY <1>1
  <1>4. cells \in UNION {[1 .. n -> Cell] : n \in 1 .. MaxCells}
    BY <1>2, <1>3
  <1>. QED BY <1>4 DEF BlocksNext

LEMMA ItemIsAStep ==
    ASSUME ChainInv, NEW item \in Item, PushItem(item)
    PROVE  BlocksNext
  BY PartsFacts, PushIsAStep DEF PushItem

\* What unpack makes of the next cells is the next item that pack wrote.
LEMMA UnpackItemReads ==
    ASSUME IInv, UnpackItem
    PROVE  /\ ReadItem
           /\ UNCHANGED blocksVars
           /\ \E size \in 0 .. Len(buffer) :
                /\ Window(size) /\ Front(Len(got) + 1) <= size
                /\ unread' = SubSeq(buffer, Front(Len(got) + 1) + 1, size)
  <1>. PICK one : one = OneItem(unread)
    OBVIOUS
  <1>1. /\ status = "reading" /\ ~one.err
        /\ got' = Append(got, [item |-> one.v, place |-> Place(open)])
        /\ open' = ReadInto(open, one.v) /\ unread' = one.left
        /\ UNCHANGED <<blocksVars, status, stack, sent, cut, torn>>
    BY DEF UnpackItem
  <1>2. Len(got) < cut
    BY <1>1, NextItem DEF IInv, StreamInv, StreamOK
  <1>. PICK item : item = sent[Len(got) + 1].item
    OBVIOUS
  <1>3. one = Got(item, From(unread, Len(Cells(item))))
    BY <1>1, <1>2, NextItem
  <1>4. one.v = item /\ one.left = From(unread, Len(Cells(item)))
    BY <1>3, GotFacts
  <1>5. ReadItem
    BY <1>1, <1>2, <1>4 DEF ReadItem
  <1>6. \E size \in 0 .. Len(buffer) : Window(size)
    BY <1>1 DEF IInv, Reading
  <1>7. \E size \in 0 .. Len(buffer) :
            /\ Window(size) /\ Front(Len(got) + 1) <= size
            /\ From(unread, Len(Cells(item))) = SubSeq(buffer, Front(Len(got) + 1) + 1, size)
    BY <1>1, <1>2, <1>6, NextItem
  <1>. QED BY <1>1, <1>4, <1>5, <1>7

\* unpack ends where the items end that reached it.
LEMMA UnpackOverEnds ==
    ASSUME IInv, UnpackOver
    PROVE  ReadEnd /\ UNCHANGED blocksVars
  <1>1. /\ status = "reading" /\ OneItem(unread).err
        /\ status' = IF unread = <<>> /\ open = <<>> THEN "done" ELSE "invalid"
        /\ UNCHANGED <<blocksVars, stack, sent, cut, torn, open, got>>
    BY DEF UnpackOver
  <1>2. ~(Len(got) < cut)
    <2>1. SUFFICES ASSUME Len(got) < cut PROVE FALSE
      OBVIOUS
    <2>2. OneItem(unread) = Got(sent[Len(got) + 1].item, From(unread, Len(Cells(sent[Len(got) + 1].item))))
      BY <1>1, <2>1, NextItem
    <2>3. ~OneItem(unread).err
      BY <2>2, GotFacts
    <2>. QED BY <1>1, <2>3
  <1>3. Len(got) = cut
    BY <1>1, <1>2, NextItem DEF IInv, StreamInv, StreamOK
  <1>4. unread = <<>> <=> ~torn
    BY <1>1, <1>3, NextItem
  <1>. QED BY <1>1, <1>3, <1>4 DEF ReadEnd

LEMMA StepsOfBoth ==
    ASSUME IInv, [Next]_vars
    PROVE  [BlocksNext]_blocksVars /\ [StreamNext]_streamVars
  <1>0. ChainInv
    BY DEF IInv
  <1>1. ASSUME NEW v \in Scalar, PackScalar(v) PROVE BlocksNext /\ StreamNext
    BY <1>0, <1>1, ItemIsAStep, ItemsAre DEF ItemFacts, PackScalar, StreamNext
  <1>2. ASSUME NEW n \in 0 .. MaxArray, PackTable(n) PROVE BlocksNext /\ StreamNext
    BY <1>0, <1>2, ItemIsAStep, ItemsAre DEF ItemFacts, PackTable, StreamNext
  <1>3. CASE PackNil
    BY <1>0, <1>3, ItemIsAStep, ItemsAre DEF ItemFacts, PackNil, StreamNext
  <1>4. CASE PackEnd
    BY <1>0, <1>4, ItemIsAStep, ItemsAre DEF ItemFacts, PackEnd, StreamNext
  <1>5. CASE PushPartOfItem
    <2>1. Head(hand) \in Run /\ PushStarts(Head(hand)) /\ UNCHANGED streamVars
      BY <1>5, HandFacts DEF PushPartOfItem, IInv, Pushing
    <2>. QED BY <1>0, <2>1, PushIsAStep
  <1>6. CASE InBlocks
    BY <1>6 DEF InBlocks, BlocksNext
  <1>7. CASE Refuse
    BY <1>7 DEF Refuse, BlocksNext, StreamNext
  <1>8. CASE LuaRaises
    BY <1>8 DEF LuaRaises, BlocksNext, StreamNext
  <1>9. CASE Seri
    BY <1>9 DEF Seri, BlocksNext
  <1>10. ASSUME NEW size \in 0 .. Len(buffer), Unpack(size)
         PROVE  UNCHANGED blocksVars /\ StreamNext
    <2>1. PICK n \in 0 .. Len(sent) : Send(n, Front(n) < size)
      BY <1>10 DEF Unpack
    <2>2. (Front(n) < size) \in BOOLEAN
      OBVIOUS
    <2>3. \E half \in BOOLEAN : Send(n, half)
      BY <2>1, <2>2
    <2>. QED BY <1>10, <2>3 DEF Unpack, StreamNext
  <1>11. CASE UnpackItem
    BY <1>11, UnpackItemReads DEF StreamNext
  <1>12. CASE UnpackOver
    BY <1>12, UnpackOverEnds DEF StreamNext
  <1>13. CASE Over \/ UNCHANGED vars
    BY <1>13 DEF Over, vars
  <1>. QED BY <1>1, <1>2, <1>3, <1>4, <1>5, <1>6, <1>7, <1>8, <1>9, <1>10, <1>11, <1>12, <1>13 DEF Next

-----------------------------------------------------------------------------
(***************************************************************************)
(* Pushing is kept.                                                        *)
(***************************************************************************)
\* An instance of the law, which the provers are to name and not to apply.
Associative(s, t, u) == (s \o t) \o u = s \o (t \o u)

LEMMA CellsAssociative ==
    ASSUME NEW s \in Seq(Cell), NEW t \in Seq(Cell), NEW u \in Seq(Cell)
    PROVE  Associative(s, t, u)
  BY ConcatAssociative DEF Associative

LEMMA PushItemStep ==
    ASSUME IInv, NEW item \in Item, PushItem(item),
           Len(sent') = Len(sent) + 1, sent'[Len(sent) + 1].item = item,
           \A i \in 1 .. Len(sent) : sent'[i] = sent[i]
    PROVE  Pushing'
  <1>. PICK n \in Nat : n = Len(sent)
    BY NoItems DEF IInv, StreamInv, StreamOK
  <1>. PICK c \in Seq(Cell) : c = Cells(item)
    BY PartsFacts
  <1>. PICK all \in Seq(Cell) : all = All
    BY AllFacts DEF IInv, Pushing
  <1>. PICK p \in Nat : p = Len(all)
    BY LenProperties
  <1>1. all = pushed /\ pushed \in Seq(Cell) /\ hand = <<>> /\ at \in Seq(Nat) /\ Len(at) = n
        /\ sent \in Seq([item : Item, place : Places, after : Seq(Frame)])
    BY AllFacts DEF IInv, Pushing, PushItem, StreamInv, StreamOK
  <1>2. hand' \in Hands /\ All' = all \o c /\ Len(c) \in Nat \ {0}
    <2>1. /\ hand' = Tail(Parts(item)) /\ pushed' = pushed \o Head(Parts(item))
          /\ Head(Parts(item)) \in Run /\ Tail(Parts(item)) \in Hands
          /\ c = Head(Parts(item)) \o Joined(Tail(Parts(item))) /\ Len(c) \in Nat \ {0}
      BY PartsFacts DEF PushItem, PushStarts
    <2>. PICK h \in Seq(Cell) : h = Head(Parts(item))
      BY <2>1, RunIsCells
    <2>. PICK t \in Seq(Cell) : t = Joined(Tail(Parts(item)))
      BY <2>1, HandFacts
    <2>2. All' = (all \o h) \o t
      BY <1>1, <2>1 DEF All
    <2>3. c = h \o t
      BY <2>1
    <2>4. Associative(all, h, t)
      BY CellsAssociative
    <2>. QED BY <2>1, <2>2, <2>3, <2>4 DEF Associative
  <1>3. /\ Len(all \o c) = p + Len(c)
        /\ \A k \in 1 .. p : (all \o c)[k] = all[k]
        /\ \A j \in 1 .. Len(c) : (all \o c)[p + j] = c[j]
    <2>1. /\ Len(all \o c) = Len(all) + Len(c)
          /\ \A k \in 1 .. Len(all) : (all \o c)[k] = all[k]
          /\ \A k \in Len(all) + 1 .. Len(all) + Len(c) : (all \o c)[k] = c[k - Len(all)]
      BY JoinFacts
    <2>2. \A j \in 1 .. Len(c) : p + j \in p + 1 .. p + Len(c) /\ p + j - p = j
      BY <1>2
    <2>. QED BY <2>1, <2>2
  <1>4. /\ Len(sent') = n + 1 /\ sent'[n + 1].item = item /\ \A i \in 1 .. n : sent'[i] = sent[i]
        /\ sent' # <<>>
    <2>1. <<>> # sent'
      BY <1>1, NoItems
    <2>. QED BY <2>1
  <1>5. /\ at' \in Seq(Nat) /\ Len(at') = n + 1 /\ at'[n + 1] = p
        /\ \A i \in 1 .. n : at'[i] = at[i]
    <2>1. at' = Append(at, p)
      BY <1>1 DEF PushItem
    <2>2. /\ Append(at, p) \in Seq(Nat) /\ Len(Append(at, p)) = Len(at) + 1
          /\ Append(at, p)[Len(at) + 1] = p
          /\ \A i \in 1 .. Len(at) : Append(at, p)[i] = at[i]
      BY <1>1, AppendFacts
    <2>. QED BY <1>1, <2>1, <2>2
  <1>6. \A i \in 1 .. n : EndOf(i)' = EndOf(i) /\ EndOf(i) \in Nat /\ at[i] \in Nat
    <2>1. \A i \in 1 .. n : EndOf(i)' = EndOf(i)
      BY <1>4, <1>5 DEF EndOf
    <2>. QED BY <1>1, <2>1, EndOfLast DEF IInv
  <1>7. EndOf(n + 1)' = p + Len(c)
    BY <1>4, <1>5 DEF EndOf
  <1>8. /\ p = IF n = 0 THEN 0 ELSE EndOf(n)
        /\ \A i \in 1 .. n :
            /\ at[i] = IF i = 1 THEN 0 ELSE EndOf(i - 1)
            /\ EndOf(i) <= p
            /\ \A j \in 1 .. Len(Cells(sent[i].item)) : all[at[i] + j] = Cells(sent[i].item)[j]
            /\ \A k \in 1 .. i - 1 : EndOf(k) <= at[i]
    <2>1. sent = <<>> <=> n = 0
      BY <1>1, EmptySeq
    <2>. QED BY <2>1 DEF IInv, Pushing
  <1>9. ASSUME NEW i \in (1 .. Len(sent))'
        PROVE  (/\ at[i] = IF i = 1 THEN 0 ELSE EndOf(i - 1)
                /\ EndOf(i) <= Len(All)
                /\ \A j \in 1 .. Len(Cells(sent[i].item)) : All[at[i] + j] = Cells(sent[i].item)[j]
                /\ \A k \in 1 .. i - 1 : EndOf(k) <= at[i])'
    <2>1. CASE i \in 1 .. n
      <3>1. at'[i] = IF i = 1 THEN 0 ELSE EndOf(i - 1)'
        <4>1. i # 1 => i - 1 \in 1 .. n
          BY <2>1
        <4>2. i # 1 => EndOf(i - 1)' = EndOf(i - 1)
          BY <1>6, <4>1
        <4>3. at'[i] = at[i]
          BY <1>5, <2>1
        <4>4. at[i] = IF i = 1 THEN 0 ELSE EndOf(i - 1)
          BY <1>8, <2>1
        <4>. QED BY <4>2, <4>3, <4>4
      <3>2. EndOf(i)' <= p + Len(c)
        <4>1. EndOf(i)' = EndOf(i) /\ EndOf(i) \in Nat
          BY <1>6, <2>1
        <4>2. EndOf(i) <= p
          BY <1>8, <2>1
        <4>. QED BY <1>2, <4>1, <4>2
      <3>3. ASSUME NEW j \in 1 .. Len(Cells(sent[i].item))
            PROVE  (all \o c)[at[i] + j] = Cells(sent[i].item)[j]
        <4>1. at[i] + j \in 1 .. p
          <5>1. EndOf(i) = at[i] + Len(Cells(sent[i].item)) /\ Len(Cells(sent[i].item)) \in Nat
            BY <2>1, SentFacts DEF EndOf, IInv
          <5>. QED BY <1>6, <1>8, <2>1, <5>1
        <4>. QED BY <1>3, <1>8, <2>1, <4>1
      <3>4. ASSUME NEW k \in 1 .. i - 1
            PROVE  EndOf(k)' <= at'[i]
        <4>1. k \in 1 .. n
          BY <2>1
        <4>2. EndOf(k) <= at[i]
          BY <1>8, <2>1
        <4>. QED BY <1>5, <1>6, <2>1, <4>1, <4>2
      <3>. QED BY <1>2, <1>3, <1>4, <1>5, <2>1, <3>1, <3>2, <3>3, <3>4
    <2>2. CASE i = n + 1
      <3>1. at'[i] = IF i = 1 THEN 0 ELSE EndOf(i - 1)'
        <4>1. n # 0 => i # 1 /\ i - 1 = n /\ n \in 1 .. n
          BY <2>2
        <4>. QED BY <1>5, <1>6, <1>8, <2>2, <4>1
      <3>2. EndOf(i)' <= p + Len(c)
        BY <1>2, <1>7, <2>2
      <3>3. \A k \in 1 .. i - 1 : EndOf(k)' <= at'[i]
        <4>1. \A k \in 1 .. i - 1 : k \in 1 .. n
          BY <2>2
        <4>. QED BY <1>5, <1>6, <1>8, <2>2, <4>1
      <3>4. \A j \in 1 .. Len(c) : (all \o c)[at'[i] + j] = c[j]
        BY <1>3, <1>5, <2>2
      <3>5. Cells(sent'[i].item) = c
        BY <1>4, <2>2
      <3>. QED BY <1>2, <1>3, <3>1, <3>2, <3>3, <3>4, <3>5
    <2>3. i \in 1 .. n \/ i = n + 1
      BY <1>4
    <2>. QED BY <2>1, <2>2, <2>3
  <1>10. (Len(All) = IF sent = <<>> THEN 0 ELSE EndOf(Len(sent)))'
    BY <1>2, <1>3, <1>4, <1>7
  <1>11. (pc \notin {"between", "push"} => hand = <<>>)'
    BY DEF PushItem, PushStarts
  <1>. QED BY <1>2, <1>4, <1>5, <1>9, <1>10, <1>11 DEF Pushing

\* What is pushed was in hand before: all in all, the cells stay the same.
LEMMA PushHandStep ==
    ASSUME IInv, PushPartOfItem
    PROVE  Pushing'
  <1>1. /\ hand # <<>> /\ pushed' = pushed \o Head(hand) /\ hand' = Tail(hand)
        /\ UNCHANGED <<sent, at>> /\ pc' = "push"
    BY DEF PushPartOfItem, PushStarts, streamVars
  <1>2. /\ Head(hand) \in Run /\ Tail(hand) \in Hands /\ Joined(hand) = Head(hand) \o Joined(Tail(hand))
        /\ pushed \in Seq(Cell)
    BY <1>1, HandFacts DEF IInv, Pushing, ChainInv, ChainOK
  <1>3. All' = All
    <2>. PICK h \in Seq(Cell) : h = Head(hand)
      BY <1>2, RunIsCells
    <2>. PICK t \in Seq(Cell) : t = Joined(Tail(hand))
      BY <1>2, HandFacts
    <2>1. All' = (pushed \o h) \o t /\ All = pushed \o (h \o t)
      BY <1>1, <1>2 DEF All
    <2>2. Associative(pushed, h, t)
      BY <1>2, CellsAssociative
    <2>. QED BY <2>1, <2>2 DEF Associative
  <1>4. \A i : EndOf(i)' = EndOf(i)
    BY <1>1 DEF EndOf
  <1>. QED BY <1>1, <1>2, <1>3, <1>4 DEF IInv, Pushing

LEMMA OtherSteps ==
    ASSUME IInv, UNCHANGED <<pushed, sent, hand, at>>,
           pc' \in {"between", "push"} \/ hand = <<>>
    PROVE  Pushing'
  <1>1. All' = All /\ \A i : EndOf(i)' = EndOf(i)
    BY DEF EndOf, All
  <1>. QED BY <1>1 DEF IInv, Pushing

LEMMA PushingInit ==
    ASSUME Init
    PROVE  Pushing
  <1>1. hand = <<>> /\ pushed = <<>> /\ sent = <<>> /\ at = <<>> /\ pc = "between"
    BY DEF Init, BlocksInit, StreamInit
  <1>2. hand \in Hands /\ Joined(hand) = <<>>
    BY <1>1, HandsAre, HandFacts
  <1>3. All = <<>> /\ Len(All) = 0 /\ Len(sent) = 0 /\ Len(at) = 0 /\ at \in Seq(Nat)
    <2>1. <<>> \o <<>> = <<>>
      BY ConcatEmptySeq, NoCells
    <2>. QED BY <1>1, <1>2, <2>1, NoCells DEF All
  <1>. QED BY <1>1, <1>2, <1>3 DEF Pushing

LEMMA PushingNext ==
    ASSUME IInv, [Next]_vars
    PROVE  Pushing'
  <1>1. ASSUME NEW item \in Item, NEW after, WriteItem(item, after), PushItem(item)
        PROVE  Pushing'
    <2>1. sent \in Seq([item : Item, place : Places, after : Seq(Frame)])
      BY DEF IInv, StreamInv, StreamOK
    <2>2. /\ Len(sent') = Len(sent) + 1 /\ sent'[Len(sent) + 1].item = item
          /\ \A i \in 1 .. Len(sent) : sent'[i] = sent[i]
      BY <1>1, <2>1 DEF WriteItem
    <2>. QED BY <1>1, <2>2, PushItemStep
  <1>2. ASSUME NEW v \in Scalar, PackScalar(v) PROVE Pushing'
    BY <1>1, <1>2, ItemsAre DEF ItemFacts, PackScalar, WriteScalar
  <1>3. ASSUME NEW m \in 0 .. MaxArray, PackTable(m) PROVE Pushing'
    BY <1>1, <1>3, ItemsAre DEF ItemFacts, PackTable, WriteTable
  <1>4. CASE PackNil \/ PackEnd
    BY <1>1, <1>4, ItemsAre DEF ItemFacts, PackNil, PackEnd, WriteNil, WriteEnd
  <1>5. CASE PushPartOfItem
    BY <1>5, PushHandStep
  <1>6. CASE InBlocks
    <2>1. UNCHANGED <<pushed, sent, hand, at>>
      BY <1>6 DEF InBlocks, streamVars, NewBlock, PushPart, PushFits, CopyBlock, CopyRest, FreeBlock, FreeDone
    <2>2. pc' \in {"between", "push"} \/ pc \notin {"between", "push"}
      BY <1>6 DEF InBlocks, NewBlock, PushPart, PushFits, CopyBlock, CopyRest, FreeBlock, FreeDone
    <2>. QED BY <2>1, <2>2, OtherSteps DEF IInv, Pushing
  <1>7. CASE Refuse \/ LuaRaises
    BY <1>7, OtherSteps DEF Refuse, LuaRaises, FailFreeing, Raise, FailInside
  <1>8. CASE Seri
    BY <1>8, OtherSteps DEF Seri, SeriStarts, streamVars
  <1>9. ASSUME NEW size \in 0 .. Len(buffer), Unpack(size)
        PROVE  Pushing'
    BY <1>9, OtherSteps DEF Unpack, Send, blocksVars, IInv, Pushing
  <1>10. CASE UnpackItem \/ UnpackOver
    BY <1>10, OtherSteps DEF UnpackItem, UnpackOver, blocksVars, IInv, Pushing
  <1>11. CASE Over \/ UNCHANGED vars
    BY <1>11, OtherSteps DEF Over, vars, blocksVars, streamVars, IInv, Pushing
  <1>. QED BY <1>2, <1>3, <1>4, <1>5, <1>6, <1>7, <1>8, <1>9, <1>10, <1>11 DEF Next

-----------------------------------------------------------------------------
(***************************************************************************)
(* Reading is kept.                                                        *)
(***************************************************************************)
LEMMA UnpackStep ==
    ASSUME IInv, NEW size \in 0 .. Len(buffer), Unpack(size)
    PROVE  Reading'
  <1>1. PICK n \in 0 .. Len(sent) : /\ Front(n) <= size /\ (n < Len(sent) => size < Front(n + 1))
                                    /\ Send(n, Front(n) < size)
    BY DEF Unpack
  <1>2. /\ pc = "end" /\ outcome = "packed" /\ status = "writing"
        /\ unread' = SubSeq(buffer, 1, size) /\ UNCHANGED <<pc, outcome, buffer, at, sent, got>>
        /\ cut' = n /\ torn' = (Front(n) < size) /\ got = <<>>
    BY <1>1 DEF Unpack, Send, blocksVars, IInv, StreamInv, Following
  <1>3. Front(0) = 0 /\ Len(got) = 0 /\ size >= 0 /\ 0 + 1 = 1
    BY <1>2, FrontFacts, NoItems
  <1>4. \A k : Front(k)' = Front(k)
    BY <1>2 DEF Front
  <1>5. Window(size)'
    BY <1>1, <1>2, <1>3, <1>4 DEF Window
  <1>. QED BY <1>2, <1>5 DEF Reading

LEMMA UnpackItemStep ==
    ASSUME IInv, UnpackItem
    PROVE  Reading'
  <1>1. PICK size \in 0 .. Len(buffer) :
            /\ Window(size) /\ Front(Len(got) + 1) <= size
            /\ unread' = SubSeq(buffer, Front(Len(got) + 1) + 1, size)
    BY UnpackItemReads
  <1>2. Len(got') = Len(got) + 1
    <2>1. got \in Seq([item : Item, place : Places])
      BY DEF IInv, StreamInv, StreamOK
    <2>. QED BY <2>1 DEF UnpackItem
  <1>3. UNCHANGED <<pc, outcome, buffer, at, sent, cut, torn, status>> /\ status = "reading"
    BY DEF UnpackItem, blocksVars
  <1>4. \A k : Front(k)' = Front(k)
    BY <1>3 DEF Front
  <1>5. Window(size)'
    BY <1>1, <1>2, <1>3, <1>4 DEF Window
  <1>. QED BY <1>3, <1>5 DEF IInv, Reading

LEMMA ReadingNext ==
    ASSUME IInv, [Next]_vars
    PROVE  Reading'
  <1>1. ASSUME NEW size \in 0 .. Len(buffer), Unpack(size) PROVE Reading'
    BY <1>1, UnpackStep
  <1>2. CASE UnpackItem
    BY <1>2, UnpackItemStep
  <1>3. CASE UnpackOver \/ Refuse \/ LuaRaises
    BY <1>3 DEF UnpackOver, Refuse, LuaRaises, FailInside, Reading
  <1>4. ASSUME NEW item, NEW after, WriteItem(item, after) PROVE Reading'
    BY <1>4 DEF WriteItem, Reading
  <1>5. ASSUME NEW v \in Scalar, PackScalar(v) PROVE Reading'
    BY <1>4, <1>5 DEF PackScalar, WriteScalar
  <1>6. ASSUME NEW m \in 0 .. MaxArray, PackTable(m) PROVE Reading'
    BY <1>4, <1>6 DEF PackTable, WriteTable
  <1>7. CASE PackNil \/ PackEnd
    BY <1>4, <1>7 DEF PackNil, PackEnd, WriteNil, WriteEnd
  <1>8. CASE PushPartOfItem
    BY <1>8 DEF PushPartOfItem, PushStarts, streamVars, IInv, Reading
  <1>9. CASE InBlocks
    BY <1>9 DEF InBlocks, NewBlock, PushPart, PushFits, CopyBlock, CopyRest, FreeBlock, FreeDone,
                streamVars, IInv, Reading
  <1>10. CASE Seri
    BY <1>10 DEF Seri, SeriStarts, streamVars, IInv, Reading
  <1>11. CASE Over \/ UNCHANGED vars
    <2>1. UNCHANGED vars
      BY <1>11 DEF Over
    <2>2. UNCHANGED <<pc, outcome, buffer, at, sent, cut, torn, status, got, unread>>
      BY <2>1 DEF vars, blocksVars, streamVars
    <2>3. \A k : Front(k)' = Front(k)
      BY <2>2 DEF Front
    <2>4. \A size : Window(size)' = Window(size)
      BY <2>2, <2>3 DEF Window
    <2>. QED BY <2>2, <2>4 DEF IInv, Reading
  <1>. QED BY <1>1, <1>2, <1>3, <1>5, <1>6, <1>7, <1>8, <1>9, <1>10, <1>11 DEF Next

-----------------------------------------------------------------------------
(***************************************************************************)
(* The theorems of Items.                                                  *)
(***************************************************************************)
LEMMA BehindFirst ==
    ASSUME NEW c \in Seq(Cell), NEW more \in Seq(Cell), NEW s \in Seq(Cell),
           Len(s) = Len(c) + Len(more),
           \A i \in Len(c) + 1 .. Len(c) + Len(more) : s[i] = more[i - Len(c)]
    PROVE  From(s, Len(c)) = more
  <1>. PICK n \in Nat : n = Len(c)
    BY LenProperties
  <1>1. Len(s) \in Nat /\ Len(more) \in Nat /\ n \in 0 .. Len(s) /\ Len(s) - n = Len(more)
    BY LenProperties
  <1>2. /\ From(s, n) \in Seq(Cell) /\ Len(From(s, n)) = Len(s) - n
        /\ \A i \in 1 .. Len(s) - n : From(s, n)[i] = s[n + i]
    BY <1>1, FromFacts
  <1>3. ASSUME NEW i \in 1 .. Len(more)
        PROVE  From(s, n)[i] = more[i]
    <2>0. n + i \in n + 1 .. n + Len(more)
      BY <1>1
    <2>. PICK k \in n + 1 .. n + Len(more) : k = n + i
      BY <2>0
    <2>1. s[k] = more[k - n]
      OBVIOUS
    <2>2. i \in 1 .. Len(s) - n /\ k - n = i
      BY <1>1
    <2>. QED BY <1>2, <2>1, <2>2
  <1>4. From(s, n) = more
    BY <1>1, <1>2, <1>3, SeqEqual
  <1>. QED BY <1>4

\* push_value takes from the front of any bytes the item that was written there, of
\* every type and width, and leaves what is behind it.
THEOREM ItemRoundTrip ==
    ASSUME NEW item \in Item, NEW more \in Seq(Cell)
    PROVE  OneItem(Cells(item) \o more) = Got(item, more)
  <1>. PICK c \in Seq(Cell) : c = Cells(item) /\ Legible(item, c)
    BY PartsFacts, ItemCells
  <1>. PICK s \in Seq(Cell) : s = c \o more
    BY ConcatProperties
  <1>1. /\ Len(s) = Len(c) + Len(more) /\ Len(c) \in Nat /\ Len(more) \in Nat
        /\ \A i \in 1 .. Len(c) : s[i] = c[i]
        /\ \A i \in Len(c) + 1 .. Len(c) + Len(more) : s[i] = more[i - Len(c)]
    BY JoinFacts
  <1>2. Begins(s, c) /\ Len(c) <= Len(s) /\ Len(c) \in 0 .. Len(s)
    BY <1>1 DEF Begins
  <1>3. From(s, Len(c)) = more
    BY <1>1, BehindFirst
  <1>4. OneItem(s) = Whole(item, s, Len(c))
    BY <1>2 DEF Legible
  <1>. QED BY <1>2, <1>3, <1>4 DEF Whole

\* An item whose bytes end too soon is "Invalid serialize stream", wherever they end.
THEOREM TornItemsAreRefused ==
    ASSUME NEW item \in Item, NEW n \in 0 .. Len(Cells(item)) - 1
    PROVE  OneItem(SubSeq(Cells(item), 1, n)) = Invalid
  <1>. PICK c \in Seq(Cell) : c = Cells(item) /\ Legible(item, c) /\ Len(c) \in Nat
    BY PartsFacts, ItemCells
  <1>1. n \in 0 .. Len(c) /\ n < Len(c) /\ n \in Nat
    OBVIOUS
  <1>2. /\ SubSeq(c, 1, n) \in Seq(Cell) /\ Len(SubSeq(c, 1, n)) = n
        /\ \A i \in 1 .. n : SubSeq(c, 1, n)[i] = c[i]
    BY <1>1, PartFacts
  <1>. PICK s \in Seq(Cell) : s = SubSeq(c, 1, n) /\ Len(s) = n
    BY <1>2
  <1>3. Begins(s, c)
    <2>1. ASSUME NEW j \in 1 .. Len(c), j <= n
          PROVE  s[j] = c[j]
      <3>1. j \in 1 .. n
        BY <1>1, <2>1
      <3>. QED BY <1>2, <3>1
    <2>. QED BY <2>1 DEF Begins
  <1>4. OneItem(s) = Whole(item, s, Len(c))
    BY <1>3 DEF Legible
  <1>5. ~(Len(c) <= Len(s))
    BY <1>1
  <1>. QED BY <1>4, <1>5 DEF Whole

-----------------------------------------------------------------------------
(***************************************************************************)
(* The theorems of Packing.                                                *)
(***************************************************************************)
\* The chain of blocks, the two recursions and the bytes of the items stay in step.
THEOREM Invariance == Spec => []IInv
  <1>1. Init => IInv
    BY ChainInit, StreamInitial, PushingInit DEF Init, StreamInit, IInv, Reading
  <1>2. IInv /\ [Next]_vars => IInv'
    <2>1. ASSUME IInv, [Next]_vars
          PROVE  IInv'
      <3>1. ChainInv' /\ StreamInv'
        BY <2>1, StepsOfBoth, ChainNext, StreamStep DEF IInv
      <3>2. Pushing' /\ Reading'
        BY <2>1, PushingNext, ReadingNext
      <3>. QED BY <3>1, <3>2 DEF IInv
    <2>. QED BY <2>1
  <1>. QED BY <1>1, <1>2, PTL DEF Spec

\* pack does what Blocks and Stream say of its memory and its recursion; and unpack,
\* which has only bytes, reads item by item what Stream says it reads, and stops with
\* the result that Stream says, at whatever byte the message was cut.
THEOREM Implements == Spec => BlocksSpec /\ StreamSpec
  <1>1. Init => BlocksInit /\ StreamInit
    BY DEF Init
  <1>2. IInv /\ [Next]_vars => [BlocksNext]_blocksVars /\ [StreamNext]_streamVars
    BY StepsOfBoth
  <1>. QED BY <1>1, <1>2, Invariance, PTL DEF Spec, BlocksSpec, StreamSpec

LEMMA SliceFacts ==
    ASSUME NEW S, NEW s \in Seq(S), NEW c \in Seq(S), NEW m \in Nat, m + Len(c) <= Len(s),
           \A j \in 1 .. Len(c) : s[m + j] = c[j]
    PROVE  SubSeq(s, m + 1, m + Len(c)) = c
  <1>. DEFINE l == Len(c)
              p == SubSeq(s, m + 1, m + l)
  <1>1. l \in Nat /\ Len(s) \in Nat
    BY LenProperties
  <1>2. p = [j \in 1 .. l |-> s[m + j]]
    <2>1. m + l - (m + 1) + 1 = l
      BY <1>1
    <2>2. p = [j \in 1 .. (m + l - (m + 1) + 1) |-> s[(m + 1) + j - 1]]
      BY <1>1 DEF p
    <2>3. \A j \in 1 .. l : (m + 1) + j - 1 = m + j
      BY <1>1
    <2>. HIDE DEF p, l
    <2>. QED BY <2>1, <2>2, <2>3
  <1>3. c = [j \in 1 .. l |-> c[j]]
    BY LenProperties
  <1>. QED BY <1>2, <1>3

\* The bytes that reach unpack are those of the items, each whole, in order and without
\* a gap, for any items, and blocks of any size.
THEOREM BytesOfTheItems == Spec => []BufferHoldsTheItems
  <1>1. ASSUME IInv, pc = "end", outcome = "packed"
        PROVE  BufferHoldsTheItems
    <2>1. buffer = All /\ buffer \in Seq(Cell) /\ Len(buffer) \in Nat
      BY <1>1, AllFacts DEF IInv, Pushing, ChainInv, Copied
    <2>2. Len(buffer) = IF sent = <<>> THEN 0 ELSE EndOf(Len(sent))
      BY <1>1, <2>1 DEF IInv, Pushing
    <2>3. ASSUME NEW i \in 1 .. Len(sent)
          PROVE  /\ EndOf(i) <= Len(buffer)
                 /\ SubSeq(buffer, at[i] + 1, EndOf(i)) = Cells(sent[i].item)
      <3>. PICK c \in Seq(Cell) : c = Cells(sent[i].item)
        BY <1>1, SentFacts DEF IInv
      <3>. PICK m \in Nat : m = at[i]
        BY <1>1, EndOfLast DEF IInv, Pushing
      <3>1. EndOf(i) = m + Len(c)
        BY DEF EndOf
      <3>2. /\ EndOf(i) <= Len(All)
            /\ \A j \in 1 .. Len(Cells(sent[i].item)) : All[at[i] + j] = Cells(sent[i].item)[j]
        BY <1>1 DEF IInv, Pushing
      <3>3. m + Len(c) <= Len(buffer) /\ \A j \in 1 .. Len(c) : buffer[m + j] = c[j]
        BY <2>1, <3>1, <3>2
      <3>4. SubSeq(buffer, m + 1, m + Len(c)) = c
        BY <2>1, <3>3, SliceFacts
      <3>. QED BY <3>1, <3>3, <3>4
    <2>4. \A i \in 1 .. Len(sent) : at[i] = IF i = 1 THEN 0 ELSE EndOf(i - 1)
      BY <1>1 DEF IInv, Pushing
    <2>. QED BY <2>2, <2>3, <2>4 DEF BufferHoldsTheItems
  <1>2. IInv => BufferHoldsTheItems
    BY <1>1 DEF BufferHoldsTheItems
  <1>. QED BY <1>2, Invariance, PTL

\* What was proved of the parts holds of the whole.
THEOREM PartsHold == Spec =>
    /\ []BlocksTypeOK /\ []CopyStaysInChain /\ []BufferIsWhatWasPushed /\ []BlocksAreGivenBack
    /\ []StreamTypeOK /\ []ReadAsWritten /\ []OnlyWholeValues /\ []ReaderNestsNoDeeper
  BY Implements, BlocksTypeCorrect, SeriInChain, NothingCutOrDoubled, NoBlockLeaks,
     StreamTypeCorrect, SameMeaning, CutsAreNoticed, BoundedReader, PTL
=============================================================================
