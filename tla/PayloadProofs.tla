--------------------------- MODULE PayloadProofs ---------------------------
(***************************************************************************)
(* Theorems about Payload, for all VMs, buffers, handles and calls of      *)
(* pack, and any number of bits below the type.                            *)
(***************************************************************************)
EXTENDS Payload, FiniteSetTheorems, FunctionTheorems, TLAPS

-----------------------------------------------------------------------------
(***************************************************************************)
(* The inductive invariant.                                                *)
(***************************************************************************)
Types == {MSG_TYPE_LUA, MSG_TYPE_TEXT}
Messages == [data : Buffer, sz : Nat, sent : Types, passed : Nat]
Handles == {NoHandle, [state |-> "trashed"]}
    \cup [state : {"held"}, vm : Vm, of : Buffer, size : Nat, type : Nat,
          sent : {0} \cup Types, passed : Nat]

StateOK ==
    /\ result \in Results
    /\ made \in [Buffer -> Calls \cup {NoCall}]
    /\ \A b \in Buffer : made[b] # NoCall => result[made[b]].ok
    /\ count \in [Buffer -> Nat] /\ freed \in [Buffer -> {0, 1}]
    /\ handle \in [Handle -> Handles]
    /\ mailbox \in [Vm -> Seq(Messages)]
    /\ \A v \in Vm : Len(mailbox[v]) <= MaxMessages
    /\ ended \subseteq Vm

\* What a script was told of its buffer: a size within it, and the size that was
\* passed with the right type if it fits below the type.
Told(x) ==
    LET c == result[made[x.of]]
    IN  /\ made[x.of] # NoCall /\ x.size <= c.size
        /\ x.sent = 0 => x.size = c.size
        /\ x.sent # 0 /\ x.passed < Limit => x.size = x.passed /\ x.type = x.sent
        /\ x.sent # 0 => x.size < Limit

\* What a message tells: its type set above a size within its buffer.
Tells(m) ==
    /\ made[m.data] # NoCall
    /\ m.passed \in 0 .. result[made[m.data]].size
    /\ m.sz = SetBit(m.passed, m.sent * Limit)

Carried ==
    /\ \A h \in Handle : handle[h].state = "held" => Told(handle[h])
    /\ \A v \in Vm : \A i \in DOMAIN mailbox[v] : Tells(mailbox[v][i])

IInv == StateOK /\ Carried /\ BuffersLiveWhileHeld

-----------------------------------------------------------------------------
(***************************************************************************)
(* The type above the size.                                                *)
(***************************************************************************)
\* Quotient and remainder are determined by what they are for.
LEMMA DivisionIsUnique ==
    ASSUME NEW m \in Nat, NEW p \in Nat \ {0}, NEW q \in Nat, NEW r \in 0 .. p - 1,
           m = q * p + r
    PROVE  m \div p = q /\ m % p = r
  <1>. DEFINE d == m \div p  e == m % p
  <1>1. d \in Int /\ e \in 0 .. p - 1 /\ m = p * d + e
    OBVIOUS
  <1>2. (d - q) * p = r - e
    BY <1>1
  <1>3. d - q \in Int /\ -p < r - e /\ r - e < p
    BY <1>1
  <1>4. \A k \in Int : (k >= 1 => k * p >= p) /\ (k <= -1 => k * p <= -p)
    OBVIOUS
  <1>5. d - q = 0
    <2>. HIDE DEF d, e
    <2>. QED BY <1>2, <1>3, <1>4
  <1>. QED BY <1>1, <1>2, <1>5

\* The type, set above the size, leaves the bits of the size below it as they are,
\* and can be read if the size has no others: what getInternalMsgNonBlock relies on.
LEMMA BitSet ==
    ASSUME NEW n \in Nat, NEW p \in Nat \ {0}, NEW t \in {1, 2}
    PROVE  /\ SetBit(n, t * p) \in Nat
           /\ SetBit(n, t * p) % p = n % p
           /\ n % p \in 0 .. p - 1 /\ n % p <= n
           /\ n < p => n % p = n /\ SetBit(n, t * p) \div p = t
  <1>. DEFINE q == n \div p  r == n % p
  <1>1. q \in Nat /\ r \in 0 .. p - 1 /\ n = q * p + r
    OBVIOUS
  <1>2. q * p >= 0
    BY <1>1
  <1>3. n + t * p = (q + t) * p + r /\ n + t * p \in Nat
    BY <1>1
  <1>4. (n + t * p) \div p = q + t /\ (n + t * p) % p = r
    <2>. DEFINE m == n + t * p  u == q + t
    <2>1. m \in Nat /\ u \in Nat /\ r \in 0 .. p - 1 /\ m = u * p + r
      BY <1>1, <1>3
    <2>2. m \div p = u /\ m % p = r
      <3>. HIDE DEF m, u, q, r
      <3>. QED BY <2>1, DivisionIsUnique
    <2>. QED BY <2>2
  <1>5. ASSUME n < p
        PROVE  q = 0 /\ r = n /\ n \div (t * p) = 0
    <2>1. n = 0 * p + n /\ n = 0 * (t * p) + n /\ n \in 0 .. p - 1
      BY <1>5
    <2>2. t * p \in Nat \ {0} /\ n \in 0 .. (t * p) - 1
      BY <1>5
    <2>. QED BY <2>1, <2>2, DivisionIsUnique
  <1>6. SetBit(n, t * p) \in {n, n + t * p}
    BY DEF SetBit
  <1>. QED BY <1>1, <1>2, <1>3, <1>4, <1>5, <1>6 DEF SetBit

-----------------------------------------------------------------------------
(***************************************************************************)
(* Counting the holders of a buffer.                                       *)
(***************************************************************************)
LEMMA SameSize ==
    ASSUME NEW S, NEW T, IsFiniteSet(S), NEW F \in [S -> T],
           \A x, y \in S : F[x] = F[y] => x = y,
           \A t \in T : \E x \in S : F[x] = t
    PROVE  IsFiniteSet(T) /\ Cardinality(T) = Cardinality(S)
  <1>1. F \in Bijection(S, T)
    BY Fun_IsBij
  <1>. QED BY <1>1, FS_Bijection DEF ExistsBijection

LEMMA Bounds == Limit \in Nat \ {0} /\ MaxMessages \in Nat \ {0}
  BY PayloadAssumption

\* What getInternalMsgNonBlock reads from a message, for the size n it was made with.
LEMMA MessageFacts ==
    ASSUME NEW b \in Buffer, NEW n \in Nat, NEW t \in Types
    PROVE  LET m == Message(b, n, t)
           IN  /\ m \in Messages /\ m.data = b /\ m.sent = t /\ m.passed = n
               /\ m.sz = SetBit(n, t * Limit)
               /\ m.sz % Limit \in 0 .. Limit - 1 /\ m.sz % Limit <= n
               /\ n < Limit => m.sz % Limit = n /\ m.sz \div Limit = t
  <1>1. t \in {1, 2} /\ Limit \in Nat \ {0}
    BY Bounds DEF Types, MSG_TYPE_LUA, MSG_TYPE_TEXT
  <1>2. /\ SetBit(n, t * Limit) \in Nat
        /\ SetBit(n, t * Limit) % Limit = n % Limit
        /\ n % Limit \in 0 .. Limit - 1 /\ n % Limit <= n
        /\ n < Limit => n % Limit = n /\ SetBit(n, t * Limit) \div Limit = t
    BY <1>1, BitSet
  <1>. QED BY <1>2 DEF Message, Messages

LEMMA TailFacts ==
    ASSUME NEW S, NEW q \in Seq(S), Len(q) >= 1
    PROVE  /\ Tail(q) \in Seq(S) /\ Len(Tail(q)) = Len(q) - 1
           /\ DOMAIN q = 1 .. Len(q) /\ q[1] = Head(q)
           /\ DOMAIN Tail(q) = 1 .. Len(q) - 1
           /\ \A i \in 1 .. Len(q) - 1 : Tail(q)[i] = q[i + 1]
  OBVIOUS

LEMMA HoldersAreFinite ==
    ASSUME StateOK, NEW b \in Buffer
    PROVE  /\ IsFiniteSet(ScriptsWith(b)) /\ Cardinality(ScriptsWith(b)) \in Nat
           /\ IsFiniteSet(MessagesWith(b)) /\ Cardinality(MessagesWith(b)) \in Nat
           /\ Holders(b) \in Nat
  <1>1. IsFiniteSet(ScriptsWith(b))
    BY PayloadAssumption, FS_Subset DEF ScriptsWith
  <1>2. IsFiniteSet(1 .. MaxMessages)
    BY PayloadAssumption, FS_Interval
  <1>3. IsFiniteSet(Vm \X (1 .. MaxMessages))
    BY <1>2, PayloadAssumption, FS_Product
  <1>4. IsFiniteSet(MessagesWith(b))
    BY <1>3, FS_Subset DEF MessagesWith
  <1>. QED BY <1>1, <1>4, FS_CardinalityType DEF Holders

\* Nobody holds a buffer that was not made.
LEMMA UnmadeIsUnheld ==
    ASSUME StateOK, Carried, BuffersLiveWhileHeld, NEW b \in Buffer, made[b] = NoCall
    PROVE  /\ ScriptsWith(b) = {} /\ MessagesWith(b) = {} /\ Holders(b) = 0
           /\ count[b] = 0 /\ freed[b] = 0
  <1>1. ScriptsWith(b) = {}
    BY DEF Carried, Told, ScriptsWith
  <1>2. MessagesWith(b) = {}
    BY DEF Carried, Tells, MessagesWith
  <1>3. Holders(b) = 0
    BY <1>1, <1>2, FS_EmptySet DEF Holders
  <1>. QED BY <1>1, <1>2, <1>3 DEF BuffersLiveWhileHeld

\* One handle changes: a script gets, or lets go of, the buffer it stands for.
LEMMA HandleChanges ==
    ASSUME StateOK, NEW h \in Handle, NEW x \in Handles,
           handle' = [handle EXCEPT ![h] = x], NEW b \in Buffer
    PROVE  Cardinality(ScriptsWith(b)') = Cardinality(ScriptsWith(b))
                - (IF h \in ScriptsWith(b) THEN 1 ELSE 0)
                + (IF x.state = "held" /\ x.of = b THEN 1 ELSE 0)
  <1>. DEFINE Rest == ScriptsWith(b) \ {h}
  <1>1. handle'[h] = x /\ \A g \in Handle \ {h} : handle'[g] = handle[g]
    BY DEF StateOK
  <1>2. ScriptsWith(b)' = IF x.state = "held" /\ x.of = b THEN Rest \cup {h} ELSE Rest
    BY <1>1 DEF ScriptsWith
  <1>3. /\ IsFiniteSet(Rest) /\ h \notin Rest /\ Cardinality(Rest) \in Nat
        /\ Cardinality(Rest) = Cardinality(ScriptsWith(b))
                                - (IF h \in ScriptsWith(b) THEN 1 ELSE 0)
    BY HoldersAreFinite, FS_RemoveElement, FS_CardinalityType
  <1>4. Cardinality(Rest \cup {h}) = Cardinality(Rest) + 1
    BY <1>3, FS_AddElement
  <1>. QED BY <1>2, <1>3, <1>4, HoldersAreFinite

LEMMA HandleTaken ==
    ASSUME StateOK, NEW h \in Handle, handle[h] = NoHandle,
           NEW x \in Handles, x.state = "held",
           handle' = [handle EXCEPT ![h] = x], NEW b \in Buffer
    PROVE  Cardinality(ScriptsWith(b)') =
                Cardinality(ScriptsWith(b)) + (IF x.of = b THEN 1 ELSE 0)
  <1>1. h \notin ScriptsWith(b)
    BY DEF ScriptsWith, NoHandle
  <1>2. Cardinality(ScriptsWith(b)) \in Nat
    BY HoldersAreFinite
  <1>3. Cardinality(ScriptsWith(b)') = Cardinality(ScriptsWith(b))
            - (IF h \in ScriptsWith(b) THEN 1 ELSE 0)
            + (IF x.state = "held" /\ x.of = b THEN 1 ELSE 0)
    BY HandleChanges
  <1>. QED BY <1>1, <1>2, <1>3

\* A message is put at the end of a mailbox.
LEMMA MessageArrives ==
    ASSUME StateOK, NEW v \in Vm, Room(v), NEW m \in Messages,
           mailbox' = [mailbox EXCEPT ![v] = Append(@, m)], NEW b \in Buffer
    PROVE  Cardinality(MessagesWith(b)') =
                Cardinality(MessagesWith(b)) + (IF m.data = b THEN 1 ELSE 0)
  <1>. DEFINE place == <<v, Len(mailbox[v]) + 1>>
  <1>1. mailbox[v] \in Seq(Messages) /\ Len(mailbox[v]) \in 0 .. MaxMessages - 1
    BY PayloadAssumption DEF StateOK, Room
  <1>2. /\ \A u \in Vm \ {v} : mailbox'[u] = mailbox[u]
        /\ mailbox'[v] = Append(mailbox[v], m)
    BY DEF StateOK
  <1>3. /\ DOMAIN mailbox'[v] = 1 .. Len(mailbox[v]) + 1
        /\ \A i \in 1 .. Len(mailbox[v]) : mailbox'[v][i] = mailbox[v][i]
        /\ mailbox'[v][Len(mailbox[v]) + 1] = m
    BY <1>1, <1>2
  <1>4. MessagesWith(b)' = IF m.data = b THEN MessagesWith(b) \cup {place} ELSE MessagesWith(b)
    <2>1. ASSUME NEW p \in Vm \X (1 .. MaxMessages)
          PROVE  (p[2] \in DOMAIN mailbox'[p[1]] /\ mailbox'[p[1]][p[2]].data = b)
                    <=> \/ p[2] \in DOMAIN mailbox[p[1]] /\ mailbox[p[1]][p[2]].data = b
                        \/ p = place /\ m.data = b
      BY <1>1, <1>2, <1>3
    <2>2. place \in Vm \X (1 .. MaxMessages)
      BY <1>1, PayloadAssumption
    <2>. QED BY <2>1, <2>2 DEF MessagesWith
  <1>5. place \notin MessagesWith(b)
    BY <1>1 DEF MessagesWith
  <1>6. IsFiniteSet(MessagesWith(b)) /\ Cardinality(MessagesWith(b)) \in Nat
    BY HoldersAreFinite
  <1>7. Cardinality(MessagesWith(b) \cup {place}) = Cardinality(MessagesWith(b)) + 1
    <2>. HIDE DEF place
    <2>. QED BY <1>5, <1>6, FS_AddElement
  <1>. QED BY <1>4, <1>6, <1>7

\* The first message of a mailbox is taken; the others move up.
LEMMA MessageLeaves ==
    ASSUME StateOK, NEW v \in Vm, mailbox[v] # <<>>,
           mailbox' = [mailbox EXCEPT ![v] = Tail(@)], NEW b \in Buffer
    PROVE  Cardinality(MessagesWith(b)') =
                Cardinality(MessagesWith(b)) - (IF Head(mailbox[v]).data = b THEN 1 ELSE 0)
  <1>. DEFINE S == MessagesWith(b) \ {<<v, 1>>}
              F == [p \in S |-> IF p[1] = v THEN <<v, p[2] - 1>> ELSE p]
  <1>1. mailbox[v] \in Seq(Messages) /\ Len(mailbox[v]) \in 1 .. MaxMessages
    BY PayloadAssumption DEF StateOK
  <1>2. /\ \A u \in Vm \ {v} : mailbox'[u] = mailbox[u]
        /\ mailbox'[v] = Tail(mailbox[v])
    BY DEF StateOK
  <1>3. /\ DOMAIN mailbox[v] = 1 .. Len(mailbox[v]) /\ mailbox[v][1] = Head(mailbox[v])
        /\ DOMAIN mailbox'[v] = 1 .. Len(mailbox[v]) - 1
        /\ \A i \in 1 .. Len(mailbox[v]) - 1 : mailbox'[v][i] = mailbox[v][i + 1]
    <2>. DEFINE q == mailbox[v]
    <2>1. q \in Seq(Messages) /\ Len(q) >= 1 /\ mailbox'[v] = Tail(q)
      BY <1>1, <1>2
    <2>. HIDE DEF q
    <2>2. /\ DOMAIN q = 1 .. Len(q) /\ q[1] = Head(q)
          /\ DOMAIN Tail(q) = 1 .. Len(q) - 1
          /\ \A i \in 1 .. Len(q) - 1 : Tail(q)[i] = q[i + 1]
      BY <2>1, TailFacts
    <2>. QED BY <2>1, <2>2 DEF q
  <1>4. F \in [S -> MessagesWith(b)']
    <2>1. ASSUME NEW p \in S
          PROVE  (IF p[1] = v THEN <<v, p[2] - 1>> ELSE p) \in MessagesWith(b)'
      <3>1. CASE p[1] = v
        <4>1. p = <<v, p[2]>> /\ p[2] \in 2 .. Len(mailbox[v]) /\ mailbox[v][p[2]].data = b
          BY <3>1, <1>1, <1>3 DEF MessagesWith
        <4>. QED BY <3>1, <4>1, <1>1, <1>3, PayloadAssumption DEF MessagesWith
      <3>2. CASE p[1] # v
        BY <3>2, <1>2 DEF MessagesWith
      <3>. QED BY <3>1, <3>2
    <2>. QED BY <2>1
  <1>5. \A p, q \in S : F[p] = F[q] => p = q
    <2>1. \A p \in S : p = <<p[1], p[2]>> /\ p[2] \in Int
      BY DEF MessagesWith
    <2>. QED BY <2>1
  <1>6. \A q \in MessagesWith(b)' : \E p \in S : F[p] = q
    <2>. SUFFICES ASSUME NEW q \in MessagesWith(b)'
                  PROVE  \E p \in S : F[p] = q
      OBVIOUS
    <2>1. CASE q[1] = v
      <3>1. q = <<v, q[2]>> /\ q[2] \in 1 .. Len(mailbox[v]) - 1
            /\ mailbox[v][q[2] + 1].data = b
        BY <2>1, <1>1, <1>3 DEF MessagesWith
      <3>2. <<v, q[2] + 1>> \in S
        BY <3>1, <1>1, <1>3, PayloadAssumption DEF MessagesWith
      <3>3. F[<<v, q[2] + 1>>] = q
        BY <3>1, <3>2
      <3>. QED BY <3>2, <3>3
    <2>2. CASE q[1] # v
      <3>1. q \in S
        BY <2>2, <1>2 DEF MessagesWith
      <3>. QED BY <2>2, <3>1
    <2>. QED BY <2>1, <2>2
  <1>7. /\ IsFiniteSet(S)
        /\ Cardinality(S) = Cardinality(MessagesWith(b))
                                - (IF <<v, 1>> \in MessagesWith(b) THEN 1 ELSE 0)
        /\ Cardinality(MessagesWith(b)) \in Nat
    <2>1. IsFiniteSet(MessagesWith(b)) /\ Cardinality(MessagesWith(b)) \in Nat
      BY HoldersAreFinite
    <2>2. \A x : /\ IsFiniteSet(MessagesWith(b) \ {x})
                 /\ Cardinality(MessagesWith(b) \ {x}) = Cardinality(MessagesWith(b))
                        - (IF x \in MessagesWith(b) THEN 1 ELSE 0)
      <3>. SUFFICES ASSUME NEW x
                    PROVE  /\ IsFiniteSet(MessagesWith(b) \ {x})
                           /\ Cardinality(MessagesWith(b) \ {x}) = Cardinality(MessagesWith(b))
                                - (IF x \in MessagesWith(b) THEN 1 ELSE 0)
        OBVIOUS
      <3>. QED BY <2>1, FS_RemoveElement
    <2>. QED BY <2>1, <2>2
  <1>8. Cardinality(MessagesWith(b)') = Cardinality(S)
    <2>. HIDE DEF S, F
    <2>. QED BY <1>4, <1>5, <1>6, <1>7, SameSize
  <1>9. <<v, 1>> \in MessagesWith(b) <=> Head(mailbox[v]).data = b
    BY <1>1, <1>3, PayloadAssumption DEF MessagesWith
  <1>. QED BY <1>7, <1>8, <1>9

\* A mailbox goes with all its messages.
LEMMA MailboxGoes ==
    ASSUME StateOK, NEW v \in Vm, mailbox' = [mailbox EXCEPT ![v] = <<>>], NEW b \in Buffer
    PROVE  LET gone == Cardinality({i \in DOMAIN mailbox[v] : mailbox[v][i].data = b})
           IN  /\ gone \in 0 .. Cardinality(MessagesWith(b))
               /\ Cardinality(MessagesWith(b)') = Cardinality(MessagesWith(b)) - gone
  <1>. DEFINE Places == {i \in DOMAIN mailbox[v] : mailbox[v][i].data = b}
              Mine == {p \in MessagesWith(b) : p[1] = v}
              F == [i \in Places |-> <<v, i>>]
  <1>1. mailbox[v] \in Seq(Messages) /\ Len(mailbox[v]) \in 0 .. MaxMessages
        /\ DOMAIN mailbox[v] = 1 .. Len(mailbox[v])
    BY PayloadAssumption DEF StateOK
  <1>2. IsFiniteSet(MessagesWith(b)) /\ Cardinality(MessagesWith(b)) \in Nat
    BY HoldersAreFinite
  <1>3. Places \subseteq 1 .. MaxMessages
    BY <1>1, PayloadAssumption
  <1>4. IsFiniteSet(Places)
    <2>1. IsFiniteSet(1 .. MaxMessages)
      BY PayloadAssumption, FS_Interval
    <2>. HIDE DEF Places
    <2>. QED BY <1>3, <2>1, FS_Subset
  <1>5. Cardinality(Mine) = Cardinality(Places)
    <2>1. F \in [Places -> Mine]
      BY <1>3 DEF MessagesWith
    <2>2. \A i, j \in Places : F[i] = F[j] => i = j
      OBVIOUS
    <2>3. \A p \in Mine : \E i \in Places : F[i] = p
      <3>. SUFFICES ASSUME NEW p \in Mine
                    PROVE  \E i \in Places : F[i] = p
        OBVIOUS
      <3>1. p = <<v, p[2]>> /\ p[2] \in Places
        BY DEF MessagesWith
      <3>. QED BY <3>1
    <2>. HIDE DEF Places, Mine, F
    <2>. QED BY <2>1, <2>2, <2>3, <1>4, SameSize
  <1>6. MessagesWith(b)' = MessagesWith(b) \ Mine
    <2>1. mailbox'[v] = <<>> /\ \A u \in Vm \ {v} : mailbox'[u] = mailbox[u]
      BY DEF StateOK
    <2>2. DOMAIN mailbox'[v] = {}
      BY <2>1
    <2>. QED BY <2>1, <2>2 DEF MessagesWith
  <1>7. MessagesWith(b) \cap Mine = Mine
    OBVIOUS
  <1>8. Cardinality(MessagesWith(b) \ Mine) = Cardinality(MessagesWith(b)) - Cardinality(Mine)
    BY <1>2, <1>7, FS_Difference
  <1>9. Cardinality(Mine) \in Nat /\ Cardinality(Mine) <= Cardinality(MessagesWith(b))
    BY <1>2, FS_Subset, FS_CardinalityType
  <1>. QED BY <1>2, <1>5, <1>6, <1>8, <1>9

\* The same message is put at the end of several mailboxes.
LEMMA MessageToAll ==
    ASSUME StateOK, NEW U \in SUBSET Vm, \A u \in U : Room(u), NEW m \in Messages,
           MessagesWith(m.data) = {},
           mailbox' = [u \in Vm |-> IF u \in U THEN Append(mailbox[u], m) ELSE mailbox[u]]
    PROVE  /\ \A b \in Buffer \ {m.data} : MessagesWith(b)' = MessagesWith(b)
           /\ Cardinality(MessagesWith(m.data)') = Cardinality(U) /\ Cardinality(U) \in Nat
  <1>. DEFINE T == MessagesWith(m.data)'
              F == [u \in U |-> <<u, Len(mailbox[u]) + 1>>]
  <1>1. \A u \in U : /\ mailbox[u] \in Seq(Messages) /\ Len(mailbox[u]) \in 0 .. MaxMessages - 1
                     /\ mailbox'[u] = Append(mailbox[u], m)
    BY PayloadAssumption DEF StateOK, Room
  <1>2. \A u \in Vm \ U : mailbox'[u] = mailbox[u]
    BY DEF StateOK
  <1>3. \A u \in U : /\ DOMAIN mailbox'[u] = 1 .. Len(mailbox[u]) + 1
                     /\ DOMAIN mailbox[u] = 1 .. Len(mailbox[u])
                     /\ \A i \in 1 .. Len(mailbox[u]) : mailbox'[u][i] = mailbox[u][i]
                     /\ mailbox'[u][Len(mailbox[u]) + 1] = m
    BY <1>1
  <1>4. ASSUME NEW b \in Buffer, NEW p \in Vm \X (1 .. MaxMessages)
        PROVE  (p[2] \in DOMAIN mailbox'[p[1]] /\ mailbox'[p[1]][p[2]].data = b)
                <=> \/ p[2] \in DOMAIN mailbox[p[1]] /\ mailbox[p[1]][p[2]].data = b
                    \/ p[1] \in U /\ p[2] = Len(mailbox[p[1]]) + 1 /\ m.data = b
    <2>1. CASE p[1] \in U
      BY <2>1, <1>1, <1>3
    <2>2. CASE p[1] \notin U
      BY <2>2, <1>2
    <2>. QED BY <2>1, <2>2
  <1>5. \A b \in Buffer \ {m.data} : MessagesWith(b)' = MessagesWith(b)
    BY <1>4 DEF MessagesWith
  <1>6. m.data \in Buffer
    BY DEF Messages
  <1>7. \A p \in Vm \X (1 .. MaxMessages) :
            p \in T <=> p[1] \in U /\ p[2] = Len(mailbox[p[1]]) + 1
    BY <1>4, <1>6 DEF MessagesWith
  <1>8. IsFiniteSet(U) /\ Cardinality(U) \in Nat
    BY PayloadAssumption, FS_Subset, FS_CardinalityType
  <1>9. Cardinality(T) = Cardinality(U)
    <2>1. F \in [U -> T]
      <3>1. ASSUME NEW u \in U
            PROVE  <<u, Len(mailbox[u]) + 1>> \in T
        <4>1. <<u, Len(mailbox[u]) + 1>> \in Vm \X (1 .. MaxMessages)
          <5>1. Len(mailbox[u]) \in 0 .. MaxMessages - 1
            BY <1>1
          <5>2. Len(mailbox[u]) + 1 \in 1 .. MaxMessages
            BY <5>1, Bounds
          <5>. QED BY <5>2
        <4>. HIDE DEF T
        <4>. QED BY <4>1, <1>7
      <3>. QED BY <3>1
    <2>2. \A x, y \in U : F[x] = F[y] => x = y
      OBVIOUS
    <2>3. \A p \in T : \E u \in U : F[u] = p
      <3>. SUFFICES ASSUME NEW p \in T
                    PROVE  \E u \in U : F[u] = p
        OBVIOUS
      <3>1. p \in Vm \X (1 .. MaxMessages)
        BY DEF MessagesWith
      <3>2. p[1] \in U /\ p = <<p[1], Len(mailbox[p[1]]) + 1>>
        BY <3>1, <1>7
      <3>. QED BY <3>2
    <2>. HIDE DEF T, F
    <2>. QED BY <2>1, <2>2, <2>3, <1>8, SameSize
  <1>. QED BY <1>5, <1>8, <1>9

-----------------------------------------------------------------------------
(***************************************************************************)
(* The steps.                                                              *)
(***************************************************************************)
LEMMA CallFacts ==
    ASSUME StateOK
    PROVE  /\ NoCall \notin Calls /\ Report \in Calls /\ result[Report].ok
           /\ \A c \in Calls : result[c].size \in Nat
  BY PayloadAssumption DEF StateOK, Calls

\* What was said of a buffer stays true while others are made: only new handles and
\* messages need a look.
LEMMA CarriedOn ==
    ASSUME StateOK, Carried, UNCHANGED result,
           \A b \in Buffer : made[b] # NoCall => made'[b] = made[b],
           \A h \in Handle : (handle[h].state = "held")' =>
                handle'[h] = handle[h] \/ Told(handle[h])',
           \A v \in Vm : \A i \in DOMAIN mailbox'[v] :
                \/ \E j \in DOMAIN mailbox[v] : mailbox'[v][i] = mailbox[v][j]
                \/ Tells(mailbox[v][i])'
    PROVE  Carried'
  <1>1. ASSUME NEW h \in Handle, handle[h].state = "held", handle'[h] = handle[h]
        PROVE  Told(handle[h])'
    <2>1. Told(handle[h]) /\ handle[h].of \in Buffer
      BY <1>1 DEF Carried, StateOK, Handles, NoHandle
    <2>2. made'[handle[h].of] = made[handle[h].of]
      BY <2>1 DEF Told
    <2>. QED BY <1>1, <2>1, <2>2 DEF Told
  <1>2. ASSUME NEW v \in Vm, NEW i \in DOMAIN mailbox'[v],
               NEW j \in DOMAIN mailbox[v], mailbox'[v][i] = mailbox[v][j]
        PROVE  Tells(mailbox[v][i])'
    <2>1. Tells(mailbox[v][j]) /\ mailbox[v][j].data \in Buffer
      <3>1. mailbox[v] \in Seq(Messages)
        BY DEF StateOK
      <3>2. mailbox[v][j] \in Messages
        BY <3>1
      <3>. QED BY <3>2 DEF Carried, Messages
    <2>2. made'[mailbox[v][j].data] = made[mailbox[v][j].data]
      BY <2>1 DEF Tells
    <2>. QED BY <1>2, <2>1, <2>2 DEF Tells
  <1>3. ASSUME NEW h \in Handle, (handle[h].state = "held")'
        PROVE  Told(handle[h])'
    BY <1>1, <1>3
  <1>4. ASSUME NEW v \in Vm, NEW i \in DOMAIN mailbox'[v]
        PROVE  Tells(mailbox[v][i])'
    BY <1>2
  <1>. QED BY <1>3, <1>4 DEF Carried

LEMMA PackStep ==
    ASSUME IInv, NEW v \in Vm, NEW h \in Handle, NEW b \in Buffer, NEW c \in Calls \ {Report},
           Pack(v, h, b, c)
    PROVE  IInv'
  <1>. DEFINE x == Holding(v, b, result[c].size, 0, 0, result[c].size)
  <1>. USE DEF IInv
  <1>1. result[c].size \in Nat /\ c # NoCall /\ result[c].ok
    BY CallFacts DEF Pack
  <1>2. x \in Handles /\ x.state = "held" /\ x.of = b /\ x.size = result[c].size
        /\ x.sent = 0 /\ x.type = 0
    BY <1>1 DEF Holding, Handles, Types
  <1>3. /\ made[b] = NoCall /\ handle[h] = NoHandle
        /\ made' = [made EXCEPT ![b] = c] /\ handle' = [handle EXCEPT ![h] = x]
        /\ UNCHANGED <<result, mailbox, ended>>
        /\ count' = [count EXCEPT ![b] = @ + 1]
        /\ freed' = [freed EXCEPT ![b] = IF count[b] + 1 = 0 THEN @ + 1 ELSE @]
    BY DEF Pack, Share
  <1>4. StateOK'
    BY <1>1, <1>2, <1>3 DEF StateOK, Calls
  <1>5. Carried'
    <2>1. \A a \in Buffer : made[a] # NoCall => made'[a] = made[a]
      BY <1>3 DEF StateOK
    <2>2. handle'[h] = x /\ \A g \in Handle \ {h} : handle'[g] = handle[g]
      BY <1>3 DEF StateOK
    <2>3. Told(handle[h])'
      <3>1. made'[b] = c
        BY <1>3 DEF StateOK
      <3>. HIDE DEF x
      <3>. QED BY <1>1, <1>2, <1>3, <2>2, <3>1 DEF Told
    <2>. QED BY <1>3, <2>1, <2>2, <2>3, CarriedOn
  <1>6. BuffersLiveWhileHeld'
    <2>1. ASSUME NEW a \in Buffer
          PROVE  Holders(a)' = Holders(a) + (IF a = b THEN 1 ELSE 0) /\ Holders(a) \in Nat
      <3>2. MessagesWith(a)' = MessagesWith(a)
        BY <1>3 DEF MessagesWith
      <3>3. Cardinality(ScriptsWith(a)') =
                Cardinality(ScriptsWith(a)) + (IF a = b THEN 1 ELSE 0)
        <4>1. x \in Handles /\ x.state = "held" /\ x.of = b /\ handle' = [handle EXCEPT ![h] = x]
          BY <1>2, <1>3
        <4>. HIDE DEF x
        <4>. QED BY <1>3, <4>1, HandleTaken
      <3>. QED BY <3>2, <3>3, HoldersAreFinite DEF Holders
    <2>2. Holders(b) = 0 /\ count[b] = 0 /\ freed[b] = 0
      BY <1>3, UnmadeIsUnheld
    <2>. QED BY <1>1, <1>3, <2>1, <2>2 DEF BuffersLiveWhileHeld, StateOK
  <1>. QED BY <1>4, <1>5, <1>6

LEMMA PackStringStep ==
    ASSUME IInv, NEW v \in Vm, NEW b \in Buffer, NEW c \in Calls \ {Report}, PackString(v, b, c)
    PROVE  IInv'
  <1>. USE DEF IInv
  <1>1. /\ made[b] = NoCall /\ c # NoCall /\ result[c].ok
        /\ made' = [made EXCEPT ![b] = c] /\ freed' = [freed EXCEPT ![b] = @ + 1]
        /\ UNCHANGED <<result, count, handle, mailbox, ended>>
    BY CallFacts DEF PackString
  <1>2. Holders(b) = 0 /\ count[b] = 0 /\ freed[b] = 0
    BY <1>1, UnmadeIsUnheld
  <1>3. StateOK'
    BY <1>1, <1>2 DEF StateOK, Calls
  <1>4. Carried'
    <2>1. \A a \in Buffer : made[a] # NoCall => made'[a] = made[a]
      BY <1>1 DEF StateOK
    <2>. QED BY <1>1, <2>1, CarriedOn
  <1>5. BuffersLiveWhileHeld'
    <2>1. \A a \in Buffer : Holders(a)' = Holders(a)
      BY <1>1 DEF Holders, ScriptsWith, MessagesWith
    <2>. QED BY <1>1, <1>2, <2>1 DEF BuffersLiveWhileHeld, StateOK
  <1>. QED BY <1>3, <1>4, <1>5

\* What a script sends is what it was told.
LEMMA HeldFacts ==
    ASSUME IInv, NEW h \in Handle, handle[h].state = "held"
    PROVE  LET b == handle[h].of
           IN  /\ b \in Buffer /\ made[b] # NoCall /\ made[b] \in Calls
               /\ result[made[b]].size \in Nat /\ handle[h].size \in 0 .. result[made[b]].size
               /\ Told(handle[h])
               /\ h \in ScriptsWith(b) /\ count[b] = Holders(b)
               /\ Cardinality(ScriptsWith(b)) > 0 /\ Holders(b) > 0 /\ freed[b] = 0
  <1>. DEFINE b == handle[h].of
  <1>. USE DEF IInv
  <1>1. b \in Buffer /\ handle[h].size \in Nat /\ Told(handle[h])
    BY DEF StateOK, Handles, NoHandle, Carried
  <1>2. made[b] # NoCall /\ handle[h].size <= result[made[b]].size
    BY <1>1 DEF Told
  <1>3. made[b] \in Calls /\ result[made[b]].size \in Nat
    BY <1>1, <1>2, CallFacts DEF StateOK
  <1>4. h \in ScriptsWith(b)
    BY DEF ScriptsWith
  <1>5. Cardinality(ScriptsWith(b)) > 0 /\ Holders(b) > 0
    <2>1. ScriptsWith(b) # {}
      BY <1>4
    <2>. HIDE DEF b
    <2>2. IsFiniteSet(ScriptsWith(b)) /\ Cardinality(ScriptsWith(b)) \in Nat
          /\ Cardinality(MessagesWith(b)) \in Nat
      BY <1>1, HoldersAreFinite
    <2>3. Cardinality(ScriptsWith(b)) # 0
      BY <2>1, <2>2, FS_EmptySet
    <2>. QED BY <2>2, <2>3 DEF Holders
  <1>6. count[b] = Holders(b) /\ freed[b] = 0
    BY <1>1, <1>2, <1>5 DEF BuffersLiveWhileHeld
  <1>. QED BY <1>1, <1>2, <1>3, <1>4, <1>5, <1>6

LEMMA SendStep ==
    ASSUME IInv, NEW v \in Vm, NEW h \in Handle, NEW target \in Vm,
           NEW n \in Short \cup {handle[h].size}, Send(v, h, target, n)
    PROVE  IInv'
  <1>. DEFINE b == handle[h].of  m == Message(b, n, MSG_TYPE_LUA)
  <1>. USE DEF IInv
  <1>1. /\ handle[h].state = "held" /\ Room(target) /\ n <= handle[h].size
        /\ mailbox' = [mailbox EXCEPT ![target] = Append(@, m)]
        /\ count' = [count EXCEPT ![b] = @ + 1]
        /\ freed' = [freed EXCEPT ![b] = IF count[b] + 1 = 0 THEN @ + 1 ELSE @]
        /\ UNCHANGED <<result, made, handle, ended>>
    BY DEF Send, Share, Held
  <1>2. /\ b \in Buffer /\ made[b] # NoCall /\ made[b] \in Calls
        /\ result[made[b]].size \in Nat /\ n \in 0 .. result[made[b]].size
        /\ count[b] = Holders(b) /\ Holders(b) > 0 /\ freed[b] = 0
    <2>1. n \in Nat
      BY <1>1, HeldFacts, PayloadAssumption
    <2>. QED BY <1>1, <2>1, HeldFacts
  <1>3. /\ m \in Messages /\ m.data = b /\ m.sent = MSG_TYPE_LUA /\ m.passed = n
        /\ m.sz = SetBit(n, m.sent * Limit)
    <2>1. n \in Nat /\ MSG_TYPE_LUA \in Types
      BY <1>2 DEF Types
    <2>. HIDE DEF b
    <2>. QED BY <1>2, <2>1, MessageFacts
  <1>. HIDE DEF b, m
  <1>4. mailbox[target] \in Seq(Messages) /\ Len(mailbox[target]) + 1 <= MaxMessages
    BY <1>1, Bounds DEF StateOK, Room
  <1>5. /\ mailbox'[target] = Append(mailbox[target], m)
        /\ \A u \in Vm \ {target} : mailbox'[u] = mailbox[u]
        /\ mailbox' \in [Vm -> Seq(Messages)]
        /\ Len(mailbox'[target]) = Len(mailbox[target]) + 1
    BY <1>1, <1>3, <1>4 DEF StateOK
  <1>6. StateOK'
    <2>1. \A u \in Vm : Len(mailbox'[u]) <= MaxMessages
      BY <1>4, <1>5 DEF StateOK
    <2>2. count' \in [Buffer -> Nat] /\ freed' \in [Buffer -> {0, 1}]
      BY <1>1, <1>2 DEF StateOK
    <2>. QED BY <1>1, <1>5, <2>1, <2>2 DEF StateOK, Calls
  <1>7. Carried'
    <2>1. ASSUME NEW u \in Vm, NEW i \in DOMAIN mailbox'[u]
          PROVE  \/ \E j \in DOMAIN mailbox[u] : mailbox'[u][i] = mailbox[u][j]
                 \/ Tells(mailbox[u][i])'
      <3>1. CASE u # target
        BY <3>1, <1>5
      <3>2. CASE u = target /\ i # Len(mailbox[u]) + 1
        <4>1. i \in DOMAIN mailbox[u] /\ mailbox'[u][i] = mailbox[u][i]
          BY <3>2, <1>3, <1>4, <1>5
        <4>. QED BY <4>1
      <3>3. CASE u = target /\ i = Len(mailbox[u]) + 1
        <4>1. mailbox'[u][i] = m
          BY <3>3, <1>3, <1>4, <1>5
        <4>. QED BY <4>1, <1>1, <1>2, <1>3 DEF Tells
      <3>. QED BY <3>1, <3>2, <3>3
    <2>. QED BY <1>1, <2>1, CarriedOn
  <1>8. BuffersLiveWhileHeld'
    <2>1. ASSUME NEW a \in Buffer
          PROVE  Holders(a)' = Holders(a) + (IF a = b THEN 1 ELSE 0) /\ Holders(a) \in Nat
      <3>1. ScriptsWith(a)' = ScriptsWith(a)
        BY <1>1 DEF ScriptsWith
      <3>2. Cardinality(MessagesWith(a)') =
                Cardinality(MessagesWith(a)) + (IF m.data = a THEN 1 ELSE 0)
        BY <1>1, <1>3, MessageArrives
      <3>. QED BY <1>3, <3>1, <3>2, HoldersAreFinite DEF Holders
    <2>. QED BY <1>1, <1>2, <2>1 DEF BuffersLiveWhileHeld, StateOK
  <1>. QED BY <1>6, <1>7, <1>8

LEMMA IAmReadyStep ==
    ASSUME IInv, NEW v \in Vm, NEW b \in Buffer, IAmReady(v, b)
    PROVE  IInv'
  <1>. DEFINE U == Vm \ (ended \cup {v})  n == result[Report].size
              m == Message(b, n, MSG_TYPE_TEXT)
  <1>. USE DEF IInv
  <1>1. /\ made[b] = NoCall /\ \A u \in U : Room(u)
        /\ made' = [made EXCEPT ![b] = Report]
        /\ mailbox' = [u \in Vm |-> IF u \in U THEN Append(mailbox[u], m) ELSE mailbox[u]]
        /\ count' = [count EXCEPT ![b] = @ + Cardinality(U)]
        /\ freed' = [freed EXCEPT ![b] = IF count[b] + Cardinality(U) = 0 THEN @ + 1 ELSE @]
        /\ UNCHANGED <<result, handle, ended>>
    BY DEF IAmReady, Share
  <1>2. Report \in Calls /\ Report # NoCall /\ result[Report].ok /\ n \in Nat
    BY CallFacts
  <1>3. m \in Messages /\ m.data = b /\ m.passed = n /\ m.sz = SetBit(n, m.sent * Limit)
    <2>1. MSG_TYPE_TEXT \in Types
      BY DEF Types
    <2>. HIDE DEF n
    <2>. QED BY <1>2, <2>1, MessageFacts
  <1>4. /\ ScriptsWith(b) = {} /\ MessagesWith(b) = {}
        /\ Holders(b) = 0 /\ count[b] = 0 /\ freed[b] = 0
    BY <1>1, UnmadeIsUnheld
  <1>5. U \subseteq Vm
    OBVIOUS
  <1>. HIDE DEF U, n, m
  <1>6. /\ \A a \in Buffer \ {b} : MessagesWith(a)' = MessagesWith(a)
        /\ Cardinality(MessagesWith(b)') = Cardinality(U) /\ Cardinality(U) \in Nat
    BY <1>1, <1>3, <1>4, <1>5, MessageToAll
  <1>7. \A u \in U : mailbox[u] \in Seq(Messages) /\ Len(mailbox[u]) + 1 <= MaxMessages
    BY <1>1, <1>5, Bounds DEF StateOK, Room
  <1>8. StateOK'
    <2>1. ASSUME NEW u \in Vm
          PROVE  mailbox'[u] \in Seq(Messages) /\ Len(mailbox'[u]) <= MaxMessages
      BY <1>1, <1>3, <1>7 DEF StateOK
    <2>2. count' \in [Buffer -> Nat] /\ freed' \in [Buffer -> {0, 1}]
      BY <1>1, <1>4, <1>6 DEF StateOK
    <2>3. mailbox' \in [Vm -> Seq(Messages)]
      BY <1>1, <2>1
    <2>. QED BY <1>1, <1>2, <2>1, <2>2, <2>3 DEF StateOK, Calls
  <1>9. Carried'
    <2>1. \A a \in Buffer : made[a] # NoCall => made'[a] = made[a]
      BY <1>1 DEF StateOK
    <2>2. ASSUME NEW u \in Vm, NEW i \in DOMAIN mailbox'[u]
          PROVE  \/ \E j \in DOMAIN mailbox[u] : mailbox'[u][i] = mailbox[u][j]
                 \/ Tells(mailbox[u][i])'
      <3>1. CASE u \notin U
        BY <3>1, <1>1
      <3>2. CASE u \in U /\ i # Len(mailbox[u]) + 1
        <4>1. mailbox'[u] = Append(mailbox[u], m)
          BY <3>2, <1>1
        <4>2. i \in DOMAIN mailbox[u] /\ mailbox'[u][i] = mailbox[u][i]
          BY <3>2, <1>3, <1>7, <4>1
        <4>. QED BY <4>2
      <3>3. CASE u \in U /\ i = Len(mailbox[u]) + 1
        <4>1. mailbox'[u][i] = m
          BY <3>3, <1>1, <1>3, <1>7
        <4>2. made'[b] = Report
          BY <1>1 DEF StateOK
        <4>. QED BY <4>1, <4>2, <1>1, <1>2, <1>3 DEF Tells, n
      <3>. QED BY <3>1, <3>2, <3>3
    <2>. QED BY <1>1, <2>1, <2>2, CarriedOn
  <1>10. BuffersLiveWhileHeld'
    <2>1. \A a \in Buffer : ScriptsWith(a)' = ScriptsWith(a)
      BY <1>1 DEF ScriptsWith
    <2>2. \A a \in Buffer \ {b} : Holders(a)' = Holders(a)
      BY <1>6, <2>1 DEF Holders
    <2>3. Holders(b)' = Cardinality(U)
      BY <1>4, <1>6, <2>1, FS_EmptySet DEF Holders
    <2>. QED BY <1>1, <1>2, <1>4, <1>6, <2>2, <2>3 DEF BuffersLiveWhileHeld, StateOK
  <1>. QED BY <1>8, <1>9, <1>10

LEMMA ReceiveStep ==
    ASSUME IInv, NEW v \in Vm, NEW h \in Handle, Receive(v, h)
    PROVE  IInv'
  <1>. DEFINE m == Head(mailbox[v])
              x == Holding(v, m.data, m.sz % Limit, m.sz \div Limit, m.sent, m.passed)
  <1>. USE DEF IInv
  <1>1. /\ mailbox[v] # <<>> /\ handle[h] = NoHandle
        /\ handle' = [handle EXCEPT ![h] = x] /\ mailbox' = [mailbox EXCEPT ![v] = Tail(@)]
        /\ UNCHANGED <<result, made, count, freed, ended>>
    BY DEF Receive
  <1>2. /\ mailbox[v] \in Seq(Messages) /\ Len(mailbox[v]) \in 1 .. MaxMessages
        /\ m = mailbox[v][1] /\ m \in Messages /\ Tells(m)
    <2>1. mailbox[v] \in Seq(Messages) /\ Len(mailbox[v]) \in 1 .. MaxMessages
      BY <1>1, Bounds DEF StateOK
    <2>2. m = mailbox[v][1] /\ 1 \in DOMAIN mailbox[v] /\ m \in Messages
      BY <2>1
    <2>. QED BY <2>1, <2>2 DEF Carried
  <1>3. PICK n \in 0 .. result[made[m.data]].size :
            n = m.passed /\ m.sz = SetBit(n, m.sent * Limit)
    BY <1>2 DEF Tells
  <1>4. /\ m.data \in Buffer /\ m.sent \in Types /\ made[m.data] # NoCall
        /\ result[made[m.data]].size \in Nat
    BY <1>2, CallFacts DEF Messages, Tells, StateOK
  <1>5. /\ m.sz % Limit \in 0 .. Limit - 1 /\ m.sz % Limit <= n
        /\ n < Limit => m.sz % Limit = n /\ m.sz \div Limit = m.sent
    <2>1. n \in Nat
      BY <1>3, <1>4
    <2>. HIDE DEF m
    <2>2. Message(m.data, n, m.sent).sz = m.sz
      BY <1>3, <1>4, <2>1, MessageFacts
    <2>. QED BY <1>4, <2>1, <2>2, MessageFacts
  <1>6. m.sz \div Limit \in Nat
    <2>1. \A a \in Nat, p \in Nat \ {0} : a \div p \in Nat
      OBVIOUS
    <2>2. m.sz \in Nat
      BY <1>2 DEF Messages
    <2>. QED BY <2>1, <2>2, Bounds
  <1>7. /\ x \in Handles /\ x.state = "held" /\ x.of = m.data /\ x.sent = m.sent
        /\ x.passed = n /\ x.size = m.sz % Limit /\ x.type = m.sz \div Limit
    <2>. HIDE DEF m
    <2>. QED BY <1>2, <1>3, <1>4, <1>5, <1>6 DEF Holding, Handles
  <1>. HIDE DEF m, x
  <1>8. StateOK'
    <2>. DEFINE q == mailbox[v]
    <2>1. q \in Seq(Messages) /\ Len(q) \in 1 .. MaxMessages
      BY <1>2
    <2>2. Tail(q) \in Seq(Messages) /\ Len(Tail(q)) <= MaxMessages
      <3>1. q \in Seq(Messages) /\ Len(q) >= 1 /\ Len(q) <= MaxMessages /\ Len(q) \in Nat
        BY <2>1, Bounds
      <3>. HIDE DEF q
      <3>2. Tail(q) \in Seq(Messages) /\ Len(Tail(q)) = Len(q) - 1
        BY ONLY <3>1, TailFacts
      <3>. QED BY ONLY <3>1, <3>2, Bounds
    <2>. QED BY <1>1, <1>7, <2>2 DEF StateOK, Calls
  <1>9. Carried'
    <2>1. Told(handle[h])'
      <3>1. handle'[h] = x
        BY <1>1 DEF StateOK
      <3>2. m.sent # 0
        BY <1>4 DEF Types, MSG_TYPE_LUA, MSG_TYPE_TEXT
      <3>3. /\ x.size <= result[made[m.data]].size
            /\ x.passed < Limit => x.size = x.passed /\ x.type = x.sent
            /\ x.size < Limit
        BY <1>3, <1>4, <1>5, <1>7, Bounds
      <3>. QED BY <1>1, <1>4, <1>7, <3>1, <3>2, <3>3 DEF Told
    <2>2. ASSUME NEW u \in Vm, NEW i \in DOMAIN mailbox'[u]
          PROVE  \E j \in DOMAIN mailbox[u] : mailbox'[u][i] = mailbox[u][j]
      <3>1. CASE u # v
        BY <3>1, <1>1 DEF StateOK
      <3>2. CASE u = v
        <4>1. mailbox'[v] = Tail(mailbox[v])
          BY <1>1 DEF StateOK
        <4>2. i + 1 \in DOMAIN mailbox[v] /\ mailbox'[v][i] = mailbox[v][i + 1]
          BY <3>2, <4>1, <1>2
        <4>. QED BY <3>2, <4>2
      <3>. QED BY <3>1, <3>2
    <2>3. \A g \in Handle \ {h} : handle'[g] = handle[g]
      BY <1>1 DEF StateOK
    <2>. QED BY <1>1, <2>1, <2>2, <2>3, CarriedOn
  <1>10. BuffersLiveWhileHeld'
    <2>1. ASSUME NEW a \in Buffer
          PROVE  Holders(a)' = Holders(a)
      <3>1. Cardinality(ScriptsWith(a)') =
                Cardinality(ScriptsWith(a)) + (IF x.of = a THEN 1 ELSE 0)
        BY <1>1, <1>7, HandleTaken
      <3>2. Cardinality(MessagesWith(a)') =
                Cardinality(MessagesWith(a)) - (IF m.data = a THEN 1 ELSE 0)
        BY <1>1, MessageLeaves DEF m
      <3>. QED BY <1>7, <3>1, <3>2, HoldersAreFinite DEF Holders
    <2>. QED BY <1>1, <2>1 DEF BuffersLiveWhileHeld
  <1>. QED BY <1>8, <1>9, <1>10

LEMMA TrashStep ==
    ASSUME IInv, NEW v \in Vm, NEW h \in Handle, Trash(v, h)
    PROVE  IInv'
  <1>. DEFINE b == handle[h].of  x == [state |-> "trashed"]
  <1>. USE DEF IInv
  <1>1. /\ handle[h].state = "held" /\ handle' = [handle EXCEPT ![h] = x]
        /\ count' = [count EXCEPT ![b] = @ + -1]
        /\ freed' = [freed EXCEPT ![b] = IF count[b] + -1 = 0 THEN @ + 1 ELSE @]
        /\ UNCHANGED <<result, made, mailbox, ended>>
    BY DEF Trash, Share, Held
  <1>2. /\ b \in Buffer /\ made[b] # NoCall /\ h \in ScriptsWith(b)
        /\ count[b] = Holders(b) /\ Holders(b) > 0 /\ freed[b] = 0
    BY <1>1, HeldFacts
  <1>3. x \in Handles /\ x.state # "held"
    BY DEF Handles
  <1>4. \A a \in Buffer : h \in ScriptsWith(a) <=> a = b
    BY <1>2 DEF ScriptsWith
  <1>. HIDE DEF b, x
  <1>5. Holders(b) \in Nat
    BY <1>2, HoldersAreFinite
  <1>6. StateOK'
    <2>1. count[b] + -1 \in Nat
      BY <1>2, <1>5
    <2>2. count' \in [Buffer -> Nat] /\ freed' \in [Buffer -> {0, 1}]
      BY <1>1, <1>2, <2>1 DEF StateOK
    <2>. QED BY <1>1, <1>3, <2>2 DEF StateOK, Calls
  <1>7. Carried'
    <2>1. ASSUME NEW g \in Handle, (handle[g].state = "held")'
          PROVE  handle'[g] = handle[g]
      BY <1>1, <1>3, <2>1 DEF StateOK
    <2>. QED BY <1>1, <2>1, CarriedOn
  <1>8. BuffersLiveWhileHeld'
    <2>1. ASSUME NEW a \in Buffer
          PROVE  Holders(a)' = Holders(a) - (IF a = b THEN 1 ELSE 0) /\ Holders(a) \in Nat
      <3>1. Cardinality(ScriptsWith(a)') = Cardinality(ScriptsWith(a))
                - (IF h \in ScriptsWith(a) THEN 1 ELSE 0)
                + (IF x.state = "held" /\ x.of = a THEN 1 ELSE 0)
        BY <1>1, <1>3, HandleChanges
      <3>2. MessagesWith(a)' = MessagesWith(a)
        BY <1>1 DEF MessagesWith
      <3>. QED BY <1>3, <1>4, <3>1, <3>2, HoldersAreFinite DEF Holders
    <2>. QED BY <1>1, <1>2, <2>1 DEF BuffersLiveWhileHeld, StateOK
  <1>. QED BY <1>6, <1>7, <1>8

LEMMA VmEndsStep ==
    ASSUME IInv, NEW v \in Vm, VmEnds(v)
    PROVE  IInv'
  <1>. DEFINE Gone(b) == Cardinality({i \in DOMAIN mailbox[v] : mailbox[v][i].data = b})
  <1>. USE DEF IInv
  <1>1. /\ ended' = ended \cup {v} /\ mailbox' = [mailbox EXCEPT ![v] = <<>>]
        /\ count' = [b \in Buffer |-> count[b] - Gone(b)]
        /\ freed' = [b \in Buffer |-> IF Gone(b) > 0 /\ count[b] = Gone(b)
                                        THEN freed[b] + 1 ELSE freed[b]]
        /\ UNCHANGED <<result, made, handle>>
    BY DEF VmEnds
  <1>2. ASSUME NEW b \in Buffer
        PROVE  /\ Gone(b) \in Nat /\ Holders(b)' = Holders(b) - Gone(b)
               /\ Holders(b)' \in Nat /\ Holders(b) \in Nat
               /\ Gone(b) > 0 => made[b] # NoCall
    <2>1. /\ Gone(b) \in 0 .. Cardinality(MessagesWith(b))
          /\ Cardinality(MessagesWith(b)') = Cardinality(MessagesWith(b)) - Gone(b)
      BY <1>1, MailboxGoes
    <2>2. ScriptsWith(b)' = ScriptsWith(b)
      BY <1>1 DEF ScriptsWith
    <2>3. /\ Cardinality(ScriptsWith(b)) \in Nat /\ Cardinality(MessagesWith(b)) \in Nat
      BY HoldersAreFinite
    <2>4. made[b] = NoCall => Cardinality(MessagesWith(b)) = 0
      BY UnmadeIsUnheld, FS_EmptySet
    <2>. HIDE DEF Gone
    <2>. QED BY <2>1, <2>2, <2>3, <2>4 DEF Holders
  <1>. HIDE DEF Gone
  <1>3. ASSUME NEW b \in Buffer
        PROVE  /\ count'[b] = Holders(b)' /\ count'[b] \in Nat /\ freed'[b] \in {0, 1}
               /\ freed'[b] = IF made'[b] # NoCall /\ Holders(b)' = 0 THEN 1 ELSE 0
    <2>1. /\ count[b] = Holders(b)
          /\ freed[b] = IF made[b] # NoCall /\ Holders(b) = 0 THEN 1 ELSE 0
      BY DEF BuffersLiveWhileHeld
    <2>2. /\ count'[b] = count[b] - Gone(b) /\ made'[b] = made[b]
          /\ freed'[b] = IF Gone(b) > 0 /\ count[b] = Gone(b) THEN freed[b] + 1 ELSE freed[b]
      BY <1>1
    <2>. QED BY <1>2, <2>1, <2>2
  <1>4. StateOK'
    <2>1. count' \in [Buffer -> Nat] /\ freed' \in [Buffer -> {0, 1}]
      BY <1>1, <1>3
    <2>2. <<>> \in Seq(Messages) /\ Len(<<>>) = 0
      OBVIOUS
    <2>3. mailbox' \in [Vm -> Seq(Messages)] /\ \A u \in Vm : Len(mailbox'[u]) <= MaxMessages
      BY <1>1, <2>2, Bounds DEF StateOK
    <2>. QED BY <1>1, <2>1, <2>3 DEF StateOK, Calls
  <1>5. Carried'
    <2>1. ASSUME NEW u \in Vm, NEW i \in DOMAIN mailbox'[u]
          PROVE  \E j \in DOMAIN mailbox[u] : mailbox'[u][i] = mailbox[u][j]
      <3>1. u # v /\ mailbox'[u] = mailbox[u]
        BY <1>1 DEF StateOK
      <3>. QED BY <3>1
    <2>. QED BY <1>1, <2>1, CarriedOn
  <1>6. BuffersLiveWhileHeld'
    BY <1>3 DEF BuffersLiveWhileHeld
  <1>. QED BY <1>4, <1>5, <1>6

-----------------------------------------------------------------------------
(***************************************************************************)
(* The theorems.                                                           *)
(***************************************************************************)
LEMMA InitHolds == Init => IInv
  <1>. SUFFICES ASSUME Init PROVE IInv
    OBVIOUS
  <1>. USE DEF Init
  <1>1. StateOK
    BY Bounds DEF StateOK, Handles
  <1>2. Carried
    BY DEF Carried, NoHandle
  <1>3. ASSUME NEW b \in Buffer
        PROVE  Holders(b) = 0
    <2>1. ScriptsWith(b) = {} /\ MessagesWith(b) = {}
      BY DEF ScriptsWith, MessagesWith, NoHandle
    <2>. QED BY <2>1, FS_EmptySet DEF Holders
  <1>4. BuffersLiveWhileHeld
    BY <1>3 DEF BuffersLiveWhileHeld
  <1>. QED BY <1>1, <1>2, <1>4 DEF IInv

LEMMA NextHolds == IInv /\ [Next]_vars => IInv'
  <1>. SUFFICES ASSUME IInv, [Next]_vars PROVE IInv'
    OBVIOUS
  <1>1. CASE UNCHANGED vars
    <2>1. StateOK'
      BY <1>1 DEF vars, IInv, StateOK, Calls
    <2>2. Carried'
      BY <1>1 DEF vars, IInv, Carried, Told, Tells
    <2>3. BuffersLiveWhileHeld'
      BY <1>1 DEF vars, IInv, BuffersLiveWhileHeld, Holders, ScriptsWith, MessagesWith
    <2>. QED BY <2>1, <2>2, <2>3 DEF IInv
  <1>2. CASE \E v \in Vm, h \in Handle : \E b \in Buffer, c \in Calls \ {Report} : Pack(v, h, b, c)
    BY <1>2, PackStep
  <1>3. CASE \E v \in Vm, h \in Handle : \E target \in Vm, size \in Short \cup {handle[h].size} :
                Send(v, h, target, size)
    BY <1>3, SendStep
  <1>4. CASE \E v \in Vm, h \in Handle : Receive(v, h)
    BY <1>4, ReceiveStep
  <1>5. CASE \E v \in Vm, h \in Handle : Trash(v, h)
    BY <1>5, TrashStep
  <1>6. CASE \E v \in Vm, b \in Buffer : IAmReady(v, b)
    BY <1>6, IAmReadyStep
  <1>7. CASE \E v \in Vm, b \in Buffer : \E c \in Calls \ {Report} : PackString(v, b, c)
    BY <1>7, PackStringStep
  <1>8. CASE \E v \in Vm : VmEnds(v)
    BY <1>8, VmEndsStep
  <1>9. CASE Over
    BY <1>1, <1>9 DEF Over
  <1>. QED BY <1>1, <1>2, <1>3, <1>4, <1>5, <1>6, <1>7, <1>8, <1>9 DEF Next

\* The inductive invariant holds throughout.
THEOREM Invariance == Spec => []IInv
  <1>. QED BY InitHolds, NextHolds, PTL DEF Spec

\* Counts stay natural, no buffer is freed twice, and a size that a receiver was told
\* has lost its type.
THEOREM TypeCorrect == Spec => []TypeOK
  <1>1. IInv => TypeOK
    <2>. SUFFICES ASSUME IInv PROVE TypeOK
      OBVIOUS
    <2>. USE DEF IInv
    <2>1. ASSUME NEW h \in Handle, handle[h].state = "held"
          PROVE  /\ handle[h].vm \in Vm /\ handle[h].of \in Buffer
                 /\ handle[h].sent # 0 => handle[h].size \in 0 .. Limit - 1
      <3>1. handle[h].vm \in Vm /\ handle[h].of \in Buffer /\ handle[h].size \in Nat
        BY <2>1 DEF StateOK, Handles, NoHandle
      <3>2. handle[h].sent # 0 => handle[h].size < Limit
        BY <2>1 DEF Carried, Told
      <3>. QED BY <3>1, <3>2, Bounds
    <2>2. ASSUME NEW v \in Vm, NEW i \in DOMAIN mailbox[v]
          PROVE  mailbox[v][i].data \in Buffer
      <3>1. mailbox[v] \in Seq(Messages)
        BY DEF StateOK
      <3>2. mailbox[v][i] \in Messages
        BY <3>1
      <3>. QED BY <3>2 DEF Messages
    <2>. QED BY <2>1, <2>2 DEF TypeOK, StateOK
  <1>. QED BY <1>1, Invariance, PTL

\* A buffer lives exactly as long as a script or a message has it, and is freed once:
\* the use count is the number of its holders through every order of sends, receives,
\* trashes and ends of VMs, for any number of VMs, buffers and handles.
THEOREM LiveWhileHeld == Spec => []BuffersLiveWhileHeld
  <1>1. IInv => BuffersLiveWhileHeld
    BY DEF IInv
  <1>. QED BY <1>1, Invariance, PTL

\* Nobody is told a size beyond the end of its buffer, and a size that fits below the
\* type arrives as it was passed, with its type, also when it is sent on.
THEOREM WholeSizes == Spec => []SizesArrive
  <1>1. IInv => SizesArrive
    BY HeldFacts DEF SizesArrive, Told
  <1>. QED BY <1>1, Invariance, PTL

-----------------------------------------------------------------------------
(***************************************************************************)
(* What the serialiser owes to the buffers.  The run payload finds this    *)
(* of the results that LuaSeri computes for its lists.                     *)
(***************************************************************************)
\* All cells of a list, unpacked, are what is due.
RoundTrip == \A r \in Results : \A c \in DOMAIN r : r[c].ok => r[c].read[r[c].size] = r[c].due

\* The first cells of a list, unpacked, are an error or the first of its values.
Truthful == \A r \in Results : \A c \in DOMAIN r : r[c].ok =>
    \A n \in 0 .. r[c].size : r[c].read[n].err \/ IsPrefix(r[c].read[n].values, r[c].plain)

\* If unpack inverts pack on the whole cells, then every receiver of a list that fits
\* below the type unpacks what was packed, whoever passed it on.
THEOREM SentIsReceived == RoundTrip => (Spec => []ArrivesAsSent)
  <1>. SUFFICES ASSUME RoundTrip PROVE Spec => []ArrivesAsSent
    OBVIOUS
  <1>1. IInv => ArrivesAsSent
    <2>. SUFFICES ASSUME IInv, NEW h \in Handle, handle[h].state = "held",
                         handle[h].passed = result[made[handle[h].of]].size,
                         handle[h].sent = 0 \/ result[made[handle[h].of]].size < Limit
                  PROVE  LET c == result[made[handle[h].of]] IN c.read[handle[h].size] = c.due
      BY DEF ArrivesAsSent
    <2>1. /\ made[handle[h].of] \in DOMAIN result /\ result[made[handle[h].of]].ok
          /\ handle[h].size = result[made[handle[h].of]].size /\ result \in Results
      BY HeldFacts DEF Told, IInv, StateOK, Calls
    <2>. QED BY <2>1 DEF RoundTrip
  <1>. QED BY <1>1, Invariance, PTL

\* If unpack makes nothing up of the first cells of a list, then no receiver unpacks
\* anything that was not sent, also of a buffer whose size was cut short.
THEOREM OnlyWhatWasSent == Truthful => (Spec => []NothingIsInvented)
  <1>. SUFFICES ASSUME Truthful PROVE Spec => []NothingIsInvented
    OBVIOUS
  <1>1. IInv => NothingIsInvented
    <2>. SUFFICES ASSUME IInv, NEW h \in Handle, handle[h].state = "held",
                         NEW n \in 0 .. handle[h].size
                  PROVE  LET c == result[made[handle[h].of]]
                         IN  c.read[n].err \/ IsPrefix(c.read[n].values, c.plain)
      BY DEF NothingIsInvented
    <2>1. /\ made[handle[h].of] \in DOMAIN result /\ result[made[handle[h].of]].ok
          /\ n \in 0 .. result[made[handle[h].of]].size /\ result \in Results
      BY HeldFacts DEF IInv, StateOK, Calls
    <2>. QED BY <2>1 DEF Truthful
  <1>. QED BY <1>1, Invariance, PTL
=============================================================================
