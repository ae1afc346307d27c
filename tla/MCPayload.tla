----------------------------- MODULE MCPayload -----------------------------
(* Instance of Payload: bytes with 4 values, so that an int32 ends at 127  *)
(* and a uint16 at 15, and lists of arguments at each of the limits.       *)
EXTENDS Payload, LuaSeri

I(i) == <<"integer", i>>
S(n) == <<"string", [k \in 1 .. n |-> k % Byte]>>
Array(s) == <<"table", {<<I(k), s[k]>> : k \in DOMAIN s}, Len(s)>>
True == <<"boolean", TRUE>>
Function == <<"function">>
Holes == <<"table", {<<I(1), True>>, <<I(4), I(5)>>, <<S(1), S(0)>>}, 4>>
NoBorder == <<"table", {<<I(1), True>>, <<I(4), I(5)>>, <<<<"real", 7>>, I(-1)>>}, 1>>
Hole == <<"table", {<<I(2), True>>}, 2>>
Nested(v) == Array(<<Array(<<v>>), True>>)
Proxy(s, raises) == <<"proxy", s, raises>>

Reported == <<S(6), I(2), S(1)>>

Lists == {
    <<>>, <<Nil, True, <<"boolean", FALSE>>, Nil>>,
    <<I(0), I(3), I(4), I(15)>>, <<I(16), I(127), I(-1)>>, <<I(128), I(-128), I(-129)>>,
    <<I(32767), I(-32768)>>, <<<<"real", 9>>, <<"pointer", 5>>>>,
    <<S(0), S(3), S(4), S(9)>>, <<S(15)>>, <<S(16), True>>, <<S(30), I(7)>>,
    <<Array(<<>>), Array(<<I(1), I(2)>>)>>, <<Array(<<I(1), I(20), I(3)>>)>>,
    <<Array(<<I(1), I(2), I(3), I(4)>>)>>, <<Holes>>, <<NoBorder, S(2)>>,
    <<Nested(S(2))>>, <<Nested(Array(<<>>))>>, <<Nested(Hole)>>, <<Nested(Array(<<True>>))>>,
    <<S(9), Array(<<I(1), Function>>)>>,
    <<Proxy(<<<<S(1), I(1)>>, <<I(1), True>>, <<S(1), I(2)>>>>, FALSE), True>>,
    <<Proxy(<<<<S(1), I(1)>>, <<S(1), Nil>>>>, FALSE)>>,
    <<Proxy(<<<<S(9), I(1)>>>>, TRUE)>>, <<Proxy(<<<<NaN, I(1)>>>>, FALSE)>>,
    Reported }

\* The scripts of a behaviour pack one of the lists throughout: buffers with
\* different contents do not interact.
Packs == {[c \in {"list", Report} |-> Call(IF c = Report THEN Reported ELSE a)] : a \in Lists}

Symmetry == Permutations(Buffer) \cup Permutations(Handle) \cup Permutations(Vm)
=============================================================================
