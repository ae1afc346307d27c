----------------------------- MODULE MCPacking -----------------------------
(* Instance of Packing: bytes with 2 values, so that an int32 ends at 7, a  *)
(* uint16 at 3 and an int64 at 127, and a scalar at each of these limits.   *)
EXTENDS Packing

I(i) == <<"integer", i>>
S(n) == <<"string", [k \in 1 .. n |-> k % Byte]>>

Scalars == {<<"boolean", TRUE>>, I(1), I(3), I(-8), I(-128), <<"real", 200>>,
            <<"pointer", 9>>, S(2), S(3), S(4)}
Bytes == 0 .. 70
=============================================================================
