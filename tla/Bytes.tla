--------------------------------- MODULE Bytes ---------------------------------
(***************************************************************************)
(* Bytes and their bits, as the processors' modules use them.              *)
(***************************************************************************)
EXTENDS Integers, FiniteSets

Byte == 0..255
Low(v) == v % 256
Word(v) == v % 65536
BitOf(v, n) == (v \div 2^n) % 2
Is(v, n) == BitOf(v, n) = 1
Bits(v) == {n \in 0..7 : Is(v, n)}
FromBits(s) == LET w(n) == IF n \in s THEN 2^n ELSE 0
               IN w(0) + w(1) + w(2) + w(3) + w(4) + w(5) + w(6) + w(7)
And(a, b) == FromBits(Bits(a) \cap Bits(b))
Or(a, b)  == FromBits(Bits(a) \union Bits(b))
Xor(a, b) == FromBits((Bits(a) \ Bits(b)) \union (Bits(b) \ Bits(a)))
Signed(v) == IF v >= 128 THEN v - 256 ELSE v
IsDecimal(v) == v % 16 < 10 /\ v < 160
Decimal(v) == 10 * (v \div 16) + (v % 16)
================================================================================
