------------------------------ MODULE Xorshift32 ------------------------------
(***************************************************************************)
(* The arithmetic of DeterministicRandom (src/src/random-source.ts).  An   *)
(* int32 is the set of its one bits, 31 the sign.                          *)
(***************************************************************************)
EXTENDS Naturals

Bits == 0 .. 31

Xor(x, y) == (x \ y) \cup (y \ x)

ShiftLeft(x, n) == {b + n : b \in {c \in x : c + n <= 31}}

(* The operator >> keeps the sign: what it shifts in is the sign bit. *)
ShiftRight(x, n) == {b \in Bits : b + n \in x \/ (b + n > 31 /\ 31 \in x)}

(* One turn of the loop of randomBytes. *)
Xorshift(x) ==
  LET a == Xor(x, ShiftLeft(x, 13))
      b == Xor(a, ShiftRight(a, 17))
  IN  Xor(b, ShiftLeft(b, 5))

(* (state >>> 0) & 0xff *)
LowByte(x) == x \cap 0 .. 7
=============================================================================
