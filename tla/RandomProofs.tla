---------------------------- MODULE RandomProofs ----------------------------
(***************************************************************************)
(* The random sources of src/src/random-source.ts for every length and     *)
(* every state: the chunks of createRandomSource cover the array, and the  *)
(* step of DeterministicRandom merges states two by two, which are told.   *)
(***************************************************************************)
EXTENDS RandomSource, Xorshift32, WellFoundedInduction, TLAPS

-----------------------------------------------------------------------------
(* createRandomSource.                                                     *)

(* What the loop has done so far: the bytes below offset. *)
LoopInv == /\ length \in Nat /\ offset \in Nat /\ largest \in 0 .. Limit
           /\ drawn = [i \in 0 .. length - 1 |-> IF i < offset THEN 1 ELSE 0]

LEMMA Limits == Limit \in Nat /\ 0 < Limit /\ Quota = Limit
  BY DEF Limit, Quota

LEMMA LoopStep == LoopInv /\ [FillChunk]_vars => LoopInv'
<1> SUFFICES ASSUME LoopInv, [FillChunk]_vars PROVE LoopInv'
  OBVIOUS
<1>1. CASE FillChunk
  <2>1. length \in Nat /\ offset \in Nat /\ largest \in 0 .. Limit /\ Limit \in Nat /\ 0 < Limit
    BY Limits DEF LoopInv
  <2>2. length' = length /\ offset' = offset + Limit /\ offset < length
    BY <1>1 DEF FillChunk
  <2>3. offset' \in Nat
    BY <2>1, <2>2
  <2>4. /\ End \in Nat /\ offset < End
        /\ End <= offset + Limit /\ End <= length
        /\ \A i \in 0 .. length - 1 : i < End <=> i < offset + Limit
    BY <2>1, <2>2 DEF End
  <2>5. largest' \in 0 .. Limit
    <3>1. largest' = IF End - offset > largest THEN End - offset ELSE largest
      BY <1>1 DEF FillChunk
    <3>2. End - offset \in 0 .. Limit
      BY <2>1, <2>2, <2>4
    <3> QED
      BY <2>1, <3>1, <3>2
  <2>6. drawn' = [i \in 0 .. length - 1 |-> IF i < offset + Limit THEN 1 ELSE 0]
    <3>1. \A i \in 0 .. length - 1 : drawn[i] = IF i < offset THEN 1 ELSE 0
      BY DEF LoopInv
    <3>2. drawn' = [i \in 0 .. length - 1 |->
                      IF offset <= i /\ i < End THEN drawn[i] + 1 ELSE drawn[i]]
      BY <1>1 DEF FillChunk
    <3>3. ASSUME NEW i \in 0 .. length - 1
          PROVE  (IF offset <= i /\ i < End THEN drawn[i] + 1 ELSE drawn[i])
                   = (IF i < offset + Limit THEN 1 ELSE 0)
      BY <2>1, <2>4, <3>1
    <3> QED
      BY <3>2, <3>3
  <2> QED
    BY <2>1, <2>2, <2>3, <2>5, <2>6 DEF LoopInv
<1>2. CASE UNCHANGED vars
  BY <1>2 DEF vars, LoopInv
<1> QED
  BY <1>1, <1>2

(* For every length, randomBytes draws each byte once and never asks       *)
(* getRandomValues for more than it gives (the loop of createRandomSource).*)
THEOREM EveryByteDrawnOnce == Spec => [](DrawnOnce /\ WithinQuota)
<1>1. Init => LoopInv
  BY Limits DEF Init, LoopInv
<1>2. LoopInv => DrawnOnce /\ WithinQuota
  BY Limits DEF LoopInv, DrawnOnce, WithinQuota
<1> QED
  BY <1>1, <1>2, LoopStep, PTL DEF Spec

-----------------------------------------------------------------------------
(* DeterministicRandom, bit by bit.                                        *)

LEMMA InXor ==
  ASSUME NEW x, NEW y
  PROVE  \A b : b \in Xor(x, y) <=> ~ (b \in x <=> b \in y)
  BY DEF Xor

LEMMA XorLaws ==
  ASSUME NEW x \in SUBSET Bits, NEW y \in SUBSET Bits
  PROVE  /\ Xor(x, y) \in SUBSET Bits
         /\ Xor(x, y) = {} <=> x = y
         /\ \A z \in SUBSET Bits : Xor(x, y) = z <=> y = Xor(x, z)
  BY DEF Xor

LEMMA InShiftLeft ==
  ASSUME NEW x \in SUBSET Bits, NEW n \in Nat
  PROVE  /\ ShiftLeft(x, n) \in SUBSET Bits
         /\ \A b \in Bits : b \in ShiftLeft(x, n) <=> b >= n /\ b - n \in x
  BY DEF ShiftLeft, Bits

LEMMA InShiftRight ==
  ASSUME NEW x \in SUBSET Bits, NEW n \in Nat
  PROVE  /\ ShiftRight(x, n) \in SUBSET Bits
         /\ \A b \in Bits : b \in ShiftRight(x, n) <=>
                             IF b + n <= 31 THEN b + n \in x ELSE 31 \in x
  BY DEF ShiftRight, Bits

(* One of the three statements of the loop, to the left or to the right.   *)
Left(x, n)  == Xor(x, ShiftLeft(x, n))
Right(x, n) == Xor(x, ShiftRight(x, n))

LEMMA XorshiftIs == \A x : Xorshift(x) = Left(Right(Left(x, 13), 17), 5)
  BY DEF Xorshift, Left, Right

LEMMA InLeft ==
  ASSUME NEW x \in SUBSET Bits, NEW n \in Nat
  PROVE  /\ Left(x, n) \in SUBSET Bits
         /\ \A b \in Bits : b \in Left(x, n) <=> ~ (b \in x <=> b >= n /\ b - n \in x)
  BY InXor, InShiftLeft DEF Left, Xor

LEMMA InRight ==
  ASSUME NEW x \in SUBSET Bits, NEW n \in Nat
  PROVE  /\ Right(x, n) \in SUBSET Bits
         /\ \A b \in Bits : b \in Right(x, n) <=>
              ~ (b \in x <=> IF b + n <= 31 THEN b + n \in x ELSE 31 \in x)
  BY InXor, InShiftRight DEF Right, Xor

LEMMA ShiftTypes ==
  /\ 5 \in Nat /\ 13 \in Nat /\ 17 \in Nat
  /\ {} \in SUBSET Bits /\ Bits \in SUBSET Bits
  /\ \A x \in SUBSET Bits : \A n \in Nat :
       Left(x, n) \in SUBSET Bits /\ Right(x, n) \in SUBSET Bits
<1>1. \A x \in SUBSET Bits : \A n \in Nat :
        Left(x, n) \in SUBSET Bits /\ Right(x, n) \in SUBSET Bits
  BY InLeft, InRight, Zenon
<1> QED
  BY <1>1

LEMMA SameBits ==
  ASSUME NEW x \in SUBSET Bits, NEW y \in SUBSET Bits, \A b \in Bits : b \in x <=> b \in y
  PROVE  x = y
  OBVIOUS

(* Each statement is linear over exclusive or. *)
LEMMA LeftLinear ==
  ASSUME NEW x \in SUBSET Bits, NEW y \in SUBSET Bits, NEW n \in Nat
  PROVE  Left(Xor(x, y), n) = Xor(Left(x, n), Left(y, n))
<1>1. Xor(x, y) \in SUBSET Bits /\ Left(x, n) \in SUBSET Bits /\ Left(y, n) \in SUBSET Bits
  BY XorLaws, InLeft
<1>2. \A b \in Bits : b \in Left(Xor(x, y), n) <=> b \in Xor(Left(x, n), Left(y, n))
  <2> TAKE b \in Bits
  <2>1. b \in Left(Xor(x, y), n) <=> ~ (b \in Xor(x, y) <=> b >= n /\ b - n \in Xor(x, y))
    BY <1>1, InLeft
  <2>2. /\ b \in Left(x, n) <=> ~ (b \in x <=> b >= n /\ b - n \in x)
        /\ b \in Left(y, n) <=> ~ (b \in y <=> b >= n /\ b - n \in y)
    BY InLeft
  <2> QED
    BY <2>1, <2>2, InXor
<1> QED
  <2>1. Left(Xor(x, y), n) \in SUBSET Bits /\ Xor(Left(x, n), Left(y, n)) \in SUBSET Bits
    BY <1>1, ShiftTypes, XorLaws, Zenon
  <2> QED
    BY <1>2, <2>1, SameBits, Zenon

LEMMA RightLinear ==
  ASSUME NEW x \in SUBSET Bits, NEW y \in SUBSET Bits, NEW n \in Nat
  PROVE  Right(Xor(x, y), n) = Xor(Right(x, n), Right(y, n))
<1>1. Xor(x, y) \in SUBSET Bits /\ Right(x, n) \in SUBSET Bits /\ Right(y, n) \in SUBSET Bits
  BY XorLaws, InRight
<1>2. \A b \in Bits : b \in Right(Xor(x, y), n) <=> b \in Xor(Right(x, n), Right(y, n))
  <2> TAKE b \in Bits
  <2> DEFINE from(z) == IF b + n <= 31 THEN b + n \in z ELSE 31 \in z
  <2>1. b \in Right(Xor(x, y), n) <=> ~ (b \in Xor(x, y) <=> from(Xor(x, y)))
    BY <1>1, InRight
  <2>2. /\ b \in Right(x, n) <=> ~ (b \in x <=> from(x))
        /\ b \in Right(y, n) <=> ~ (b \in y <=> from(y))
    BY InRight
  <2>3. from(Xor(x, y)) <=> ~ (from(x) <=> from(y))
    BY InXor
  <2> QED
    BY <2>1, <2>2, <2>3, InXor
<1> QED
  <2>1. Right(Xor(x, y), n) \in SUBSET Bits /\ Xor(Right(x, n), Right(y, n)) \in SUBSET Bits
    BY <1>1, ShiftTypes, XorLaws, Zenon
  <2> QED
    BY <1>2, <2>1, SameBits, Zenon

(* One turn of the loop of randomBytes is linear over exclusive or. *)
THEOREM XorshiftLinear ==
  ASSUME NEW x \in SUBSET Bits, NEW y \in SUBSET Bits
  PROVE  Xorshift(Xor(x, y)) = Xor(Xorshift(x), Xorshift(y))
<1> DEFINE ax == Left(x, 13)
           ay == Left(y, 13)
           bx == Right(ax, 17)
           by == Right(ay, 17)
<1>1. ax \in SUBSET Bits /\ ay \in SUBSET Bits /\ Left(Xor(x, y), 13) = Xor(ax, ay)
  BY ShiftTypes, LeftLinear, Zenon
<1> HIDE DEF ax, ay
<1>2. bx \in SUBSET Bits /\ by \in SUBSET Bits /\ Right(Xor(ax, ay), 17) = Xor(bx, by)
  BY <1>1, ShiftTypes, RightLinear, Zenon
<1> HIDE DEF bx, by
<1>3. Left(Xor(bx, by), 5) = Xor(Left(bx, 5), Left(by, 5))
  BY <1>2, ShiftTypes, LeftLinear, Zenon
<1> QED
  BY <1>1, <1>2, <1>3, XorshiftIs DEF ax, ay, bx, by

(* A statement that shifts to the left loses nothing: the lowest bit of a  *)
(* state survives.                                                         *)
LEMMA LeftKernel ==
  ASSUME NEW x \in SUBSET Bits, NEW n \in Nat \ {0}, Left(x, n) = {}
  PROVE  x = {}
<1> SUFFICES ASSUME x # {} PROVE FALSE
  OBVIOUS
<1>1. x \in SUBSET Nat
  BY DEF Bits
<1>2. PICK m \in x : \A b \in x : m <= b
  <2>1. PICK m \in x : \A b \in x : ~ (<<b, m>> \in OpToRel(<, Nat))
    BY <1>1, NatLessThanWellFounded, WFMin, Zenon
  <2>2. \A b \in x : ~ (b < m)
    BY <1>1, <2>1 DEF OpToRel
  <2> QED
    BY <1>1, <2>2
<1>3. m \in Bits /\ ~ (m >= n /\ m - n \in x)
  BY <1>2 DEF Bits
<1> QED
  BY <1>2, <1>3, InLeft

(* The one to the right, with its copies of the sign, loses one state: all *)
(* ones, which the first statement makes of Lost.                          *)
Lost == 0 .. 12 \cup 26 .. 31

LEMMA RightKernel ==
  ASSUME NEW x \in SUBSET Bits, Right(x, 17) = {}
  PROVE  x = {} \/ x = Bits
<1>1. \A b \in Bits : b \in x <=> IF b + 17 <= 31 THEN b + 17 \in x ELSE 31 \in x
  BY InRight
<1>2. \A b \in 15 .. 31 : b \in x <=> 31 \in x
  BY <1>1 DEF Bits
<1>3. \A b \in 0 .. 14 : b \in x <=> b + 17 \in x
  BY <1>1 DEF Bits
<1>4. \A b \in 0 .. 14 : b + 17 \in 15 .. 31
  OBVIOUS
<1>5. \A b \in Bits : b \in 0 .. 14 \/ b \in 15 .. 31
  BY DEF Bits
<1>6. \A b \in Bits : b \in x <=> 31 \in x
  BY <1>2, <1>3, <1>4, <1>5
<1> QED
  BY <1>6

LEMMA LeftOnes ==
  ASSUME NEW x \in SUBSET Bits
  PROVE  Left(x, 13) = Bits <=> x = Lost
<1>1. Lost \in SUBSET Bits
  BY DEF Lost, Bits
<1>2. ASSUME Left(x, 13) = Bits PROVE x = Lost
  <2>1. \A b \in Bits : ~ (b \in x <=> b >= 13 /\ b - 13 \in x)
    BY <1>2, InLeft
  <2>2. \A b \in 0 .. 12 : b \in x
    BY <2>1 DEF Bits
  <2>3. \A b \in 13 .. 25 : b \notin x
    BY <2>1, <2>2 DEF Bits
  <2>4. \A b \in 26 .. 31 : b \in x
    BY <2>1, <2>3 DEF Bits
  <2>5. \A b \in Bits : b \in 0 .. 12 \/ b \in 13 .. 25 \/ b \in 26 .. 31
    BY DEF Bits
  <2>6. \A b \in 13 .. 25 : b \notin Lost
    BY DEF Lost
  <2> QED
    BY <1>1, <2>2, <2>3, <2>4, <2>5, <2>6, SameBits DEF Lost
<1>3. ASSUME x = Lost PROVE Left(x, 13) = Bits
  <2>1. \A b \in Bits : ~ (b \in x <=> b >= 13 /\ b - 13 \in x)
    BY <1>3 DEF Lost, Bits
  <2>2. \A b \in Bits : b \in Left(x, 13)
    BY <2>1, InLeft
  <2> QED
    BY <2>2, InLeft
<1> QED
  BY <1>2, <1>3

LEMMA XorshiftKernel ==
  ASSUME NEW x \in SUBSET Bits
  PROVE  Xorshift(x) = {} <=> x = {} \/ x = Lost
<1> DEFINE a == Left(x, 13)
           b == Right(a, 17)
<1>0. a \in SUBSET Bits /\ b \in SUBSET Bits /\ Xorshift(x) = Left(b, 5)
  BY ShiftTypes, XorshiftIs, Zenon
<1>1. \A n \in Nat : Left({}, n) = {}
  BY DEF Left, Xor, ShiftLeft
<1>2. Right({}, 17) = {} /\ Right(Bits, 17) = {}
  <2>1. Right({}, 17) \in SUBSET Bits /\ Right(Bits, 17) \in SUBSET Bits
    BY ShiftTypes, Zenon
  <2>2. ASSUME NEW z \in {{}, Bits}, NEW i \in Bits PROVE i \notin Right(z, 17)
    <3>1. i \in Right(z, 17) <=> ~ (i \in z <=> IF i + 17 <= 31 THEN i + 17 \in z ELSE 31 \in z)
      BY ShiftTypes, InRight
    <3>2. CASE z = {}
      BY <3>1, <3>2
    <3>3. CASE z = Bits
      BY <3>1, <3>3 DEF Bits
    <3> QED
      BY <3>2, <3>3
  <2> QED
    BY <2>1, <2>2
<1> HIDE DEF a, b
<1>3. Xorshift(x) = {} <=> b = {}
  BY <1>0, <1>1, LeftKernel
<1>4. b = {} <=> a = {} \/ a = Bits
  BY <1>0, <1>2, RightKernel DEF b
<1>5. a = {} <=> x = {}
  BY <1>1, LeftKernel DEF a
<1>6. a = Bits <=> x = Lost
  BY LeftOnes DEF a
<1> QED
  BY <1>3, <1>4, <1>5, <1>6

(* Two states merge, and return the same bytes from then on, exactly if    *)
(* they differ in the 19 bits of Lost: every seed has one such twin, 1 the *)
(* seed 0xFC001FFE (randomBytes, its shift `>>').                          *)
THEOREM StatesMerge ==
  ASSUME NEW x \in SUBSET Bits, NEW y \in SUBSET Bits
  PROVE  Xorshift(x) = Xorshift(y) <=> y = x \/ y = Xor(x, Lost)
<1>1. Xorshift(x) \in SUBSET Bits /\ Xorshift(y) \in SUBSET Bits /\ Lost \in SUBSET Bits
  <2>1. Lost \in SUBSET Bits
    BY DEF Lost, Bits
  <2> QED
    BY <2>1, ShiftTypes, XorshiftIs, Zenon
<1>2. Xor(x, y) \in SUBSET Bits
  BY XorLaws
<1>3. Xorshift(x) = Xorshift(y) <=> Xorshift(Xor(x, y)) = {}
  BY <1>1, XorLaws, XorshiftLinear
<1>4. Xorshift(Xor(x, y)) = {} <=> Xor(x, y) = {} \/ Xor(x, y) = Lost
  BY <1>2, XorshiftKernel
<1>5. Xor(x, y) = {} <=> y = x
  BY XorLaws
<1>6. Xor(x, y) = Lost <=> y = Xor(x, Lost)
  BY <1>1, XorLaws
<1> QED
  BY <1>3, <1>4, <1>5, <1>6

(* The state 0, which returns zeros for ever, follows on 0 and on the seed *)
(* 0xFC001FFF, and on no other state (randomBytes).                        *)
THEOREM OnlyZeros ==
  /\ \A x \in SUBSET Bits : Xorshift(x) = {} <=> x \in {{}, Lost}
  /\ LowByte({}) = {}
<1>1. LowByte({}) = {}
  BY DEF LowByte
<1> QED
  BY <1>1, XorshiftKernel
=============================================================================
