------------------------ MODULE DeterministicRandom ------------------------
(***************************************************************************)
(* DeterministicRandom (src/src/random-source.ts): randomBytes takes the   *)
(* state of an instance one turn further for each byte it returns.         *)
(***************************************************************************)
EXTENDS Xorshift32, Sequences

CONSTANTS Generators,  \* the instances
          Seeds,       \* the seeds they are made from, truncated to an int32
          Lengths,     \* the lengths asked for in one call
          MaxBytes     \* bound: bytes asked of one instance

VARIABLES seed,    \* the seed of each instance
          state,   \* its state
          bytes    \* history: the bytes it has returned

vars == <<seed, state, bytes>>

StatesFrom(x, n) ==
  LET after[i \in 0 .. n] == IF i = 0 THEN x ELSE Xorshift(after[i - 1]) IN after

Init == /\ seed \in [Generators -> Seeds]
        /\ state = seed
        /\ bytes = [g \in Generators |-> <<>>]

RandomBytes(g, length) ==
  LET after == StatesFrom(state[g], length)
  IN  /\ Len(bytes[g]) + length <= MaxBytes
      /\ state' = [state EXCEPT ![g] = after[length]]
      /\ bytes' = [bytes EXCEPT ![g] = @ \o [i \in 1 .. length |-> LowByte(after[i])]]
      /\ UNCHANGED seed

Next == \E g \in Generators, length \in Lengths : RandomBytes(g, length)

Spec == Init /\ [][Next]_vars

-----------------------------------------------------------------------------
(* Instances with different seeds return different sequences               *)
(* (random-source.test.ts, "produces different sequences for different     *)
(* seeds").                                                                *)
DifferentSeedsDiffer ==
  \A g, h \in Generators :
    /\ seed[g] # seed[h]
    /\ Len(bytes[g]) = MaxBytes /\ Len(bytes[h]) = MaxBytes
    => bytes[g] # bytes[h]
=============================================================================
