---------------------------- MODULE RandomSource ----------------------------
(***************************************************************************)
(* createRandomSource (src/src/random-source.ts): randomBytes fills an     *)
(* array from getRandomValues, which refuses more than Quota bytes a call, *)
(* in a loop over subarrays.  Bytes are told apart by their index only.    *)
(***************************************************************************)
EXTENDS Naturals

Limit == 65536  \* `limit' of the loop
Quota == 65536  \* what getRandomValues accepts

VARIABLES length,   \* the bytes asked for
          offset,   \* the loop variable
          drawn,    \* how often each byte was filled
          largest   \* the largest request made of getRandomValues

vars == <<length, offset, drawn, largest>>

Init == /\ length \in Nat
        /\ offset = 0
        /\ drawn = [i \in 0 .. length - 1 |-> 0]
        /\ largest = 0

(* Math.min(offset + limit, len) *)
End == IF offset + Limit < length THEN offset + Limit ELSE length

(* One turn of the loop: getRandomValues(out.subarray(offset, End)). *)
FillChunk == /\ offset < length
             /\ drawn' = [i \in 0 .. length - 1 |->
                            IF offset <= i /\ i < End THEN drawn[i] + 1 ELSE drawn[i]]
             /\ largest' = IF End - offset > largest THEN End - offset ELSE largest
             /\ offset' = offset + Limit
             /\ UNCHANGED length

Spec == Init /\ [][FillChunk]_vars

-----------------------------------------------------------------------------
(* When the loop has ended every byte has been drawn, and drawn once: the  *)
(* chunks meet without a gap or an overlap, also at a length that is a     *)
(* multiple of the limit.                                                  *)
DrawnOnce == offset >= length => \A i \in 0 .. length - 1 : drawn[i] = 1

(* No request is refused by getRandomValues. *)
WithinQuota == largest <= Quota
=============================================================================
