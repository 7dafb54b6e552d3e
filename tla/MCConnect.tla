------------------------------ MODULE MCConnect ------------------------------
EXTENDS Connect

CONSTANTS A, B

At(address, family) == [address |-> address, family |-> family]

(* A lookup rejected with a reason and without one, an empty one, one      *)
(* family, a family unreported, an address of the other family, and two    *)
(* addresses.                                                              *)
MCAnswers ==
  {[status |-> "rejected", reason |-> r] : r \in {"error", "undefined"}} \cup
  {[status |-> "fulfilled", value |-> v] :
     v \in {<<>>, <<At(A, 4)>>, <<At(A, 0)>>, <<At(B, 6)>>, <<At(B, 0)>>,
            <<At(A, 4), At(B, 6)>>, <<At(B, 6), At(A, 4)>>}}
=============================================================================
