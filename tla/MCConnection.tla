---------------------------- MODULE MCConnection ----------------------------
(* Connection to a host with an IPv4 and an IPv6 address. *)
EXTENDS Connection

CONSTANTS A, B

MCAnswers == {[status |-> "fulfilled", value |-> <<[address |-> A, family |-> 4]>>],
              [status |-> "fulfilled", value |-> <<[address |-> B, family |-> 6]>>]}
=============================================================================
