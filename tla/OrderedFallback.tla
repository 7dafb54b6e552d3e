--------------------------- MODULE OrderedFallback ---------------------------
(***************************************************************************)
(* What connect() promises about a host with several addresses (the        *)
(* comments of _establish and the @throws of create, src/src/transport.ts):*)
(* they are dialled in order, each only after the one before has failed;   *)
(* the first that answers is taken; what connect() is rejected with is why *)
(* the last one dialled failed.  Sockets, timers and the budget are not    *)
(* seen here, nor why it may stop before the last address.                 *)
(***************************************************************************)
EXTENDS Naturals, Sequences

CONSTANTS Addresses,  \* what a host may resolve to
          Causes,     \* what an attempt may fail with
          DnsErrors   \* what resolution may fail with

VARIABLES outcome,    \* "resolving", "trying", "connected", "rejected"
          addresses,  \* the addresses found, in the order of preference
          dialled,    \* how many of them have been dialled
          failures,   \* the causes of the attempts that failed, in order
          error       \* what connect() was rejected with

vars == <<outcome, addresses, dialled, failures, error>>

Init == /\ outcome = "resolving"
        /\ addresses = <<>> /\ dialled = 0 /\ failures = <<>>

(* An address may turn out unusable at once. *)
Dial == /\ dialled = Len(failures)
        /\ dialled < Len(addresses')
        /\ dialled' = dialled + 1
        /\ \/ UNCHANGED failures
           \/ \E cause \in Causes : failures' = Append(failures, cause)

Resolved == /\ outcome = "resolving" /\ outcome' = "trying"
            /\ addresses' \in Seq(Addresses)
            /\ Dial
            /\ UNCHANGED error

Unresolved == /\ outcome = "resolving" /\ outcome' = "rejected"
              /\ error' \in DnsErrors
              /\ UNCHANGED <<addresses, dialled, failures>>

Fails == /\ Len(failures) < dialled
         /\ \E cause \in Causes : failures' = Append(failures, cause)
         /\ UNCHANGED <<outcome, addresses, dialled, error>>

DialNext == /\ outcome = "trying"
            /\ Dial
            /\ UNCHANGED <<outcome, addresses, error>>

Connects == /\ outcome = "trying" /\ outcome' = "connected"
            /\ Len(failures) < dialled
            /\ UNCHANGED <<addresses, dialled, failures, error>>

(* No address is left, or no time. *)
GivesUp == /\ outcome = "trying" /\ outcome' = "rejected"
           /\ dialled = Len(failures)
           /\ error' = failures[dialled]
           /\ UNCHANGED <<addresses, dialled, failures>>

Next == Resolved \/ Unresolved \/ Fails \/ DialNext \/ Connects \/ GivesUp

Spec == Init /\ [][Next]_vars
=============================================================================
