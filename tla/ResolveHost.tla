----------------------------- MODULE ResolveHost -----------------------------
(***************************************************************************)
(* DNS resolution (src/src/resolve.ts).  A lookup answers with a record:   *)
(* rejected, with an error or with nothing as its reason, or fulfilled     *)
(* with a sequence of addresses, each with the family the resolver         *)
(* reports, 0 when it does not know it.                                    *)
(***************************************************************************)
EXTENDS Naturals, Sequences

Families == {4, 6}

Preferred(ipv6) == IF ipv6 THEN 6 ELSE 4
Alternate(ipv6) == IF ipv6 THEN 4 ELSE 6

Fulfilled(answer) == answer.status = "fulfilled" /\ answer.value # <<>>

(* Mutation: `??' for `||', which lets a reported 0 through. *)
ResolvedNullish(answer, family) ==
  [address |-> Head(answer.value).address, family |-> Head(answer.value).family]

(* A reported family of 0 falls back to the one that was asked for. *)
Resolved(answer, family) ==
  LET first == Head(answer.value)
  IN  [address |-> first.address,
       family  |-> IF first.family = 0 THEN family ELSE first.family]

(* resolveHost: one family, as a set with the address or without any. *)
HostAddress(answer, family) ==
  IF Fulfilled(answer) THEN {Resolved(answer, family)} ELSE {}

(* One turn of the loop of resolveHostCandidates. *)
Kept(answer, family, seen) ==
  IF Fulfilled(answer) /\ Head(answer.value).address \notin seen
  THEN <<Resolved(answer, family)>>
  ELSE <<>>

AddressesIn(candidates) == {candidates[i].address : i \in DOMAIN candidates}

(* Mutation: the families are taken in the order of the protocol versions. *)
CandidatesByVersion(ipv6, answers) ==
  LET first == Kept(answers[4], 4, {})
  IN  first \o Kept(answers[6], 6, AddressesIn(first))

(* resolveHostCandidates, once both lookups have settled. *)
Candidates(ipv6, answers) ==
  LET first == Kept(answers[Preferred(ipv6)], Preferred(ipv6), {})
  IN  first \o Kept(answers[Alternate(ipv6)], Alternate(ipv6), AddressesIn(first))

LookupError(f) == IF f = 4 THEN "lookup4" ELSE "lookup6"

(* What `??' takes for an error: a rejection that has a reason. *)
Failed(answer) == answer.status = "rejected" /\ answer.reason # "undefined"

(* Mutation: the other family's error goes first. *)
DnsCauseAlternate(ipv6, answers) ==
  IF Failed(answers[Alternate(ipv6)]) THEN LookupError(Alternate(ipv6))
  ELSE IF Failed(answers[Preferred(ipv6)]) THEN LookupError(Preferred(ipv6))
  ELSE "noAddresses"

(* The cause of the DnsResolutionError. *)
DnsCause(ipv6, answers) ==
  IF Failed(answers[Preferred(ipv6)]) THEN LookupError(Preferred(ipv6))
  ELSE IF Failed(answers[Alternate(ipv6)]) THEN LookupError(Alternate(ipv6))
  ELSE "noAddresses"
=============================================================================
