---------------------------- MODULE ConnectProofs ----------------------------
(***************************************************************************)
(* What establishing a transport guarantees for any answers of the         *)
(* resolver, any budget, any lateness of the timers and any pace of the    *)
(* clock.  The inductive invariant says that every attempt but the last    *)
(* has failed, and bounds the timer of the attempt under way by            *)
(* LatestTimer.                                                            *)
(***************************************************************************)
EXTENDS Connect, SequenceTheorems, TLAPS

(* The flags, the timer and the socket of an attempt tell the same story   *)
(* as its promise.                                                         *)
AttemptSound(a) ==
  /\ a.promise = "pending" => /\ ~ a.settled /\ ~ a.connected
                              /\ a.timer # None /\ a.socket = "connecting"
  /\ a.promise = "resolved" => /\ a.settled /\ a.connected
                               /\ a.timer = None /\ a.socket = "up"
  /\ a.promise = "rejected" => /\ ~ a.connected
                               /\ a.settled \/ a.socket = "absent"
                               /\ a.timer = None
                               /\ a.socket \in {"failing", "failed", "gone", "absent"}
                               /\ a.error \in Causes

AttemptsInOrder ==
  /\ \A i \in DOMAIN attempts : AttemptSound(attempts[i])
  /\ \A i \in DOMAIN attempts : i < Tried => attempts[i].promise = "rejected"
  /\ life = "open" <=> attempts # <<>> /\ Current.connected
  /\ idleArmed <=> life = "open"

(* The phase of _establish against the lookups and the attempts. *)
PhaseSound ==
  /\ establish.phase = "resolving" =>
       attempts = <<>> /\ establish.candidates = <<>> /\ establish.error = None
  /\ establish.phase # "resolving" =>
       /\ Answered
       /\ establish.candidates = Dns!Candidates(establish.ipv6, lookups)
       /\ establish.candidates # <<>> => attempts # <<>>
  /\ Tried <= Len(establish.candidates)
  /\ establish.phase \in {"trying", "connected"} =>
       establish.candidates # <<>> /\ establish.error = None
  /\ establish.phase = "connected" => Current.promise = "resolved"
  /\ establish.phase = "rejected" =>
       \/ attempts # <<>> /\ Current.promise = "rejected" /\ establish.error \notin DnsErrors
       \/ /\ establish.candidates = <<>> /\ attempts = <<>>
          /\ establish.error = Dns!DnsCause(establish.ipv6, lookups)

(* Time: nothing outlives LatestTimer, and the first of two attempts       *)
(* leaves all but AttemptCap + Drift + Lag of the budget.                  *)
FirstTimer == establish.deadline - ConnectTimeout + AttemptCap + Drift

InTime ==
  establish.phase = "trying" =>
    /\ now <= LatestTimer + Lag
    /\ Current.promise = "pending" => Current.timer <= LatestTimer
    /\ Tried < Len(establish.candidates) =>
         /\ now <= FirstTimer + Lag
         /\ Current.promise = "pending" => Current.timer <= FirstTimer

IInv == TypeOK /\ AttemptsInOrder /\ PhaseSound /\ InTime /\ FallbackTried

-----------------------------------------------------------------------------
(* ResolveHost.                                                            *)

LEMMA AnswerShape ==
  ASSUME NEW a \in Answers
  PROVE  /\ a.status \in {"rejected", "fulfilled"}
         /\ a.status = "fulfilled" => a.value \in Seq(AddressRecords)
  BY ConnectAssumption

LEMMA RecordShape ==
  ASSUME NEW r \in AddressRecords
  PROVE  /\ r.family \in {0, 4, 6}
         /\ r.address \in {s.address : s \in AddressRecords}
  BY ConnectAssumption

(* The address a lookup contributes. *)
LEMMA ResolvedType ==
  ASSUME NEW a \in Answers, NEW f \in Dns!Families, Dns!Fulfilled(a)
  PROVE  /\ Dns!Resolved(a, f) \in CandidateRecords
         /\ Dns!Resolved(a, f).address = Head(a.value).address
<1>1. a.value \in Seq(AddressRecords) /\ a.value # <<>>
  BY AnswerShape DEF Dns!Fulfilled
<1>2. Head(a.value) \in AddressRecords
  BY <1>1
<1>3. Head(a.value).family \in {0, 4, 6}
      /\ Head(a.value).address \in {s.address : s \in AddressRecords}
  BY <1>2, RecordShape
<1> QED
  BY <1>3 DEF Dns!Resolved, Dns!Families, CandidateRecords

(* One turn of the loop keeps an address that is not there yet, and only   *)
(* then.                                                                   *)
LEMMA KeptFacts ==
  ASSUME NEW a \in Answers, NEW f \in Dns!Families, NEW seen
  PROVE  \/ /\ Dns!Fulfilled(a) /\ Head(a.value).address \notin seen
            /\ Dns!Kept(a, f, seen) = <<Dns!Resolved(a, f)>>
         \/ /\ ~ (Dns!Fulfilled(a) /\ Head(a.value).address \notin seen)
            /\ Dns!Kept(a, f, seen) = <<>>
  BY DEF Dns!Kept

LEMMA FamiliesOf ==
  ASSUME NEW ipv6 \in BOOLEAN
  PROVE  /\ Dns!Preferred(ipv6) \in Dns!Families
         /\ Dns!Alternate(ipv6) \in Dns!Families
         /\ Dns!Families = {Dns!Preferred(ipv6), Dns!Alternate(ipv6)}
  BY DEF Dns!Preferred, Dns!Alternate, Dns!Families

LEMMA ConcatSingletons ==
  ASSUME NEW x, NEW y PROVE <<x>> \o <<y>> = <<x, y>>
<1>1. <<x>> \in Seq({x, y}) /\ <<y>> \in Seq({x, y})
  OBVIOUS
<1>2. Len(<<x>> \o <<y>>) = 2
  BY <1>1
<1>3. (<<x>> \o <<y>>)[1] = x /\ (<<x>> \o <<y>>)[2] = y
  BY <1>1
<1>4. <<x>> \o <<y>> \in Seq({x, y}) /\ <<x, y>> \in Seq({x, y})
  BY <1>1, ConcatProperties
<1> DEFINE s == <<x>> \o <<y>>
           t == <<x, y>>
<1>5. Len(t) = 2 /\ t[1] = x /\ t[2] = y
  OBVIOUS
<1>6. \A i \in 1 .. 2 : s[i] = t[i]
  <2> TAKE i \in 1 .. 2
  <2>1. i = 1 \/ i = 2
    OBVIOUS
  <2> HIDE DEF s, t
  <2> QED
    BY <2>1, <1>3, <1>5 DEF s, t
<1> HIDE DEF s, t
<1>7. s = t
  BY <1>2, <1>4, <1>5, <1>6, SeqEqual DEF s, t
<1> QED
  BY <1>7 DEF s, t

(* The four shapes the candidates can have.  p and a are the preferred and *)
(* the alternate family.                                                   *)
LEMMA CandidateShapes ==
  ASSUME NEW ipv6 \in BOOLEAN, NEW answers \in [Dns!Families -> Answers]
  PROVE  LET p == Dns!Preferred(ipv6)
             a == Dns!Alternate(ipv6)
             first  == Dns!Resolved(answers[p], p)
             second == Dns!Resolved(answers[a], a)
             found  == Dns!Candidates(ipv6, answers)
         IN \/ /\ ~ Dns!Fulfilled(answers[p]) /\ ~ Dns!Fulfilled(answers[a])
               /\ found = <<>>
            \/ /\ ~ Dns!Fulfilled(answers[p]) /\ Dns!Fulfilled(answers[a])
               /\ found = <<second>>
            \/ /\ Dns!Fulfilled(answers[p])
               /\ Dns!Fulfilled(answers[a]) => second.address = first.address
               /\ found = <<first>>
            \/ /\ Dns!Fulfilled(answers[p]) /\ Dns!Fulfilled(answers[a])
               /\ second.address # first.address
               /\ found = <<first, second>>
<1> DEFINE p == Dns!Preferred(ipv6)
           a == Dns!Alternate(ipv6)
           first  == Dns!Resolved(answers[p], p)
           second == Dns!Resolved(answers[a], a)
           kept == Dns!Kept(answers[p], p, {})
           seen == Dns!AddressesIn(kept)
           rest == Dns!Kept(answers[a], a, seen)
<1>1. p \in Dns!Families /\ a \in Dns!Families /\ answers[p] \in Answers /\ answers[a] \in Answers
  BY FamiliesOf
<1>2. Dns!Candidates(ipv6, answers) = kept \o rest
  BY DEF Dns!Candidates
<1>3. Dns!Fulfilled(answers[a]) => second.address = Head(answers[a].value).address
  BY <1>1, ResolvedType
<1>4. \/ Dns!Fulfilled(answers[a]) /\ Head(answers[a].value).address \notin seen /\ rest = <<second>>
      \/ ~ (Dns!Fulfilled(answers[a]) /\ Head(answers[a].value).address \notin seen) /\ rest = <<>>
  BY <1>1, KeptFacts
<1>5. CASE Dns!Fulfilled(answers[p])
  <2>1. kept = <<first>>
    BY <1>1, <1>5, KeptFacts
  <2>2. seen = {first.address}
    BY <2>1 DEF Dns!AddressesIn
  <2> HIDE DEF p, a, first, second, kept, seen, rest
  <2>3. CASE rest = <<>>
    <3>1. kept \o rest = <<first>>
      BY <2>1, <2>3
    <3> QED
      BY <1>2, <1>3, <1>4, <1>5, <2>2, <2>3, <3>1 DEF p, a, first, second
  <2>4. CASE rest = <<second>>
    <3>1. kept \o rest = <<first, second>>
      BY <2>1, <2>4, ConcatSingletons
    <3>2. Dns!Fulfilled(answers[a]) /\ second.address # first.address
      BY <1>3, <1>4, <2>2, <2>4
    <3> QED
      BY <1>2, <1>5, <3>1, <3>2 DEF p, a, first, second
  <2> QED
    BY <1>4, <2>3, <2>4
<1>6. CASE ~ Dns!Fulfilled(answers[p])
  <2>1. kept = <<>>
    BY <1>1, <1>6, KeptFacts
  <2>2. seen = {}
    BY <2>1 DEF Dns!AddressesIn
  <2> HIDE DEF p, a, first, second, kept, seen, rest
  <2>3. kept \o rest = rest
    BY <1>4, <2>1
  <2> QED
    BY <1>2, <1>4, <1>6, <2>2, <2>3 DEF p, a, first, second
<1> QED
  BY <1>5, <1>6

LEMMA CandidatesType ==
  ASSUME NEW ipv6 \in BOOLEAN, NEW answers \in [Dns!Families -> Answers]
  PROVE  /\ Dns!Candidates(ipv6, answers) \in Seq(CandidateRecords)
         /\ Len(Dns!Candidates(ipv6, answers)) <= 2
<1> DEFINE p == Dns!Preferred(ipv6)
           a == Dns!Alternate(ipv6)
           first  == Dns!Resolved(answers[p], p)
           second == Dns!Resolved(answers[a], a)
           found  == Dns!Candidates(ipv6, answers)
<1>1. p \in Dns!Families /\ a \in Dns!Families /\ answers[p] \in Answers /\ answers[a] \in Answers
  BY FamiliesOf
<1>2. /\ Dns!Fulfilled(answers[p]) => first \in CandidateRecords
      /\ Dns!Fulfilled(answers[a]) => second \in CandidateRecords
  BY <1>1, ResolvedType
<1>3. \/ found = <<>>
      \/ found = <<second>> /\ Dns!Fulfilled(answers[a])
      \/ found = <<first>> /\ Dns!Fulfilled(answers[p])
      \/ found = <<first, second>> /\ Dns!Fulfilled(answers[p]) /\ Dns!Fulfilled(answers[a])
  BY CandidateShapes, Zenon
<1> HIDE DEF p, a, first, second, found
<1>4. found \in Seq(CandidateRecords) /\ Len(found) <= 2
  <2>1. CASE found = <<>>
    BY <2>1
  <2>2. CASE found = <<second>> /\ Dns!Fulfilled(answers[a])
    BY <1>2, <2>2
  <2>3. CASE found = <<first>> /\ Dns!Fulfilled(answers[p])
    BY <1>2, <2>3
  <2>4. CASE found = <<first, second>> /\ Dns!Fulfilled(answers[p]) /\ Dns!Fulfilled(answers[a])
    <3>1. first \in CandidateRecords /\ second \in CandidateRecords
      BY <1>2, <2>4
    <3> HIDE <1>2
    <3>2. <<first, second>> \in Seq(CandidateRecords) /\ Len(<<first, second>>) = 2
      BY <3>1
    <3> QED
      BY <2>4, <3>2
  <2> QED
    BY <1>3, <2>1, <2>2, <2>3, <2>4
<1> QED
  BY <1>4 DEF found

LEMMA DnsCauseType ==
  ASSUME NEW ipv6, NEW answers
  PROVE  Dns!DnsCause(ipv6, answers) \in DnsErrors
  BY DEF Dns!DnsCause, Dns!LookupError, DnsErrors

(* The candidates against resolveHost, for any answers. *)
LEMMA CandidatesFacts ==
  ASSUME NEW ipv6 \in BOOLEAN, NEW answers \in [Dns!Families -> Answers]
  PROVE  LET found == Dns!Candidates(ipv6, answers)
             asked(f) == Dns!HostAddress(answers[f], f)
         IN /\ \A c \in asked(Dns!Preferred(ipv6)) : found # <<>> /\ Head(found) = c
            /\ \A f \in Dns!Families : \A c \in asked(f) :
                 \E i \in DOMAIN found : found[i].address = c.address
            /\ \A i, j \in DOMAIN found : found[i].address = found[j].address => i = j
            /\ \A i \in DOMAIN found : \E f \in Dns!Families : found[i] \in asked(f)
            /\ found = <<>> => \A f \in Dns!Families : asked(f) = {}
<1> DEFINE p == Dns!Preferred(ipv6)
           a == Dns!Alternate(ipv6)
           first  == Dns!Resolved(answers[p], p)
           second == Dns!Resolved(answers[a], a)
           found  == Dns!Candidates(ipv6, answers)
           asked(f) == Dns!HostAddress(answers[f], f)
<1>1. p \in Dns!Families /\ a \in Dns!Families /\ \A f \in Dns!Families : f = p \/ f = a
  BY FamiliesOf
<1>2. /\ asked(p) = IF Dns!Fulfilled(answers[p]) THEN {first} ELSE {}
      /\ asked(a) = IF Dns!Fulfilled(answers[a]) THEN {second} ELSE {}
  BY DEF Dns!HostAddress
<1>3. \/ /\ ~ Dns!Fulfilled(answers[p]) /\ ~ Dns!Fulfilled(answers[a])
         /\ found = <<>>
      \/ /\ ~ Dns!Fulfilled(answers[p]) /\ Dns!Fulfilled(answers[a])
         /\ found = <<second>>
      \/ /\ Dns!Fulfilled(answers[p])
         /\ Dns!Fulfilled(answers[a]) => second.address = first.address
         /\ found = <<first>>
      \/ /\ Dns!Fulfilled(answers[p]) /\ Dns!Fulfilled(answers[a])
         /\ second.address # first.address
         /\ found = <<first, second>>
  BY CandidateShapes, Zenon
<1> HIDE DEF p, a, first, second, found, asked
<1> DEFINE Sound == /\ \A c \in asked(p) : found # <<>> /\ Head(found) = c
                    /\ \A f \in Dns!Families : \A c \in asked(f) :
                         \E i \in DOMAIN found : found[i].address = c.address
                    /\ \A i, j \in DOMAIN found : found[i].address = found[j].address => i = j
                    /\ \A i \in DOMAIN found : \E f \in Dns!Families : found[i] \in asked(f)
                    /\ found = <<>> => \A f \in Dns!Families : asked(f) = {}
<1> SUFFICES Sound
  BY Zenon DEF p, found, asked
<1>4. CASE found = <<>>
  <2>1. ~ Dns!Fulfilled(answers[p]) /\ ~ Dns!Fulfilled(answers[a])
    BY <1>3, <1>4
  <2>2. \A f \in Dns!Families : asked(f) = {}
    BY <1>1, <1>2, <2>1
  <2>3. DOMAIN found = {}
    BY <1>4
  <2> QED
    BY <1>1, <2>2, <2>3
<1>5. CASE found = <<second>> /\ ~ Dns!Fulfilled(answers[p]) /\ Dns!Fulfilled(answers[a])
  <2>1. asked(p) = {} /\ asked(a) = {second}
    BY <1>2, <1>5
  <2>2. DOMAIN found = {1} /\ found[1] = second /\ found # <<>>
    BY <1>5
  <2> QED
    BY <1>1, <2>1, <2>2
<1>6. CASE /\ found = <<first>> /\ Dns!Fulfilled(answers[p])
           /\ Dns!Fulfilled(answers[a]) => second.address = first.address
  <2>1. asked(p) = {first}
    BY <1>2, <1>6
  <2>2. \/ asked(a) = {}
        \/ asked(a) = {second} /\ second.address = first.address
    <3>1. CASE Dns!Fulfilled(answers[a])
      BY <1>2, <1>6, <3>1
    <3>2. CASE ~ Dns!Fulfilled(answers[a])
      BY <1>2, <3>2
    <3> QED
      BY <3>1, <3>2
  <2>3. DOMAIN found = {1} /\ found[1] = first /\ found # <<>> /\ Head(found) = first
    BY <1>6
  <2> QED
    BY <1>1, <2>1, <2>2, <2>3
<1>7. CASE /\ found = <<first, second>> /\ second.address # first.address
           /\ Dns!Fulfilled(answers[p]) /\ Dns!Fulfilled(answers[a])
  <2>1. asked(p) = {first} /\ asked(a) = {second}
    BY <1>2, <1>7
  <2>2. /\ DOMAIN found = {1, 2} /\ found[1] = first /\ found[2] = second
        /\ found # <<>> /\ Head(found) = first
    BY <1>7
  <2> QED
    BY <1>1, <1>7, <2>1, <2>2
<1> QED
  BY <1>3, <1>4, <1>5, <1>6, <1>7

-----------------------------------------------------------------------------
(* The attempts.                                                           *)

LEMMA AttemptTimeoutBounds ==
  ASSUME NEW last \in BOOLEAN, NEW remaining \in Int
  PROVE  /\ AttemptTimeout(last, remaining) \in Nat
         /\ AttemptTimeout(last, remaining) <= AtLeast1(remaining)
         /\ ~ last => AttemptTimeout(last, remaining) <= AttemptCap
  BY ConnectAssumption DEF AttemptTimeout, AtLeast1

LEMMA OpenedSound ==
  ASSUME now' \in Nat, NEW timeout \in Nat
  PROVE  /\ Opened(timeout) \in Attempts
         /\ AttemptSound(Opened(timeout))
         /\ Opened(timeout).promise = "pending"
         /\ Opened(timeout).timer = now' + timeout
         /\ ~ Opened(timeout).connected
  BY ConnectAssumption DEF Opened, Attempts, AttemptSound

LEMMA ThrewSound ==
  /\ Threw \in Attempts
  /\ AttemptSound(Threw)
  /\ Threw.promise = "rejected"
  /\ ~ Threw.connected
  BY DEF Threw, Attempts, AttemptSound, Causes

LEMMA ConnectedSound ==
  ASSUME NEW a \in Attempts, AttemptSound(a), a.socket = "connecting"
  PROVE  /\ Connected(a) \in Attempts
         /\ AttemptSound(Connected(a))
         /\ Connected(a).promise = "resolved"
         /\ Connected(a).connected
         /\ a.promise = "pending"
<1>1. a.promise = "pending"
  BY DEF Attempts, AttemptSound
<1> QED
  BY <1>1 DEF Connected, SettleOnce, Attempts, AttemptSound

(* What fail() does to an attempt whose socket event has been consumed: a  *)
(* pending attempt is rejected and released, any other keeps its outcome.  *)
LEMMA FailFacts ==
  ASSUME NEW a \in Attempts, AttemptSound(a), ~ a.connected, NEW c \in Attempts,
         c.settled = a.settled, c.connected = a.connected,
         c.promise = a.promise, c.error = a.error, c.timer \in {a.timer, None},
         c.socket \in {"connecting", "failing", "failed", "gone", "absent"},
         c.socket = "connecting" => a.promise = "pending",
         c.socket = "absent" => a.socket = "absent",
         NEW error \in {"socket", "closed", "timeout"},
         NEW destroyed \in {"failing", "failed", "gone"},
         NEW b, b = Fail(c, error, destroyed),
         a.promise = "pending" \/ a.settled
  PROVE  /\ b \in Attempts
         /\ AttemptSound(b)
         /\ b.promise = "rejected"
         /\ a.promise # "pending" => b.error = a.error
<1>2. CASE a.settled
  <2>1. b = c
    BY <1>2 DEF Fail
  <2>2. a.promise = "rejected" /\ a.timer = None
    BY <1>2 DEF AttemptSound, Attempts
  <2> QED
    BY <1>2, <2>1, <2>2 DEF AttemptSound
<1>3. CASE ~ a.settled
  <2>0. c.promise = "pending" /\ a.promise = "pending"
    BY <1>3
  <2> DEFINE d == SettleOnce(c, "rejected", error)
  <2>1. /\ b = [d EXCEPT !.settled = TRUE, !.timer = None,
                         !.socket = IF @ = "connecting" THEN destroyed ELSE @]
        /\ d = [c EXCEPT !.promise = "rejected", !.error = error]
    BY <1>3, <2>0 DEF Fail, SettleOnce
  <2> HIDE DEF d
  <2> DEFINE gone == IF c.socket = "connecting" THEN destroyed ELSE c.socket
  <2>2. gone \in {"failing", "failed", "gone", "absent"}
    OBVIOUS
  <2>3. /\ b \in Attempts /\ b.settled = TRUE /\ b.connected = c.connected
        /\ b.promise = "rejected" /\ b.timer = None /\ b.socket = gone /\ b.error = error
    BY <2>1, <2>2 DEF Attempts, Causes
  <2>4. AttemptSound(b)
    <3> HIDE DEF gone
    <3> QED
      BY <2>2, <2>3 DEF AttemptSound, Causes
  <2> QED
    BY <2>0, <2>3, <2>4
<1> QED
  BY <1>2, <1>3

-----------------------------------------------------------------------------
(* The invariant, action by action.                                        *)

LEMMA InitInv == Init => IInv
<1> SUFFICES ASSUME Init PROVE IInv
  OBVIOUS
<1>1. /\ establish.phase = "resolving" /\ establish.ipv6 \in BOOLEAN
      /\ establish.candidates = <<>> /\ establish.deadline = 0 /\ establish.error = None
  BY DEF Init
<1>2. attempts = <<>> /\ DOMAIN attempts = {} /\ Tried = 0
  BY DEF Init, Tried
<1>3. TypeOK
  <2>1. establish \in [phase : {"resolving", "trying", "connected", "rejected"}, ipv6 : BOOLEAN,
                       candidates : Seq(CandidateRecords), deadline : Nat,
                       error : Causes \cup DnsErrors \cup {None}]
    <3>1. establish = [phase |-> establish.phase, ipv6 |-> establish.ipv6,
                       candidates |-> establish.candidates, deadline |-> establish.deadline,
                       error |-> establish.error]
      BY DEF Init
    <3>2. /\ establish.phase \in {"resolving", "trying", "connected", "rejected"}
          /\ establish.candidates \in Seq(CandidateRecords) /\ establish.deadline \in Nat
          /\ establish.error \in Causes \cup DnsErrors \cup {None}
      BY <1>1
    <3> QED
      BY <1>1, <3>1, <3>2, Zenon
  <2>2. lookups \in [Dns!Families -> Answers \cup {None}]
    BY DEF Init
  <2>3. attempts \in Seq(Attempts)
    BY <1>2
  <2> QED
    BY <2>1, <2>2, <2>3 DEF Init, TypeOK
<1>4. AttemptsInOrder
  BY <1>2 DEF Init, AttemptsInOrder
<1>5. PhaseSound
  BY <1>1, <1>2 DEF PhaseSound
<1>6. InTime /\ FallbackTried
  BY <1>1 DEF InTime, FallbackTried
<1> QED
  BY <1>3, <1>4, <1>5, <1>6 DEF IInv

(* Replacing one attempt in the sequence. *)
LEMMA Replaced ==
  ASSUME attempts \in Seq(Attempts), NEW i \in DOMAIN attempts, NEW b \in Attempts,
         attempts' = [attempts EXCEPT ![i] = b]
  PROVE  /\ attempts' \in Seq(Attempts)
         /\ DOMAIN attempts' = DOMAIN attempts
         /\ Tried' = Tried /\ Tried \in Nat \ {0} /\ Tried \in DOMAIN attempts
         /\ attempts # <<>> /\ attempts' # <<>>
         /\ attempts'[i] = b
         /\ \A j \in DOMAIN attempts : j # i => attempts'[j] = attempts[j]
         /\ Current' = attempts'[Tried]
  BY DEF Tried, Current

(* Appending one. *)
LEMMA Appended ==
  ASSUME attempts \in Seq(Attempts), NEW b \in Attempts, attempts' = Append(attempts, b)
  PROVE  /\ attempts' \in Seq(Attempts)
         /\ DOMAIN attempts' = DOMAIN attempts \cup {Tried + 1}
         /\ Tried' = Tried + 1 /\ Tried \in Nat
         /\ attempts' # <<>>
         /\ Current' = b /\ attempts'[Tried + 1] = b
         /\ \A j \in DOMAIN attempts : j <= Tried /\ attempts'[j] = attempts[j]
  BY DEF Tried, Current

(* A handler that fails attempt i. *)
LEMMA FailKeeps ==
  ASSUME IInv, NEW i \in DOMAIN attempts, NEW b \in Attempts,
         AttemptSound(b), b.promise = "rejected", ~ attempts[i].connected,
         attempts' = [attempts EXCEPT ![i] = b],
         UNCHANGED <<now, lookups, establish, life, idleArmed>>
  PROVE  IInv'
<1>1. attempts \in Seq(Attempts)
  BY DEF IInv, TypeOK
<1>2. /\ attempts' \in Seq(Attempts)
      /\ DOMAIN attempts' = DOMAIN attempts
      /\ Tried' = Tried /\ Tried \in Nat \ {0} /\ Tried \in DOMAIN attempts
      /\ attempts # <<>> /\ attempts' # <<>>
      /\ attempts'[i] = b
      /\ \A j \in DOMAIN attempts : j # i => attempts'[j] = attempts[j]
      /\ Current' = attempts'[Tried]
  BY <1>1, Replaced
<1>3. ~ b.connected
  BY DEF AttemptSound
<1>4. \/ Current' = Current /\ Tried # i
      \/ Current' = b /\ Current = attempts[i]
  BY <1>2 DEF Current
<1>5. attempts[i].promise # "resolved"
  BY DEF IInv, AttemptsInOrder, AttemptSound
<1>6. TypeOK'
  BY <1>2 DEF IInv, TypeOK
<1>7. AttemptsInOrder'
  <2>1. \A j \in DOMAIN attempts' : AttemptSound(attempts'[j])
    <3> TAKE j \in DOMAIN attempts'
    <3>1. CASE j = i
      BY <1>2, <3>1
    <3>2. CASE j # i
      <4>1. attempts'[j] = attempts[j]
        BY <1>2, <3>2
      <4>2. AttemptSound(attempts[j])
        BY <1>2 DEF IInv, AttemptsInOrder
      <4> QED
        BY <4>1, <4>2
    <3> QED
      BY <3>1, <3>2
  <2>2. \A j \in DOMAIN attempts' : j < Tried' => attempts'[j].promise = "rejected"
    BY <1>2 DEF IInv, AttemptsInOrder
  <2>3. Current'.connected <=> Current.connected
    BY <1>3, <1>4
  <2> QED
    BY <1>2, <2>1, <2>2, <2>3 DEF IInv, AttemptsInOrder, AttemptSound
<1>8. PhaseSound'
  <2>1. Answered' = Answered
    BY DEF Answered
  <2> QED
    BY <1>2, <1>4, <1>5, <2>1 DEF IInv, PhaseSound
<1>9. InTime'
  BY <1>2, <1>4 DEF IInv, InTime, LatestTimer, FirstTimer
<1>10. FallbackTried'
  BY <1>2 DEF IInv, FallbackTried
<1> QED
  BY <1>6, <1>7, <1>8, <1>9, <1>10 DEF IInv

LEMMA LookupSettlesKeeps ==
  ASSUME IInv, NEW f \in Dns!Families, NEW answer \in Answers, LookupSettles(f, answer)
  PROVE  IInv'
<1>1. establish.phase = "resolving"
  BY DEF IInv, PhaseSound, LookupSettles, Answered
<1>2. TypeOK'
  BY DEF IInv, TypeOK, LookupSettles
<1>3. AttemptsInOrder'
  BY DEF IInv, AttemptsInOrder, LookupSettles, Tried, Current
<1>4. PhaseSound' /\ InTime' /\ FallbackTried'
  BY <1>1 DEF IInv, PhaseSound, InTime, FallbackTried, LookupSettles, Tried, Current
<1> QED
  BY <1>2, <1>3, <1>4 DEF IInv

LEMMA OnConnectKeeps ==
  ASSUME IInv, NEW i \in DOMAIN attempts, OnConnect(i)
  PROVE  IInv'
<1> DEFINE b == Connected(attempts[i])
<1>1. attempts \in Seq(Attempts) /\ attempts[i] \in Attempts /\ AttemptSound(attempts[i])
  BY DEF IInv, TypeOK, AttemptsInOrder
<1>2. /\ b \in Attempts /\ AttemptSound(b) /\ b.promise = "resolved" /\ b.connected
      /\ attempts[i].promise = "pending"
  BY <1>1, ConnectedSound DEF OnConnect
<1>3. attempts' = [attempts EXCEPT ![i] = b]
  BY DEF OnConnect, Update
<1> HIDE DEF b
<1>4. /\ attempts' \in Seq(Attempts)
      /\ DOMAIN attempts' = DOMAIN attempts
      /\ Tried' = Tried /\ Tried \in Nat \ {0} /\ Tried \in DOMAIN attempts
      /\ attempts # <<>> /\ attempts' # <<>>
      /\ attempts'[i] = b
      /\ \A j \in DOMAIN attempts : j # i => attempts'[j] = attempts[j]
      /\ Current' = attempts'[Tried]
  BY <1>1, <1>2, <1>3, Replaced
<1>5. i = Tried
  BY <1>1, <1>2, <1>4 DEF IInv, AttemptsInOrder, Tried
<1>6. Current' = b /\ Current = attempts[i]
  BY <1>4, <1>5 DEF Current
<1>7. TypeOK'
  BY <1>4 DEF IInv, TypeOK, OnConnect
<1>8. AttemptsInOrder'
  <2>1. \A j \in DOMAIN attempts' : AttemptSound(attempts'[j])
    <3> TAKE j \in DOMAIN attempts'
    <3>1. CASE j = i
      BY <1>2, <1>4, <3>1
    <3>2. CASE j # i
      <4>1. attempts'[j] = attempts[j]
        BY <1>4, <3>2
      <4>2. AttemptSound(attempts[j])
        BY <1>4 DEF IInv, AttemptsInOrder
      <4> QED
        BY <4>1, <4>2
    <3> QED
      BY <3>1, <3>2
  <2>2. \A j \in DOMAIN attempts' : j < Tried' => attempts'[j].promise = "rejected"
    BY <1>4, <1>5 DEF IInv, AttemptsInOrder
  <2>3. life' = "open" /\ idleArmed'
    BY DEF OnConnect
  <2> QED
    BY <1>2, <1>4, <1>6, <2>1, <2>2, <2>3 DEF AttemptsInOrder
<1>9. establish.phase = "trying"
  BY <1>2, <1>4, <1>6 DEF IInv, PhaseSound, IInv, TypeOK
<1>10. PhaseSound'
  <2>1. establish' = establish /\ Answered' = Answered /\ lookups' = lookups
    BY DEF OnConnect, Answered
  <2> QED
    BY <1>4, <1>9, <2>1 DEF IInv, PhaseSound
<1>11. InTime' /\ FallbackTried'
  BY <1>2, <1>4, <1>6, <1>9 DEF IInv, InTime, LatestTimer, FirstTimer, FallbackTried, OnConnect
<1> QED
  BY <1>7, <1>8, <1>10, <1>11 DEF IInv

(* The three handlers that fail an attempt. *)
LEMMA OnErrorKeeps ==
  ASSUME IInv, NEW i \in DOMAIN attempts, OnError(i)
  PROVE  /\ IInv'
         /\ attempts[i].promise # "pending" =>
              attempts'[i].promise = attempts[i].promise /\ attempts'[i].error = attempts[i].error
         /\ \A j \in DOMAIN attempts : j # i => attempts'[j] = attempts[j]
<1> DEFINE a == attempts[i]
           c == [a EXCEPT !.socket = "failed"]
           b == Fail(c, "socket", "failed")
<1>1. a \in Attempts /\ AttemptSound(a) /\ attempts \in Seq(Attempts)
  BY DEF IInv, TypeOK, AttemptsInOrder
<1>2. ~ a.connected /\ (a.promise = "pending" \/ a.settled) /\ a.promise \in {"pending", "rejected"}
  BY <1>1 DEF OnError, AttemptSound, Attempts
<1>3. /\ c \in Attempts /\ c.settled = a.settled /\ c.connected = a.connected
      /\ c.promise = a.promise /\ c.error = a.error /\ c.timer = a.timer /\ c.socket = "failed"
  BY <1>1 DEF Attempts
<1>4. attempts' = [attempts EXCEPT ![i] = b]
  BY DEF OnError, Update
<1> HIDE DEF a, c
<1>5. /\ b \in Attempts /\ AttemptSound(b) /\ b.promise = "rejected"
      /\ a.promise # "pending" => b.error = a.error
  BY <1>1, <1>2, <1>3, FailFacts
<1> HIDE DEF b
<1>6. UNCHANGED <<now, lookups, establish, life, idleArmed>>
  BY DEF OnError
<1>7. IInv'
  BY <1>1, <1>2, <1>4, <1>5, <1>6, FailKeeps DEF a
<1>8. attempts'[i] = b /\ \A j \in DOMAIN attempts : j # i => attempts'[j] = attempts[j]
  BY <1>1, <1>4, <1>5, Replaced
<1> QED
  BY <1>2, <1>5, <1>7, <1>8 DEF a

LEMMA OnCloseKeeps ==
  ASSUME IInv, NEW i \in DOMAIN attempts, OnClose(i)
  PROVE  /\ IInv'
         /\ attempts[i].promise # "pending" =>
              attempts'[i].promise = attempts[i].promise /\ attempts'[i].error = attempts[i].error
         /\ \A j \in DOMAIN attempts : j # i => attempts'[j] = attempts[j]
<1> DEFINE a == attempts[i]
           c == [a EXCEPT !.socket = "gone"]
           b == Fail(c, "closed", "gone")
<1>1. a \in Attempts /\ AttemptSound(a) /\ attempts \in Seq(Attempts)
  BY DEF IInv, TypeOK, AttemptsInOrder
<1>2. ~ a.connected /\ (a.promise = "pending" \/ a.settled) /\ a.promise \in {"pending", "rejected"}
  BY <1>1 DEF OnClose, AttemptSound, Attempts
<1>3. /\ c \in Attempts /\ c.settled = a.settled /\ c.connected = a.connected
      /\ c.promise = a.promise /\ c.error = a.error /\ c.timer = a.timer /\ c.socket = "gone"
  BY <1>1 DEF Attempts
<1>4. attempts' = [attempts EXCEPT ![i] = b]
  BY DEF OnClose, Update
<1> HIDE DEF a, c
<1>5. /\ b \in Attempts /\ AttemptSound(b) /\ b.promise = "rejected"
      /\ a.promise # "pending" => b.error = a.error
  BY <1>1, <1>2, <1>3, FailFacts
<1> HIDE DEF b
<1>6. UNCHANGED <<now, lookups, establish, life, idleArmed>>
  BY DEF OnClose
<1>7. IInv'
  BY <1>1, <1>2, <1>4, <1>5, <1>6, FailKeeps DEF a
<1>8. attempts'[i] = b /\ \A j \in DOMAIN attempts : j # i => attempts'[j] = attempts[j]
  BY <1>1, <1>4, <1>5, Replaced
<1> QED
  BY <1>2, <1>5, <1>7, <1>8 DEF a

LEMMA OnConnectTimeoutKeeps ==
  ASSUME IInv, NEW i \in DOMAIN attempts, OnConnectTimeout(i)
  PROVE  /\ IInv'
         /\ attempts[i].promise # "pending" =>
              attempts'[i].promise = attempts[i].promise /\ attempts'[i].error = attempts[i].error
         /\ \A j \in DOMAIN attempts : j # i => attempts'[j] = attempts[j]
<1> DEFINE a == attempts[i]
<1>1. a \in Attempts /\ AttemptSound(a) /\ attempts \in Seq(Attempts)
  BY DEF IInv, TypeOK, AttemptsInOrder
<1>2. ~ a.connected /\ a.promise = "pending" /\ a.socket = "connecting"
  BY <1>1 DEF OnConnectTimeout, AttemptSound, Attempts
<1> DEFINE c == [a EXCEPT !.timer = None]
<1>3. /\ c \in Attempts /\ c.settled = a.settled /\ c.connected = a.connected
      /\ c.promise = a.promise /\ c.error = a.error /\ c.timer = None /\ c.socket = a.socket
  BY <1>1, ConnectAssumption DEF Attempts
<1>4. PICK destroyed \in {"failing", "failed"} :
        attempts' = [attempts EXCEPT ![i] = Fail(c, "timeout", destroyed)]
  BY DEF OnConnectTimeout, Update
<1> DEFINE b == Fail(c, "timeout", destroyed)
<1> HIDE DEF a, c
<1>5. b \in Attempts /\ AttemptSound(b) /\ b.promise = "rejected"
  BY <1>1, <1>2, <1>3, FailFacts
<1>6. attempts' = [attempts EXCEPT ![i] = b]
  BY <1>4
<1> HIDE DEF b
<1>7. UNCHANGED <<now, lookups, establish, life, idleArmed>>
  BY DEF OnConnectTimeout
<1>8. IInv'
  BY <1>1, <1>2, <1>5, <1>6, <1>7, FailKeeps DEF a
<1>9. \A j \in DOMAIN attempts : j # i => attempts'[j] = attempts[j]
  BY <1>1, <1>5, <1>6, Replaced
<1> QED
  BY <1>2, <1>8, <1>9 DEF a

LEMMA MoreThanOne == ASSUME NEW n \in Nat, 1 < n PROVE n # 1
  OBVIOUS

LEMMA OneOfTwo ==
  ASSUME NEW m \in Nat \ {0}, NEW n \in Nat, n <= 2, m <= n, m # n
  PROVE  m = 1 /\ n = 2
  OBVIOUS

LEMMA DriftNat == Drift \in Nat /\ Lag \in Nat /\ AttemptCap \in Nat /\ ConnectTimeout \in Nat
  BY ConnectAssumption

(* A timer set at time x, d being the deadline and y the time at which the *)
(* clock was last compared with it.                                        *)
LEMMA TimerBound ==
  ASSUME NEW x \in Nat, NEW y \in Nat, NEW d \in Nat, NEW latest \in Int, NEW t \in Nat,
         x <= y + Drift, d <= latest, y + Drift + 1 <= latest, t <= AtLeast1(d - x)
  PROVE  x + t <= latest
  BY DriftNat DEF AtLeast1

(* What one turn of the loop appends: an attempt timed within the budget,  *)
(* or 1 ms long when the clock has passed the deadline meanwhile.          *)
LEMMA TryFacts ==
  ASSUME attempts \in Seq(Attempts), now \in Nat, NEW n \in Nat, NEW candidates \in Seq(CandidateRecords),
         NEW deadline \in Nat, NEW latest \in Int, deadline <= latest, now + Drift + 1 <= latest,
         TryCandidate(n, candidates, deadline)
  PROVE  /\ now' \in Nat /\ now' <= now + Drift
         /\ \E b \in Attempts :
              /\ attempts' = Append(attempts, b)
              /\ AttemptSound(b) /\ ~ b.connected
              /\ b.promise \in {"pending", "rejected"}
              /\ b.promise = "pending" =>
                   /\ b.timer <= latest
                   /\ n # Len(candidates) => b.timer <= now + Drift + AttemptCap
<1> DEFINE last == n = Len(candidates)
           r == deadline - now'
           t == AttemptTimeout(last, r)
<1>1. now' \in Nat /\ now' <= now + Drift
  BY ConnectAssumption DEF TryCandidate
<1>2. r \in Int /\ last \in BOOLEAN
  BY <1>1
<1>3. t \in Nat /\ t <= AtLeast1(r) /\ (~ last => t <= AttemptCap)
  BY <1>2, AttemptTimeoutBounds
<1>4. now' + t <= latest
  <2> HIDE DEF t
  <2> QED
    BY <1>1, <1>3, TimerBound
<1>5. attempts' = Append(attempts, Opened(t)) \/ attempts' = Append(attempts, Threw)
  BY DEF TryCandidate
<1> HIDE DEF t, r
<1>6. CASE attempts' = Append(attempts, Opened(t))
  <2>1. /\ Opened(t) \in Attempts /\ AttemptSound(Opened(t)) /\ Opened(t).promise = "pending"
        /\ Opened(t).timer = now' + t /\ ~ Opened(t).connected
    BY <1>1, <1>3, OpenedSound
  <2>2. ~ last => now' + t <= now + Drift + AttemptCap
    BY <1>1, <1>3, ConnectAssumption
  <2> QED
    BY <1>1, <1>4, <1>6, <2>1, <2>2
<1>7. CASE attempts' = Append(attempts, Threw)
  BY <1>1, <1>7, ThrewSound
<1> QED
  BY <1>5, <1>6, <1>7

(* The budget in numbers: LatestTimer when the deadline is d. *)
Latest(d) == d - ConnectTimeout + AtLeast1(ConnectTimeout) + Drift

LEMMA LatestFacts ==
  ASSUME NEW d \in Nat
  PROVE  /\ Latest(d) \in Int /\ d <= Latest(d)
         /\ \A t \in Nat : t < d \/ t = d - ConnectTimeout => t + Drift + 1 <= Latest(d)
  BY ConnectAssumption DEF Latest, AtLeast1

(* Opening attempt n, the sequence of attempts being one shorter. *)
LEMMA OpenKeeps ==
  ASSUME attempts \in Seq(Attempts), NEW b \in Attempts, attempts' = Append(attempts, b),
         AttemptSound(b), ~ b.connected, AttemptsInOrder,
         \A i \in DOMAIN attempts : attempts[i].promise = "rejected",
         UNCHANGED <<life, idleArmed>>
  PROVE  /\ AttemptsInOrder'
         /\ attempts' \in Seq(Attempts) /\ attempts' # <<>>
         /\ Tried' = Tried + 1 /\ Tried \in Nat /\ Current' = b
<1>1. /\ attempts' \in Seq(Attempts)
      /\ DOMAIN attempts' = DOMAIN attempts \cup {Tried + 1}
      /\ Tried' = Tried + 1 /\ Tried \in Nat
      /\ attempts' # <<>>
      /\ Current' = b /\ attempts'[Tried + 1] = b
      /\ \A j \in DOMAIN attempts : j <= Tried /\ attempts'[j] = attempts[j]
  BY Appended
<1>2. \A i \in DOMAIN attempts' : AttemptSound(attempts'[i])
  <2> TAKE i \in DOMAIN attempts'
  <2>1. CASE i \in DOMAIN attempts
    <3>1. AttemptSound(attempts[i]) /\ attempts'[i] = attempts[i]
      BY <1>1, <2>1 DEF AttemptsInOrder
    <3> QED
      BY <3>1
  <2>2. CASE i = Tried + 1
    BY <1>1, <2>2
  <2> QED
    BY <1>1, <2>1, <2>2
<1>3. \A i \in DOMAIN attempts' : i < Tried' => attempts'[i].promise = "rejected"
  BY <1>1
<1>4. life # "open" /\ ~ idleArmed
  <2>1. CASE attempts = <<>>
    BY <2>1 DEF AttemptsInOrder
  <2>2. CASE attempts # <<>>
    <3>1. Tried \in DOMAIN attempts /\ Current = attempts[Tried]
      BY <2>2 DEF Tried, Current
    <3>2. ~ Current.connected
      BY <3>1 DEF AttemptsInOrder, AttemptSound
    <3> QED
      BY <3>2 DEF AttemptsInOrder
  <2> QED
    BY <2>1, <2>2
<1>5. ~ Current'.connected
  BY <1>1
<1> QED
  BY <1>1, <1>2, <1>3, <1>4, <1>5 DEF AttemptsInOrder

LEMMA LookupsAnswered ==
  ASSUME TypeOK, Answered
  PROVE  lookups \in [Dns!Families -> Answers]
<1>1. \A f \in Dns!Families : lookups[f] \in Answers
  BY DEF TypeOK, Answered
<1> QED
  BY <1>1 DEF TypeOK

LEMMA ResolutionDoneKeeps ==
  ASSUME IInv, ResolutionDone
  PROVE  IInv'
<1> DEFINE found == Dns!Candidates(establish.ipv6, lookups)
           deadline == now + ConnectTimeout
<1>1. /\ establish.phase = "resolving" /\ Answered /\ attempts = <<>>
      /\ establish.candidates = <<>> /\ establish.error = None
  BY DEF ResolutionDone, IInv, PhaseSound
<1>2. /\ attempts \in Seq(Attempts) /\ now \in Nat /\ establish.ipv6 \in BOOLEAN
      /\ lookups \in [Dns!Families -> Answers]
  BY <1>1, LookupsAnswered DEF IInv, TypeOK
<1>3. found \in Seq(CandidateRecords) /\ Len(found) <= 2 /\ Len(found) \in Nat
  BY <1>2, CandidatesType
<1>4. Dns!DnsCause(establish.ipv6, lookups) \in DnsErrors
  BY DnsCauseType
<1>5. deadline \in Nat /\ now = deadline - ConnectTimeout
  BY <1>2, ConnectAssumption
<1>6. UNCHANGED <<lookups, life, idleArmed>> /\ Answered'
  BY <1>1 DEF ResolutionDone, Answered
<1>7. Tried = 0
  BY <1>1 DEF Tried
<1>8. CASE found = <<>>
  <2>1. /\ establish' = [establish EXCEPT !.phase = "rejected",
                                          !.error = Dns!DnsCause(establish.ipv6, lookups)]
        /\ attempts' = attempts /\ now' = now
    BY <1>8 DEF ResolutionDone
  <2>2. /\ establish'.phase = "rejected" /\ establish'.ipv6 = establish.ipv6
        /\ establish'.candidates = <<>>
        /\ establish'.error = Dns!DnsCause(establish'.ipv6, lookups')
    BY <1>1, <1>6, <2>1 DEF IInv, TypeOK
  <2>3. TypeOK'
    BY <1>4, <1>6, <2>1 DEF IInv, TypeOK
  <2>4. AttemptsInOrder'
    BY <1>6, <2>1 DEF IInv, AttemptsInOrder, Tried, Current
  <2>5. PhaseSound'
    BY <1>1, <1>6, <1>7, <1>8, <2>1, <2>2 DEF PhaseSound, Tried
  <2>6. InTime' /\ FallbackTried'
    BY <1>7, <2>1, <2>2 DEF InTime, FallbackTried, Tried
  <2> QED
    BY <2>3, <2>4, <2>5, <2>6 DEF IInv
<1>9. CASE found # <<>>
  <2>1. /\ establish' = [establish EXCEPT !.phase = "trying", !.candidates = found,
                                          !.deadline = deadline]
        /\ TryCandidate(1, found, deadline)
    BY <1>9 DEF ResolutionDone
  <2> HIDE DEF found, deadline
  <2> DEFINE latest == Latest(deadline)
  <2>0. latest \in Int /\ deadline <= latest /\ now + Drift + 1 <= latest
    BY <1>2, <1>5, LatestFacts
  <2>9. /\ now' \in Nat /\ now' <= now + Drift
        /\ \E b \in Attempts :
              /\ attempts' = Append(attempts, b)
              /\ AttemptSound(b) /\ ~ b.connected
              /\ b.promise \in {"pending", "rejected"}
              /\ b.promise = "pending" =>
                   /\ b.timer <= latest
                   /\ 1 # Len(found) => b.timer <= now + Drift + AttemptCap
    <3> HIDE DEF latest
    <3>1. /\ attempts \in Seq(Attempts) /\ now \in Nat /\ 1 \in Nat
          /\ found \in Seq(CandidateRecords) /\ deadline \in Nat /\ latest \in Int
          /\ deadline <= latest /\ now + Drift + 1 <= latest
          /\ TryCandidate(1, found, deadline)
      BY <1>2, <1>3, <1>5, <2>0, <2>1
    <3> QED
      BY <3>1, TryFacts, Zenon
  <2>2. PICK b \in Attempts :
           /\ attempts' = Append(attempts, b)
           /\ AttemptSound(b) /\ ~ b.connected
           /\ b.promise \in {"pending", "rejected"}
           /\ b.promise = "pending" =>
                /\ b.timer <= latest
                /\ 1 # Len(found) => b.timer <= now + Drift + AttemptCap
    BY <2>9
  <2>3. /\ establish'.phase = "trying" /\ establish'.ipv6 = establish.ipv6
        /\ establish'.candidates = found /\ establish'.deadline = deadline
        /\ establish'.error = None
    BY <1>1, <2>1 DEF IInv, TypeOK
  <2>4. /\ AttemptsInOrder'
        /\ attempts' \in Seq(Attempts) /\ attempts' # <<>>
        /\ Tried' = Tried + 1 /\ Current' = b
    BY <1>1, <1>2, <1>6, <2>2, OpenKeeps DEF IInv
  <2>5. TypeOK'
    BY <1>3, <1>5, <1>6, <2>1, <2>4, <2>9 DEF IInv, TypeOK
  <2>6. PhaseSound'
    <3>1. found = Dns!Candidates(establish'.ipv6, lookups')
      BY <1>6, <2>3 DEF found
    <3>2. 1 <= Len(found)
      BY <1>3, <1>9
    <3> QED
      BY <1>6, <1>7, <1>9, <2>3, <2>4, <3>1, <3>2 DEF PhaseSound
  <2>7. InTime'
    <3>1. b.promise = "pending" => b.timer \in Nat
      BY <2>2 DEF AttemptSound, Attempts
    <3> DEFINE first == deadline - ConnectTimeout + AttemptCap + Drift
    <3>2. now' <= latest + Lag /\ now' <= first + Lag
      <4> HIDE DEF latest
      <4> QED
        BY <1>2, <1>5, <2>0, <2>9, DriftNat
    <3>3. Tried' = 1
      BY <1>7, <2>4
    <3>4. b.promise = "pending" /\ 1 < Len(found) =>
            b.timer <= first
      <4> SUFFICES ASSUME b.promise = "pending", 1 < Len(found)
                   PROVE  b.timer <= first
        OBVIOUS
      <4>1. Len(found) # 1
        BY <1>3, MoreThanOne, Zenon
      <4>2. b.timer <= now + Drift + AttemptCap
        BY <2>2, <4>1
      <4> QED
        BY <1>2, <1>5, <3>1, <4>2, ConnectAssumption
    <3>5. LatestTimer' = latest /\ FirstTimer' = first
      BY <2>3 DEF LatestTimer, FirstTimer, Latest
    <3> HIDE DEF latest, first
    <3> QED
      BY <2>2, <2>3, <2>4, <3>2, <3>3, <3>4, <3>5 DEF InTime
  <2>8. FallbackTried'
    BY <2>3 DEF FallbackTried
  <2> QED
    BY <2>4, <2>5, <2>6, <2>7, <2>8 DEF IInv
<1> QED
  BY <1>8, <1>9

LEMMA AttemptFailedKeeps ==
  ASSUME IInv, AttemptFailed
  PROVE  IInv'
<1>1. /\ establish.phase = "trying" /\ Current.promise = "rejected" /\ Answered
      /\ establish.error = None /\ attempts # <<>> /\ establish.candidates # <<>>
      /\ Tried <= Len(establish.candidates)
      /\ establish.candidates = Dns!Candidates(establish.ipv6, lookups)
  BY DEF AttemptFailed, IInv, PhaseSound
<1>2. /\ attempts \in Seq(Attempts) /\ now \in Nat /\ establish.ipv6 \in BOOLEAN
      /\ lookups \in [Dns!Families -> Answers] /\ establish.deadline \in Nat
      /\ establish.candidates \in Seq(CandidateRecords) /\ Len(establish.candidates) \in Nat
  BY <1>1, LookupsAnswered DEF IInv, TypeOK
<1>3. Len(establish.candidates) <= 2
  BY <1>1, <1>2, CandidatesType
<1>4. Tried \in Nat \ {0} /\ Tried \in DOMAIN attempts /\ Current = attempts[Tried]
  BY <1>1, <1>2 DEF Tried, Current
<1>5. UNCHANGED <<lookups, life, idleArmed>> /\ Answered'
  BY <1>1 DEF AttemptFailed, Answered
<1>6. Tried < Len(establish.candidates) =>
        now <= establish.deadline - ConnectTimeout + AttemptCap + Drift + Lag
  BY <1>1 DEF IInv, InTime, FirstTimer
<1>7. CASE OutOfTime \/ Tried = Len(establish.candidates)
  <2>1. /\ establish' = [establish EXCEPT !.phase = "rejected", !.error = Current.error]
        /\ attempts' = attempts /\ now' = now
    BY <1>7 DEF AttemptFailed
  <2>2. Current.error \in Causes
    BY <1>1, <1>4 DEF IInv, AttemptsInOrder, AttemptSound
  <2>3. /\ establish'.phase = "rejected" /\ establish'.ipv6 = establish.ipv6
        /\ establish'.candidates = establish.candidates /\ establish'.error = Current.error
    BY <2>1 DEF IInv, TypeOK
  <2>4. TypeOK'
    BY <1>5, <2>1, <2>2 DEF IInv, TypeOK
  <2>5. AttemptsInOrder'
    BY <1>5, <2>1 DEF IInv, AttemptsInOrder, Tried, Current
  <2>6. Tried' = Tried /\ Current' = Current
    BY <2>1 DEF Tried, Current
  <2>7. Current.error \notin DnsErrors
    BY <2>2 DEF Causes, DnsErrors
  <2>8. PhaseSound'
    BY <1>1, <1>5, <2>1, <2>3, <2>6, <2>7 DEF PhaseSound
  <2>9. InTime'
    BY <2>3 DEF InTime
  <2>10. FallbackTried'
    <3>1. CASE Tried = Len(establish.candidates)
      BY <2>3, <2>6, <3>1 DEF FallbackTried
    <3>2. CASE OutOfTime /\ Tried # Len(establish.candidates)
      <4>1. Tried < Len(establish.candidates)
        BY <1>1, <1>2, <1>4, <3>2
      <4>2. now <= establish.deadline - ConnectTimeout + AttemptCap + Drift + Lag
        BY <1>6, <4>1
      <4>3. now >= establish.deadline
        BY <3>2 DEF OutOfTime
      <4>4. ~ (AttemptCap + Drift + Lag < ConnectTimeout)
        BY <1>2, <4>2, <4>3, ConnectAssumption
      <4> QED
        BY <4>4 DEF FallbackTried
    <3> QED
      BY <1>7, <3>1, <3>2
  <2> QED
    BY <2>4, <2>5, <2>8, <2>9, <2>10 DEF IInv
<1>8. CASE ~ (OutOfTime \/ Tried = Len(establish.candidates))
  <2>1. TryCandidate(Tried + 1, establish.candidates, establish.deadline) /\ establish' = establish
    BY <1>8 DEF AttemptFailed
  <2>2. now < establish.deadline
    BY <1>2, <1>8 DEF OutOfTime
  <2>3. Tried = 1 /\ Len(establish.candidates) = 2
    <3>1. Tried # Len(establish.candidates)
      BY <1>8
    <3> QED
      BY <1>1, <1>2, <1>3, <1>4, <3>1, OneOfTwo, Zenon
  <2>4. Tried + 1 \in Nat
    BY <1>4
  <2> DEFINE latest == Latest(establish.deadline)
  <2>0. latest \in Int /\ establish.deadline <= latest /\ now + Drift + 1 <= latest
    BY <1>2, <2>2, LatestFacts
  <2> HIDE DEF latest
  <2>12. /\ now' \in Nat /\ now' <= now + Drift
         /\ \E b \in Attempts :
              /\ attempts' = Append(attempts, b)
              /\ AttemptSound(b) /\ ~ b.connected
              /\ b.promise \in {"pending", "rejected"}
              /\ b.promise = "pending" => b.timer <= latest
    <3> DEFINE n == Tried + 1
               found == establish.candidates
               deadline == establish.deadline
    <3>1. /\ attempts \in Seq(Attempts) /\ now \in Nat /\ n \in Nat
          /\ found \in Seq(CandidateRecords) /\ deadline \in Nat /\ latest \in Int
          /\ deadline <= latest /\ now + Drift + 1 <= latest
          /\ TryCandidate(n, found, deadline)
      BY <1>2, <2>0, <2>1, <2>4
    <3> HIDE DEF n, found, deadline
    <3> QED
      BY <3>1, TryFacts, Zenon
  <2>5. PICK b \in Attempts :
           /\ attempts' = Append(attempts, b)
           /\ AttemptSound(b) /\ ~ b.connected
           /\ b.promise \in {"pending", "rejected"}
           /\ b.promise = "pending" => b.timer <= latest
    BY <2>12
  <2>6. \A i \in DOMAIN attempts : attempts[i].promise = "rejected"
    BY <1>1, <1>4, <1>2 DEF IInv, AttemptsInOrder, Tried
  <2>7. /\ AttemptsInOrder'
        /\ attempts' \in Seq(Attempts) /\ attempts' # <<>>
        /\ Tried' = Tried + 1 /\ Current' = b
    BY <1>2, <1>5, <2>5, <2>6, OpenKeeps DEF IInv
  <2>8. TypeOK'
    BY <1>5, <2>1, <2>7, <2>12 DEF IInv, TypeOK
  <2>9. PhaseSound'
    <3>1. Tried' <= Len(establish'.candidates)
      BY <2>1, <2>3, <2>7
    <3> QED
      BY <1>1, <1>5, <2>1, <2>7, <3>1, Zenon DEF PhaseSound
  <2>10. InTime'
    <3>1. now' <= latest + Lag
      BY <1>2, <2>0, <2>12, DriftNat
    <3>3. LatestTimer' = latest
      BY <2>1 DEF LatestTimer, Latest, latest
    <3>2. Tried' = 2
      BY <2>3, <2>7
    <3>4. ~ (Tried' < Len(establish'.candidates))
      BY <2>1, <2>3, <3>2
    <3>5. Current'.promise = "pending" => Current'.timer <= latest
      BY <2>5, <2>7
    <3> QED
      BY <3>1, <3>3, <3>4, <3>5 DEF InTime
  <2>11. FallbackTried'
    BY <1>1, <2>1 DEF FallbackTried
  <2> QED
    BY <2>7, <2>8, <2>9, <2>10, <2>11 DEF IInv
<1> QED
  BY <1>7, <1>8

LEMMA AttemptConnectedKeeps ==
  ASSUME IInv, AttemptConnected
  PROVE  IInv'
<1>1. /\ establish.phase = "trying" /\ Current.promise = "resolved"
      /\ establish' = [establish EXCEPT !.phase = "connected"]
      /\ UNCHANGED <<now, lookups, attempts, life, idleArmed>>
  BY DEF AttemptConnected
<1>2. /\ establish'.phase = "connected" /\ establish'.ipv6 = establish.ipv6
      /\ establish'.candidates = establish.candidates /\ establish'.error = establish.error
  BY <1>1 DEF IInv, TypeOK
<1>3. TypeOK'
  BY <1>1 DEF IInv, TypeOK
<1>4. Tried' = Tried /\ Current' = Current /\ Answered' = Answered
  BY <1>1 DEF Tried, Current, Answered
<1>5. AttemptsInOrder'
  BY <1>1, <1>4 DEF IInv, AttemptsInOrder
<1>6. PhaseSound'
  BY <1>1, <1>2, <1>4 DEF IInv, PhaseSound
<1>7. InTime' /\ FallbackTried'
  BY <1>2 DEF InTime, FallbackTried
<1> QED
  BY <1>3, <1>5, <1>6, <1>7 DEF IInv

(* The clock stops at the first overdue timer, and the timer of the        *)
(* attempt under way is not later than the deadline.                       *)
LEMMA TickKeeps ==
  ASSUME IInv, Tick
  PROVE  IInv'
<1>1. now' = now + 1 /\ UNCHANGED <<lookups, establish, attempts, life, idleArmed>> /\ now \in Nat
  BY DEF Tick, IInv, TypeOK
<1>2. Tried' = Tried /\ Current' = Current /\ Answered' = Answered
  BY <1>1 DEF Tried, Current, Answered
<1>3. TypeOK' /\ AttemptsInOrder' /\ PhaseSound' /\ FallbackTried'
  BY <1>1, <1>2 DEF IInv, TypeOK, AttemptsInOrder, PhaseSound, FallbackTried
<1>4. InTime'
  <2> SUFFICES ASSUME establish.phase = "trying" PROVE InTime'
    BY <1>1 DEF InTime
  <2>1. attempts # <<>> /\ Current.promise = "pending" /\ \A i \in DOMAIN attempts : ~ Overdue(i)
    BY DEF Tick, ClockRuns, IInv, PhaseSound
  <2>2. Tried \in DOMAIN attempts /\ Current = attempts[Tried]
    BY <2>1 DEF Tried, Current, IInv, TypeOK
  <2>3. Current.timer \in Nat
    <3>1. attempts[Tried] \in Attempts /\ AttemptSound(attempts[Tried])
      BY <2>2 DEF IInv, TypeOK, AttemptsInOrder
    <3> QED
      BY <2>1, <2>2, <3>1 DEF AttemptSound, Attempts
  <2>4. Current.timer # None
    BY <2>1, <2>2 DEF IInv, AttemptsInOrder, AttemptSound
  <2>5. now < Current.timer + Lag
    BY <1>1, <2>1, <2>2, <2>3, <2>4, ConnectAssumption DEF Overdue
  <2>6. /\ LatestTimer \in Int /\ FirstTimer \in Int /\ Current.timer <= LatestTimer
        /\ LatestTimer' = LatestTimer /\ FirstTimer' = FirstTimer
    <3>1. establish.deadline \in Nat
      BY DEF IInv, TypeOK
    <3> QED
      BY <1>1, <2>1, <3>1, ConnectAssumption
         DEF IInv, InTime, LatestTimer, FirstTimer, AtLeast1
  <2>7. now + 1 <= LatestTimer + Lag
    BY <1>1, <2>3, <2>5, <2>6, ConnectAssumption
  <2>8. Tried < Len(establish.candidates) => now + 1 <= FirstTimer + Lag
    <3> SUFFICES ASSUME Tried < Len(establish.candidates)
                 PROVE  now + 1 <= FirstTimer + Lag
      OBVIOUS
    <3>1. Current.timer <= FirstTimer
      BY <2>1 DEF IInv, InTime
    <3> QED
      BY <1>1, <2>3, <2>5, <2>6, <3>1, ConnectAssumption
  <2> QED
    BY <1>1, <1>2, <2>6, <2>7, <2>8 DEF IInv, InTime
<1> QED
  BY <1>3, <1>4 DEF IInv

LEMMA Inductive == IInv /\ [Next]_vars => IInv'
<1> SUFFICES ASSUME IInv, [Next]_vars PROVE IInv'
  OBVIOUS
<1>1. ASSUME NEW f \in Dns!Families, NEW answer \in Answers, LookupSettles(f, answer) PROVE IInv'
  BY <1>1, LookupSettlesKeeps
<1>2. CASE ResolutionDone
  BY <1>2, ResolutionDoneKeeps
<1>3. ASSUME NEW i \in DOMAIN attempts, OnConnect(i) PROVE IInv'
  BY <1>3, OnConnectKeeps
<1>4. ASSUME NEW i \in DOMAIN attempts, OnError(i) PROVE IInv'
  BY <1>4, OnErrorKeeps
<1>5. ASSUME NEW i \in DOMAIN attempts, OnClose(i) PROVE IInv'
  BY <1>5, OnCloseKeeps
<1>6. ASSUME NEW i \in DOMAIN attempts, OnConnectTimeout(i) PROVE IInv'
  BY <1>6, OnConnectTimeoutKeeps
<1>7. CASE AttemptFailed
  BY <1>7, AttemptFailedKeeps
<1>8. CASE AttemptConnected
  BY <1>8, AttemptConnectedKeeps
<1>9. CASE Tick
  BY <1>9, TickKeeps
<1>10. CASE UNCHANGED vars
  BY <1>10 DEF vars, IInv, TypeOK, AttemptsInOrder, PhaseSound, InTime, LatestTimer,
               FirstTimer, FallbackTried,
               Tried, Current, Answered
<1> QED
  BY <1>1, <1>2, <1>3, <1>4, <1>5, <1>6, <1>7, <1>8, <1>9, <1>10 DEF Next, Done

-----------------------------------------------------------------------------
(* Establishing a transport keeps the invariant. *)
THEOREM Invariant == Spec => []IInv
  BY InitInv, Inductive, PTL DEF Spec

(* Every variable keeps its type. *)
THEOREM TypeCorrect == Spec => []TypeOK
<1>1. IInv => TypeOK
  BY DEF IInv
<1> QED
  BY <1>1, Invariant, PTL

LEMMA ResolutionFacts == IInv => CandidatesSound /\ DnsErrorSound
<1> SUFFICES ASSUME IInv PROVE CandidatesSound /\ DnsErrorSound
  OBVIOUS
<1>1. ASSUME establish.phase # "resolving"
      PROVE  /\ establish.ipv6 \in BOOLEAN /\ lookups \in [Dns!Families -> Answers]
             /\ establish.candidates = Dns!Candidates(establish.ipv6, lookups)
  BY <1>1, LookupsAnswered DEF IInv, TypeOK, PhaseSound
<1>2. CandidatesSound
  <2> SUFFICES ASSUME establish.phase # "resolving" PROVE CandidatesSound
    BY Zenon DEF CandidatesSound
  <2> DEFINE ipv6 == establish.ipv6
             found == Dns!Candidates(ipv6, lookups)
             asked(f) == Dns!HostAddress(lookups[f], f)
  <2>1. /\ \A c \in asked(Dns!Preferred(ipv6)) : found # <<>> /\ Head(found) = c
        /\ \A f \in Dns!Families : \A c \in asked(f) :
             \E i \in DOMAIN found : found[i].address = c.address
        /\ \A i, j \in DOMAIN found : found[i].address = found[j].address => i = j
        /\ \A i \in DOMAIN found : \E f \in Dns!Families : found[i] \in asked(f)
    BY <1>1, CandidatesFacts, Zenon
  <2>2. establish.candidates = found
    BY <1>1
  <2> HIDE DEF found
  <2> QED
    BY <2>1, <2>2, Zenon DEF CandidatesSound
<1>3. DnsErrorSound
  <2> SUFFICES ASSUME establish.error \in DnsErrors PROVE DnsErrorSound
    BY DEF DnsErrorSound
  <2>1. establish.phase # "resolving" /\ establish.candidates = <<>>
        /\ establish.error = Dns!DnsCause(establish.ipv6, lookups)
    BY ConnectAssumption DEF IInv, TypeOK, PhaseSound
  <2>2. \A f \in Dns!Families : Dns!HostAddress(lookups[f], f) = {}
    BY <1>1, <2>1, CandidatesFacts, Zenon
  <2> DEFINE p == Dns!Preferred(establish.ipv6)
             a == Dns!Alternate(establish.ipv6)
  <2>3. /\ \A f \in Dns!Families : f = p \/ f = a
        /\ Dns!LookupError(p) # Dns!LookupError(a)
        /\ \A f : Dns!LookupError(f) # "noAddresses"
    BY <1>1, <2>1 DEF Dns!Preferred, Dns!Alternate, Dns!LookupError, Dns!Families
  <2>4. establish.error = IF Dns!Failed(lookups[p]) THEN Dns!LookupError(p)
                          ELSE IF Dns!Failed(lookups[a]) THEN Dns!LookupError(a)
                          ELSE "noAddresses"
    BY <2>1 DEF Dns!DnsCause
  <2> HIDE DEF p, a
  <2>5. \A f \in Dns!Families :
          /\ establish.error = Dns!LookupError(f) => Dns!Failed(lookups[f])
          /\ Dns!Failed(lookups[f]) => establish.error # "noAddresses"
    BY <2>3, <2>4
  <2>6. Dns!Failed(lookups[p]) => establish.error = Dns!LookupError(p)
    BY <2>4
  <2> QED
    BY <2>2, <2>5, <2>6 DEF DnsErrorSound, p
<1> QED
  BY <1>2, <1>3

(* Whatever the resolver answers, in either order, the candidates are the  *)
(* preferred family's address, then the other's, each once, none lost      *)
(* (resolveHostCandidates).                                                *)
THEOREM ResolutionSound == Spec => []CandidatesSound
  BY ResolutionFacts, Invariant, PTL

(* connect() fails with a DNS error only if no family has an address, and  *)
(* then with the error of a lookup that failed if one did, the preferred   *)
(* family's first (resolveHostCandidates).                                 *)
THEOREM DnsErrorsSound == Spec => []DnsErrorSound
  BY ResolutionFacts, Invariant, PTL

(* connect() is over connectTimeoutMs (1 ms if that is 0) after the        *)
(* lookups, give or take the lateness of one timer and what the clock      *)
(* moves on within one turn, however the attempts end.                     *)
THEOREM Budget == Spec => []BudgetKept
<1>1. IInv => BudgetKept
  BY DEF IInv, InTime, BudgetKept
<1> QED
  BY <1>1, Invariant, PTL

(* A budget longer than one capped attempt always reaches the second       *)
(* candidate.                                                              *)
THEOREM Fallback == Spec => []FallbackTried
<1>1. IInv => FallbackTried
  BY DEF IInv
<1> QED
  BY <1>1, Invariant, PTL

LEMMA HandoverFacts == IInv => DeadAttemptsReleased /\ HandsOverSession
<1> SUFFICES ASSUME IInv PROVE DeadAttemptsReleased /\ HandsOverSession
  OBVIOUS
<1>1. attempts \in Seq(Attempts)
  BY DEF IInv, TypeOK
<1>2. \A i \in DOMAIN attempts : i \in 1 .. Tried
  BY <1>1 DEF Tried
<1>3. \A i \in DOMAIN attempts :
        /\ AttemptSound(attempts[i]) /\ attempts[i] \in Attempts
        /\ i < Tried => attempts[i].promise = "rejected"
  BY <1>1 DEF IInv, AttemptsInOrder
<1>4. attempts # <<>> => Tried \in DOMAIN attempts /\ Current = attempts[Tried]
  BY <1>1 DEF Tried, Current
<1>5. ASSUME NEW i \in DOMAIN attempts, i < Tried \/ Settled
      PROVE  attempts[i].promise # "pending"
  <2>1. CASE i < Tried
    BY <1>3, <2>1
  <2>2. CASE Settled /\ i = Tried
    BY <1>4, <2>2 DEF IInv, PhaseSound, Settled
  <2>3. i < Tried \/ i = Tried
    BY <1>1, <1>2 DEF Tried
  <2> QED
    BY <1>5, <2>1, <2>2, <2>3
<1>6. DeadAttemptsReleased
  <2> SUFFICES ASSUME NEW i \in DOMAIN attempts, i < Tried \/ Settled
               PROVE  /\ attempts[i].timer = None
                      /\ attempts[i].socket # "connecting"
                      /\ attempts[i].promise = "rejected" => attempts[i].socket # "up"
    BY Zenon DEF DeadAttemptsReleased
  <2>1. attempts[i].promise \in {"resolved", "rejected"}
    BY <1>3, <1>5 DEF Attempts
  <2> QED
    BY <1>3, <2>1 DEF AttemptSound
<1>7. establish.phase = "connected" => attempts # <<>> /\ Current.promise = "resolved"
  BY DEF IInv, PhaseSound
<1>8. establish.phase = "connected" => Current.connected /\ Current.socket = "up"
  BY <1>3, <1>4, <1>7 DEF AttemptSound
<1>9. \A i \in DOMAIN attempts : attempts[i].connected => i = Tried
  BY <1>2, <1>3 DEF AttemptSound, Tried
<1>10. HandsOverSession
  BY <1>8, <1>9 DEF IInv, AttemptsInOrder, HandsOverSession
<1> QED
  BY <1>6, <1>10

(* Attempts that are over hold neither a timer nor a live socket           *)
(* (_openSocket, cleanup and the connect timer).                           *)
THEOREM AttemptsReleased == Spec => []DeadAttemptsReleased
  BY HandoverFacts, Invariant, PTL

(* The transport that connect() resolves with is open on the socket of its *)
(* last attempt, with the idle timer set (_establish, connect handler).    *)
THEOREM Handover == Spec => []HandsOverSession
  BY HandoverFacts, Invariant, PTL

-----------------------------------------------------------------------------
(* The abstract view: the errors of the attempts that failed, in the order *)
(* in which the addresses were dialled.                                    *)
FailuresOf(s) == [i \in {j \in DOMAIN s : s[j].promise = "rejected"} |-> s[i].error]

Failures == FailuresOf(attempts)

Ordered(s) == /\ s \in Seq(Attempts)
              /\ \A i \in DOMAIN s : AttemptSound(s[i])
              /\ \A i \in DOMAIN s : i < Len(s) => s[i].promise = "rejected"

LEMMA InOrder ==
  /\ IInv => Ordered(attempts)
  /\ IInv' => Ordered(attempts')
  BY DEF IInv, TypeOK, AttemptsInOrder, Tried, Ordered

(* All attempts have failed, or all but the last. *)
LEMMA FailuresShape ==
  ASSUME NEW s, Ordered(s)
  PROVE  /\ FailuresOf(s) \in Seq(Causes)
         /\ Len(FailuresOf(s)) \in Nat
         /\ \A i \in 1 .. Len(FailuresOf(s)) : FailuresOf(s)[i] = s[i].error
         /\ s = <<>> => Len(FailuresOf(s)) = 0
         /\ s # <<>> => Len(FailuresOf(s)) = IF s[Len(s)].promise = "rejected"
                                            THEN Len(s) ELSE Len(s) - 1
<1> DEFINE k == IF s # <<>> /\ s[Len(s)].promise # "rejected" THEN Len(s) - 1 ELSE Len(s)
           R == {j \in DOMAIN s : s[j].promise = "rejected"}
           fs == [i \in 1 .. k |-> s[i].error]
<1>1. Len(s) \in Nat /\ DOMAIN s = 1 .. Len(s) /\ (s = <<>> <=> Len(s) = 0)
  BY DEF Ordered
<1>2. k \in Nat /\ k <= Len(s)
  BY <1>1
<1>3. R = 1 .. k
  BY <1>1 DEF Ordered
<1>4. FailuresOf(s) = fs
  BY <1>3 DEF FailuresOf
<1>5. \A i \in 1 .. k : s[i].error \in Causes
  <2> TAKE i \in 1 .. k
  <2>1. i \in DOMAIN s /\ s[i].promise = "rejected"
    BY <1>3
  <2> QED
    BY <2>1 DEF Ordered, AttemptSound
<1> HIDE DEF k
<1>6. fs \in Seq(Causes) /\ Len(fs) = k
  BY <1>2, <1>5
<1> QED
  BY <1>1, <1>2, <1>4, <1>6 DEF k

LEMMA BelowLast ==
  ASSUME NEW n \in Nat \ {0}, NEW i \in Int
  PROVE  /\ i \in 1 .. n /\ i # n => i \in 1 .. n - 1
         /\ i \in 1 .. n - 1 => i \in 1 .. n /\ i < n
         /\ i \in 1 .. n => i < n \/ i = n
  OBVIOUS

(* A step that opens no attempt and keeps the outcome of those that are    *)
(* over changes nothing of this view, or fails the last one.               *)
LEMMA FailureAdded ==
  ASSUME NEW s, NEW t, Ordered(s), Ordered(t), s # <<>>, DOMAIN t = DOMAIN s,
         \A i \in DOMAIN s : s[i].promise # "pending" =>
                              t[i].promise = s[i].promise /\ t[i].error = s[i].error
  PROVE  \/ FailuresOf(t) = FailuresOf(s)
         \/ /\ Len(FailuresOf(s)) < Len(s)
            /\ \E cause \in Causes : FailuresOf(t) = Append(FailuresOf(s), cause)
<1> DEFINE f == FailuresOf(s)
           g == FailuresOf(t)
           n == Len(s)
<1>1. /\ n \in Nat \ {0} /\ n \in DOMAIN s /\ DOMAIN s = 1 .. n
      /\ Len(t) = n /\ t # <<>>
  BY DEF Ordered
<1>2. /\ f \in Seq(Causes) /\ \A i \in 1 .. Len(f) : f[i] = s[i].error
      /\ Len(f) = IF s[n].promise = "rejected" THEN n ELSE n - 1
  BY FailuresShape
<1>3. /\ g \in Seq(Causes) /\ \A i \in 1 .. Len(g) : g[i] = t[i].error
      /\ Len(g) = IF t[n].promise = "rejected" THEN n ELSE n - 1
  BY <1>1, FailuresShape
<1> HIDE DEF f, g
<1>4. \A i \in 1 .. Len(f) : s[i].promise = "rejected" /\ t[i].error = s[i].error
  <2> TAKE i \in 1 .. Len(f)
  <2>1. i \in DOMAIN s /\ s[i].promise = "rejected"
    <3>1. CASE s[n].promise = "rejected"
      <4>1. i \in 1 .. n
        BY <1>2, <3>1
      <4> QED
        BY <1>1, <3>1, <4>1, BelowLast DEF Ordered
    <3>2. CASE s[n].promise # "rejected"
      <4>1. i \in 1 .. n - 1
        BY <1>2, <3>2
      <4>2. i \in 1 .. n /\ i < n
        BY <1>1, <4>1, BelowLast
      <4> QED
        BY <1>1, <4>2 DEF Ordered
    <3> QED
      BY <3>1, <3>2
  <2> QED
    BY <2>1
<1>5. CASE Len(g) = Len(f)
  <2>1. \A i \in 1 .. Len(f) : g[i] = f[i]
    BY <1>2, <1>3, <1>4, <1>5
  <2>2. g = f
    BY <1>2, <1>3, <1>5, <2>1, SeqEqual
  <2> QED
    BY <2>2 DEF f, g
<1>6. CASE Len(g) # Len(f)
  <2>1. s[n].promise = "rejected" => t[n].promise = "rejected"
    BY <1>1
  <2>2. Len(f) = n - 1 /\ Len(g) = n
    BY <1>1, <1>2, <1>3, <1>6, <2>1
  <2> DEFINE cause == g[n]
             h == Append(f, cause)
  <2>3. cause \in Causes
    BY <1>1, <1>3, <2>2, ElementOfSeq
  <2> HIDE DEF cause
  <2>4. /\ h \in Seq(Causes) /\ Len(h) = n
        /\ \A i \in 1 .. n - 1 : h[i] = f[i]
        /\ h[n] = cause
    <3>1. /\ h \in Seq(Causes) /\ Len(h) = Len(f) + 1
          /\ \A i \in 1 .. Len(f) : h[i] = f[i]
          /\ h[Len(f) + 1] = cause
      BY <1>2, <2>3, AppendProperties
    <3>2. Len(f) + 1 = n
      BY <1>1, <2>2
    <3> QED
      BY <2>2, <3>1, <3>2
  <2> HIDE DEF h
  <2>5. \A i \in 1 .. n : g[i] = h[i]
    <3> TAKE i \in 1 .. n
    <3>1. CASE i = n
      BY <2>4, <3>1 DEF cause
    <3>2. CASE i # n
      <4>1. i \in 1 .. n - 1
        <5>1. i \in Int
          OBVIOUS
        <5> QED
          BY <1>1, <3>2, <5>1, BelowLast, Zenon
      <4> QED
        BY <1>2, <1>3, <1>4, <2>2, <2>4, <4>1
    <3> QED
      BY <3>1, <3>2
  <2>6. g = h
    BY <1>3, <2>2, <2>4, <2>5, SeqEqual
  <2>7. Len(f) < n
    BY <1>1, <2>2
  <2> QED
    BY <2>3, <2>6, <2>7 DEF f, g, h
<1> QED
  BY <1>5, <1>6

(* Nor does opening an attempt, unless it fails at once. *)
LEMMA AttemptDialled ==
  ASSUME NEW s, NEW b \in Attempts, Ordered(s), Ordered(Append(s, b)),
         b.promise \in {"pending", "rejected"},
         \A i \in DOMAIN s : s[i].promise = "rejected"
  PROVE  LET t == Append(s, b)
         IN /\ Len(FailuresOf(s)) = Len(s)
            /\ Len(t) = Len(s) + 1
            /\ \/ FailuresOf(t) = FailuresOf(s)
               \/ \E cause \in Causes : FailuresOf(t) = Append(FailuresOf(s), cause)
<1> DEFINE t == Append(s, b)
           f == FailuresOf(s)
           g == FailuresOf(t)
           n == Len(s)
<1>1. s \in Seq(Attempts) /\ n \in Nat /\ DOMAIN s = 1 .. n
  BY DEF Ordered
<1>2. t # <<>> /\ Len(t) = n + 1 /\ t[n + 1] = b /\ \A i \in 1 .. n : t[i] = s[i]
  BY <1>1, AppendProperties
<1>3. f \in Seq(Causes) /\ Len(f) = n /\ \A i \in 1 .. n : f[i] = s[i].error
  <2>1. s # <<>> => n \in DOMAIN s
    BY <1>1
  <2>2. s = <<>> => n = 0
    BY <1>1
  <2> QED
    BY <2>1, <2>2, FailuresShape
<1> HIDE DEF t
<1>4. Ordered(t)
  BY DEF t
<1>5. /\ g \in Seq(Causes) /\ \A i \in 1 .. Len(g) : g[i] = t[i].error
      /\ Len(g) = IF b.promise = "rejected" THEN n + 1 ELSE n
  BY <1>1, <1>2, <1>4, FailuresShape
<1> HIDE DEF f, g
<1>6. CASE b.promise # "rejected"
  <2>1. Len(g) = Len(f) /\ \A i \in 1 .. Len(f) : g[i] = f[i]
    BY <1>2, <1>3, <1>5, <1>6
  <2>2. g = f
    BY <1>3, <1>5, <2>1, SeqEqual
  <2> QED
    BY <1>2, <1>3, <2>2 DEF f, g, t
<1>7. CASE b.promise = "rejected"
  <2> DEFINE cause == g[n + 1]
             h == Append(f, cause)
  <2>1. Len(g) = n + 1 /\ cause \in Causes
    BY <1>1, <1>5, <1>7, ElementOfSeq
  <2> HIDE DEF cause
  <2>2. /\ h \in Seq(Causes) /\ Len(h) = n + 1
        /\ \A i \in 1 .. n : h[i] = f[i]
        /\ h[n + 1] = cause
    BY <1>3, <2>1, AppendProperties
  <2>3. \A i \in 1 .. n + 1 : g[i] = h[i]
    <3> TAKE i \in 1 .. n + 1
    <3>1. CASE i = n + 1
      BY <2>2, <3>1 DEF cause
    <3>2. CASE i # n + 1
      <4>1. i \in 1 .. n
        BY <1>1, <3>2
      <4> QED
        BY <1>1, <1>2, <1>3, <1>5, <2>1, <2>2, <4>1
    <3> QED
      BY <3>1, <3>2
  <2>4. g = h
    BY <1>5, <2>1, <2>2, <2>3, SeqEqual
  <2> QED
    BY <1>2, <1>3, <2>1, <2>4 DEF f, g, t
<1> QED
  BY <1>6, <1>7

LEMMA ViewIs == Failures = [i \in Rejected |-> attempts[i].error]
  BY DEF Failures, FailuresOf, Rejected

LEMMA StartsResolving == Init => Promised!Init
<1> SUFFICES ASSUME Init PROVE Promised!Init
  OBVIOUS
<1>1. attempts = <<>> /\ Tried = 0
  BY DEF Init, Tried
<1>2. Ordered(attempts)
  BY <1>1 DEF Ordered
<1>3. Failures = <<>>
  <2>1. Failures \in Seq(Causes) /\ Len(Failures) = 0
    BY <1>1, <1>2, FailuresShape DEF Failures
  <2> QED
    BY <2>1
<1>4. establish.phase = "resolving" /\ establish.candidates = <<>>
  BY DEF Init
<1> QED
  BY <1>1, <1>3, <1>4, ViewIs DEF Promised!Init

(* The handlers of a socket and the connect timer: the attempt fails, or   *)
(* it is of no consequence to the abstract view.                           *)
LEMMA HandlersRefine ==
  ASSUME IInv, IInv', attempts # <<>>, DOMAIN attempts' = DOMAIN attempts,
         \A i \in DOMAIN attempts : attempts[i].promise # "pending" =>
            attempts'[i].promise = attempts[i].promise /\ attempts'[i].error = attempts[i].error,
         establish' = establish
  PROVE  Promised!Fails \/ UNCHANGED Promised!vars
<1>1. Ordered(attempts) /\ Ordered(attempts') /\ Tried' = Tried
  BY InOrder DEF Ordered, Tried
<1>2. \/ Failures' = Failures
      \/ /\ Len(Failures) < Tried
         /\ \E cause \in Causes : Failures' = Append(Failures, cause)
  BY <1>1, FailureAdded DEF Failures, Tried
<1> QED
  BY <1>1, <1>2, ViewIs DEF Promised!Fails, Promised!vars, Failures, FailuresOf, Rejected

(* One turn of the loop appends an attempt that is pending or has failed,  *)
(* at whatever time.                                                       *)
LEMMA TryAppends ==
  ASSUME now \in Nat, NEW n, NEW candidates, NEW deadline \in Nat,
         TryCandidate(n, candidates, deadline)
  PROVE  \E b \in Attempts : attempts' = Append(attempts, b) /\ b.promise \in {"pending", "rejected"}
<1> DEFINE last == n = Len(candidates)
           rest == deadline - now'
           t == AttemptTimeout(last, rest)
<1>0. now' \in Nat
  BY DriftNat DEF TryCandidate
<1>1. t \in Nat
  <2>1. last \in BOOLEAN /\ rest \in Int
    BY <1>0
  <2> HIDE DEF last, rest
  <2> QED
    BY <2>1, AttemptTimeoutBounds
<1> HIDE DEF t
<1>2. Opened(t) \in Attempts /\ Opened(t).promise = "pending"
  BY <1>0, <1>1, OpenedSound
<1>3. attempts' = Append(attempts, Opened(t)) \/ attempts' = Append(attempts, Threw)
  BY DEF TryCandidate, t
<1> QED
  BY <1>2, <1>3, ThrewSound

LEMMA DialRefines ==
  ASSUME IInv, IInv', NEW b \in Attempts, attempts' = Append(attempts, b),
         b.promise \in {"pending", "rejected"},
         \A i \in DOMAIN attempts : attempts[i].promise = "rejected"
  PROVE  /\ Len(Failures) = Tried /\ Tried' = Tried + 1
         /\ \/ Failures' = Failures
            \/ \E cause \in Causes : Failures' = Append(Failures, cause)
<1>1. Ordered(attempts) /\ Ordered(Append(attempts, b))
  BY InOrder
<1> QED
  BY <1>1, AttemptDialled DEF Failures, Tried

LEMMA ResolutionRefines ==
  ASSUME IInv, IInv', ResolutionDone
  PROVE  Promised!Resolved \/ Promised!Unresolved
<1> DEFINE found == Dns!Candidates(establish.ipv6, lookups)
<1>1. establish.phase = "resolving" /\ attempts = <<>> /\ Tried = 0
  BY DEF ResolutionDone, IInv, PhaseSound, Tried
<1>2. CASE found = <<>>
  <2>1. /\ establish' = [establish EXCEPT !.phase = "rejected",
                                          !.error = Dns!DnsCause(establish.ipv6, lookups)]
        /\ attempts' = attempts
    BY <1>2 DEF ResolutionDone
  <2>2. /\ establish'.phase = "rejected" /\ establish'.candidates = establish.candidates
        /\ establish'.error \in DnsErrors
    BY <2>1, DnsCauseType DEF IInv, TypeOK
  <2>3. Tried' = Tried /\ Failures' = Failures
    BY <2>1 DEF Tried, Failures
  <2> QED
    BY <1>1, <2>2, <2>3 DEF Promised!Unresolved, Failures, FailuresOf, Rejected
<1>3. CASE found # <<>>
  <2>1. /\ establish' = [establish EXCEPT !.phase = "trying", !.candidates = found,
                                          !.deadline = now + ConnectTimeout]
        /\ TryCandidate(1, found, now + ConnectTimeout)
    BY <1>3 DEF ResolutionDone
  <2>2. /\ establish'.phase = "trying" /\ establish'.candidates = found
        /\ establish'.error = establish.error
        /\ found \in Seq(CandidateRecords)
    BY <2>1 DEF IInv, TypeOK
  <2>3. PICK b \in Attempts :
          attempts' = Append(attempts, b) /\ b.promise \in {"pending", "rejected"}
    <3> DEFINE deadline == now + ConnectTimeout
    <3>1. now \in Nat /\ deadline \in Nat
      BY ConnectAssumption DEF IInv, TypeOK
    <3>2. TryCandidate(1, found, deadline)
      BY <2>1
    <3> HIDE DEF found, deadline
    <3> QED
      BY <3>1, <3>2, TryAppends, Zenon
  <2>4. /\ Len(Failures) = Tried /\ Tried' = Tried + 1
        /\ \/ Failures' = Failures
           \/ \E cause \in Causes : Failures' = Append(Failures, cause)
    BY <1>1, <2>3, DialRefines
  <2>5. Tried < Len(found)
    BY <1>1, <1>3, <2>2
  <2>6. Promised!Dial
    BY <2>2, <2>4, <2>5 DEF Promised!Dial, Failures, FailuresOf, Rejected
  <2> QED
    BY <1>1, <2>2, <2>6 DEF Promised!Resolved
<1> QED
  BY <1>2, <1>3

LEMMA AttemptFailedRefines ==
  ASSUME IInv, IInv', AttemptFailed
  PROVE  Promised!DialNext \/ Promised!GivesUp
<1>1. /\ establish.phase = "trying" /\ Current.promise = "rejected" /\ attempts # <<>>
      /\ Tried <= Len(establish.candidates)
  BY DEF AttemptFailed, IInv, PhaseSound
<1>2. /\ attempts \in Seq(Attempts) /\ Tried \in Nat \ {0} /\ Tried \in DOMAIN attempts
      /\ Current = attempts[Tried] /\ establish.candidates \in Seq(CandidateRecords)
      /\ Len(establish.candidates) \in Nat
  BY <1>1 DEF Tried, Current, IInv, TypeOK
<1>3. /\ Len(Failures) = Tried
      /\ \A i \in 1 .. Len(Failures) : Failures[i] = attempts[i].error
  BY <1>1, <1>2, InOrder, FailuresShape DEF Failures, Tried
<1>4. CASE OutOfTime \/ Tried = Len(establish.candidates)
  <2>1. /\ establish' = [establish EXCEPT !.phase = "rejected", !.error = Current.error]
        /\ attempts' = attempts
    BY <1>4 DEF AttemptFailed
  <2>2. /\ establish'.phase = "rejected" /\ establish'.candidates = establish.candidates
        /\ establish'.error = Current.error
    BY <2>1 DEF IInv, TypeOK
  <2>3. Tried' = Tried /\ Failures' = Failures
    BY <2>1 DEF Tried, Failures
  <2>4. Current.error = Failures[Tried]
    BY <1>2, <1>3
  <2> QED
    BY <1>1, <1>3, <2>2, <2>3, <2>4 DEF Promised!GivesUp, Failures, FailuresOf, Rejected
<1>5. CASE ~ (OutOfTime \/ Tried = Len(establish.candidates))
  <2>1. TryCandidate(Tried + 1, establish.candidates, establish.deadline) /\ establish' = establish
    BY <1>5 DEF AttemptFailed
  <2>2. PICK b \in Attempts :
          attempts' = Append(attempts, b) /\ b.promise \in {"pending", "rejected"}
    BY <1>5, <2>1, TryAppends DEF IInv, TypeOK, OutOfTime
  <2>3. \A i \in DOMAIN attempts : attempts[i].promise = "rejected"
    BY <1>1, <1>2 DEF IInv, AttemptsInOrder, Tried
  <2>4. /\ Tried' = Tried + 1
        /\ \/ Failures' = Failures
           \/ \E cause \in Causes : Failures' = Append(Failures, cause)
    BY <2>2, <2>3, DialRefines
  <2>5. Tried < Len(establish.candidates)
    BY <1>1, <1>2, <1>5
  <2>6. Promised!Dial
    BY <1>3, <2>1, <2>4, <2>5 DEF Promised!Dial, Failures, FailuresOf, Rejected
  <2> QED
    BY <1>1, <2>1, <2>6 DEF Promised!DialNext
<1> QED
  BY <1>4, <1>5

LEMMA AttemptConnectedRefines ==
  ASSUME IInv, AttemptConnected
  PROVE  Promised!Connects
<1>1. /\ establish.phase = "trying" /\ Current.promise = "resolved" /\ attempts # <<>>
      /\ establish' = [establish EXCEPT !.phase = "connected"] /\ attempts' = attempts
  BY DEF AttemptConnected, IInv, PhaseSound
<1>2. /\ establish'.phase = "connected" /\ establish'.candidates = establish.candidates
      /\ establish'.error = establish.error
  BY <1>1 DEF IInv, TypeOK
<1>3. Len(Failures) < Tried
  <2>1. attempts[Tried].promise # "rejected"
    BY <1>1 DEF Current
  <2>2. attempts \in Seq(Attempts) /\ Tried \in Nat
    BY DEF IInv, TypeOK, Tried
  <2>3. Len(Failures) = Tried - 1
    BY <1>1, <2>1, InOrder, FailuresShape DEF Failures, Tried
  <2> QED
    BY <2>2, <2>3
<1>4. Tried' = Tried /\ Failures' = Failures
  BY <1>1 DEF Tried, Failures
<1> QED
  BY <1>1, <1>2, <1>3, <1>4 DEF Promised!Connects, Failures, FailuresOf, Rejected

LEMMA SameDomain ==
  /\ \A f, i, v : DOMAIN [f EXCEPT ![i] = v] = DOMAIN f
  /\ DOMAIN <<>> = {}
  OBVIOUS

LEMMA StepRefines == IInv /\ [Next]_vars => [Promised!Next]_(Promised!vars)
<1> SUFFICES ASSUME IInv, [Next]_vars PROVE Promised!Next \/ UNCHANGED Promised!vars
  BY Zenon
<1>0. IInv'
  BY Inductive
<1>1. attempts \in Seq(Attempts) /\ DOMAIN attempts = 1 .. Tried
  BY DEF IInv, TypeOK, Tried
<1>2. ASSUME UNCHANGED <<establish, attempts>> PROVE UNCHANGED Promised!vars
  BY <1>2 DEF Promised!vars, Tried, Rejected
<1>3. ASSUME NEW i \in DOMAIN attempts, OnConnect(i) PROVE Promised!Next \/ UNCHANGED Promised!vars
  <2>1. attempts[i] \in Attempts /\ AttemptSound(attempts[i])
    BY DEF IInv, TypeOK, AttemptsInOrder
  <2>2. /\ attempts[i].promise = "pending" /\ Connected(attempts[i]) \in Attempts
        /\ establish' = establish
    BY <1>3, <2>1, ConnectedSound DEF OnConnect
  <2>3. /\ attempts # <<>> /\ DOMAIN attempts' = DOMAIN attempts
        /\ \A j \in DOMAIN attempts : j # i => attempts'[j] = attempts[j]
    BY <1>1, <1>3, <2>2, Replaced DEF OnConnect, Update
  <2> QED
    BY <1>0, <2>2, <2>3, HandlersRefine DEF Promised!Next
<1>4. ASSUME NEW i \in DOMAIN attempts, OnError(i) PROVE Promised!Next \/ UNCHANGED Promised!vars
  <2>1. attempts # <<>> /\ DOMAIN attempts' = DOMAIN attempts /\ establish' = establish
    BY <1>1, <1>4, SameDomain DEF OnError, Update
  <2> QED
    BY <1>0, <1>4, <2>1, OnErrorKeeps, HandlersRefine DEF Promised!Next
<1>5. ASSUME NEW i \in DOMAIN attempts, OnClose(i) PROVE Promised!Next \/ UNCHANGED Promised!vars
  <2>1. attempts # <<>> /\ DOMAIN attempts' = DOMAIN attempts /\ establish' = establish
    BY <1>1, <1>5, SameDomain DEF OnClose, Update
  <2> QED
    BY <1>0, <1>5, <2>1, OnCloseKeeps, HandlersRefine DEF Promised!Next
<1>6. ASSUME NEW i \in DOMAIN attempts, OnConnectTimeout(i)
      PROVE  Promised!Next \/ UNCHANGED Promised!vars
  <2>1. attempts # <<>> /\ DOMAIN attempts' = DOMAIN attempts /\ establish' = establish
    BY <1>1, <1>6, SameDomain DEF OnConnectTimeout, Update
  <2> QED
    BY <1>0, <1>6, <2>1, OnConnectTimeoutKeeps, HandlersRefine DEF Promised!Next
<1>7. CASE ResolutionDone
  BY <1>0, <1>7, ResolutionRefines DEF Promised!Next
<1>8. CASE AttemptFailed
  BY <1>0, <1>8, AttemptFailedRefines DEF Promised!Next
<1>9. CASE AttemptConnected
  BY <1>9, AttemptConnectedRefines DEF Promised!Next
<1> QED
  BY <1>2, <1>3, <1>4, <1>5, <1>6, <1>7, <1>8, <1>9
     DEF Next, Done, vars, LookupSettles, Tick

(* connect() dials the addresses one at a time in the order of preference, *)
(* takes the first that answers, and is rejected with the error of the     *)
(* last one dialled, whatever the sockets of the others still emit         *)
(* (_establish and _openSocket).                                           *)
THEOREM FallsBackInOrder == Spec => ImplementsFallback
  BY StartsResolving, StepRefines, Invariant, PTL DEF Spec, ImplementsFallback, Promised!Spec
=============================================================================
