------------------------------- MODULE Connect -------------------------------
(***************************************************************************)
(* Establishing a transport: connect(), TcpTransport._establish and the    *)
(* part of _openSocket that runs before "connect" (src/src/connect.ts,     *)
(* src/src/transport.ts, src/src/resolve.ts).  Both families are resolved, *)
(* then the candidates are tried in turn, each on a socket of its own with *)
(* a timer of its own, within one budget of time.                          *)
(*                                                                         *)
(* A transport whose promise is resolved is a TransportSession; its socket *)
(* events are modelled there.                                              *)
(***************************************************************************)
EXTENDS Integers, Sequences

CONSTANTS
  Answers,         \* what a DNS lookup may answer
  None,            \* undefined
  ConnectTimeout,  \* connectTimeoutMs
  AttemptCap,      \* FALLBACK_ATTEMPT_TIMEOUT_MS
  Lag,             \* how late the event loop may run a timer
  Drift,           \* how far Date.now() moves on within one turn
  MaxLookupTime    \* bound: time the lookups take

Dns == INSTANCE ResolveHost

AddressRecords == UNION {{a.value[i] : i \in DOMAIN a.value} :
                           a \in {b \in Answers : b.status = "fulfilled"}}

DnsErrors == {"lookup4", "lookup6", "noAddresses"}

ASSUME ConnectAssumption ==
  /\ \A a \in Answers : \/ /\ a.status = "rejected"
                           /\ a = [status |-> "rejected", reason |-> a.reason]
                        \/ /\ a = [status |-> "fulfilled", value |-> a.value]
                           /\ a.value \in Seq(AddressRecords)
  /\ \A r \in AddressRecords : /\ r = [address |-> r.address, family |-> r.family]
                               /\ r.family \in {0, 4, 6}
  /\ None \notin Answers /\ None \notin DnsErrors /\ None \notin Int
  /\ ConnectTimeout \in Nat /\ AttemptCap \in Nat \ {0}
  /\ Lag \in Nat /\ Drift \in Nat /\ MaxLookupTime \in Nat

VARIABLES
  now,        \* Date.now()
  lookups,    \* the answer of each family's lookup
  establish,  \* what _establish has come to, and its local variables
  attempts,   \* one record per _openSocket call
  life,       \* _state.state of the transport
  idleArmed   \* the idle timer has been set

vars == <<now, lookups, establish, attempts, life, idleArmed>>

Init == /\ now = 0
        /\ lookups = [f \in Dns!Families |-> None]
        /\ establish \in [phase : {"resolving"}, ipv6 : BOOLEAN, candidates : {<<>>},
                          deadline : {0}, error : {None}]
        /\ attempts = <<>>
        /\ life = "connecting"
        /\ idleArmed = FALSE

Tried   == Len(attempts)
Current == attempts[Tried]
Answered == \A f \in Dns!Families : lookups[f] # None

-----------------------------------------------------------------------------
(* One attempt, a record a: the flags of _openSocket, its promise and its  *)
(* timer, and the socket.  socket: connecting; up; failing, failed:        *)
(* destroyed, "error" and "close" or only "close" to come; gone; absent    *)
(* when net.connect threw.                                                 *)

Opened(timeout) == [settled |-> FALSE, connected |-> FALSE, promise |-> "pending",
                    error |-> None, timer |-> now' + timeout, socket |-> "connecting"]

(* net.connect threw: the promise is rejected before anything is wired. *)
Threw == [settled |-> FALSE, connected |-> FALSE, promise |-> "rejected",
          error |-> "throw", timer |-> None, socket |-> "absent"]

(* The promise of the attempt: only the first resolve() or reject() counts. *)
SettleOnce(a, outcome, error) ==
  IF a.promise = "pending" THEN [a EXCEPT !.promise = outcome, !.error = error] ELSE a

(* Mutation: clearTimeout and destroy are forgotten. *)
FailUndestroyed(a, error, destroyed) ==
  IF a.settled THEN a ELSE [SettleOnce(a, "rejected", error) EXCEPT !.settled = TRUE]

(* Mutation: the promise is not rejected. *)
FailUnrejected(a, error, destroyed) ==
  IF a.settled THEN a
  ELSE [a EXCEPT !.settled = TRUE, !.timer = None,
                 !.socket = IF @ = "connecting" THEN destroyed ELSE @]

(* fail(err).  destroy() does nothing to a socket already destroyed.       *)
Fail(a, error, destroyed) ==
  IF a.settled THEN a
  ELSE [SettleOnce(a, "rejected", error) EXCEPT
          !.settled = TRUE, !.timer = None,
          !.socket = IF @ = "connecting" THEN destroyed ELSE @]

(* Mutation: the last attempt gets the whole budget again. *)
AttemptTimeoutAfresh(last, remaining) ==
  IF last THEN ConnectTimeout ELSE IF remaining < AttemptCap THEN remaining ELSE AttemptCap

(* Mutation: no cap on the attempts before the last. *)
AttemptTimeoutUncapped(last, remaining) == remaining

AtLeast1(n) == IF n < 1 THEN 1 ELSE n

AttemptTimeout(last, remaining) ==
  IF last \/ AtLeast1(remaining) < AttemptCap THEN AtLeast1(remaining) ELSE AttemptCap

(* The body of the loop over the candidates, at its n-th turn.  It reads   *)
(* the clock again: the budget may have run out since it was last looked   *)
(* at, or be 0 from the start.                                             *)
TryCandidate(n, candidates, deadline) ==
  /\ now' \in now .. now + Drift
  /\ \/ attempts' = Append(attempts,
                           Opened(AttemptTimeout(n = Len(candidates), deadline - now')))
     \/ attempts' = Append(attempts, Threw)

-----------------------------------------------------------------------------
(* Resolution.                                                             *)

LookupSettles(f, answer) ==
  /\ lookups[f] = None
  /\ lookups' = [lookups EXCEPT ![f] = answer]
  /\ UNCHANGED <<now, establish, attempts, life, idleArmed>>

(* _establish goes on once both lookups have settled. *)
ResolutionDone ==
  /\ establish.phase = "resolving"
  /\ Answered
  /\ LET candidates == Dns!Candidates(establish.ipv6, lookups)
     IN IF candidates = <<>>
        THEN /\ establish' = [establish EXCEPT !.phase = "rejected",
                                               !.error = Dns!DnsCause(establish.ipv6, lookups)]
             /\ UNCHANGED <<now, attempts>>
        ELSE /\ establish' = [establish EXCEPT !.phase = "trying", !.candidates = candidates,
                                               !.deadline = now + ConnectTimeout]
             /\ TryCandidate(1, candidates, now + ConnectTimeout)
  /\ UNCHANGED <<lookups, life, idleArmed>>

-----------------------------------------------------------------------------
(* Handlers of the socket of attempt i.                                    *)

Update(i, a) == attempts' = [attempts EXCEPT ![i] = a]

(* Mutation: the connect timer is left running. *)
ConnectedTimed(a) == [SettleOnce(a, "resolved", None) EXCEPT
                        !.connected = TRUE, !.settled = TRUE, !.socket = "up"]

Connected(a) == [SettleOnce(a, "resolved", None) EXCEPT
                   !.connected = TRUE, !.timer = None, !.settled = TRUE, !.socket = "up"]

OnConnect(i) == /\ attempts[i].socket = "connecting"
                /\ Update(i, Connected(attempts[i]))
                /\ life' = "open"
                /\ idleArmed' = TRUE
                /\ UNCHANGED <<now, lookups, establish>>

(* "error" before "connect": the attempt fails; "close" is still to come.  *)
OnError(i) == /\ attempts[i].socket \in {"connecting", "failing"}
              /\ ~ attempts[i].connected
              /\ Update(i, Fail([attempts[i] EXCEPT !.socket = "failed"], "socket", "failed"))
              /\ UNCHANGED <<now, lookups, establish, life, idleArmed>>

(* "close" before "connect", after an error or out of nowhere. *)
OnClose(i) == /\ attempts[i].socket \in {"connecting", "failed"}
              /\ ~ attempts[i].connected
              /\ Update(i, Fail([attempts[i] EXCEPT !.socket = "gone"], "closed", "gone"))
              /\ UNCHANGED <<now, lookups, establish, life, idleArmed>>

(* The connect timer.  A destroyed socket emits "error" and "close"; some  *)
(* adapters emit "close" only.                                             *)
OnConnectTimeout(i) ==
  /\ attempts[i].timer # None /\ now >= attempts[i].timer
  /\ \E destroyed \in {"failing", "failed"} :
       Update(i, Fail([attempts[i] EXCEPT !.timer = None], "timeout", destroyed))
  /\ UNCHANGED <<now, lookups, establish, life, idleArmed>>

-----------------------------------------------------------------------------
(* _establish after its await, and the clock.                              *)

OutOfTime == now >= establish.deadline

(* Mutation: the first error is thrown, not the last. *)
AttemptFailedFirst ==
  /\ establish.phase = "trying"
  /\ Current.promise = "rejected"
  /\ IF OutOfTime \/ Tried = Len(establish.candidates)
     THEN /\ establish' = [establish EXCEPT !.phase = "rejected", !.error = Head(attempts).error]
          /\ UNCHANGED <<now, attempts>>
     ELSE /\ TryCandidate(Tried + 1, establish.candidates, establish.deadline)
          /\ UNCHANGED establish
  /\ UNCHANGED <<lookups, life, idleArmed>>

AttemptFailed ==
  /\ establish.phase = "trying"
  /\ Current.promise = "rejected"
  /\ IF OutOfTime \/ Tried = Len(establish.candidates)
     THEN /\ establish' = [establish EXCEPT !.phase = "rejected", !.error = Current.error]
          /\ UNCHANGED <<now, attempts>>
     ELSE /\ TryCandidate(Tried + 1, establish.candidates, establish.deadline)
          /\ UNCHANGED establish
  /\ UNCHANGED <<lookups, life, idleArmed>>

AttemptConnected ==
  /\ establish.phase = "trying"
  /\ Current.promise = "resolved"
  /\ establish' = [establish EXCEPT !.phase = "connected"]
  /\ UNCHANGED <<now, lookups, attempts, life, idleArmed>>

(* Between turns promise jobs run at once: while one is queued the clock   *)
(* stands still.  A timer that is due runs at most Lag late.  Time matters *)
(* to lookups and timers only, and stands still when none is left.         *)
Overdue(i) == attempts[i].timer # None /\ now >= attempts[i].timer + Lag

ClockRuns == \/ establish.phase = "resolving" /\ ~ Answered /\ now < MaxLookupTime
             \/ /\ establish.phase = "trying"
                /\ Current.promise = "pending" /\ Current.timer # None
                /\ \A i \in DOMAIN attempts : ~ Overdue(i)

Tick == /\ ClockRuns
        /\ now' = now + 1
        /\ UNCHANGED <<lookups, establish, attempts, life, idleArmed>>

Settled == establish.phase \in {"connected", "rejected"}

(* Nothing is left to run: no promise job, no timer and no socket event.   *)
Done == /\ establish.phase = "trying" => Current.promise = "pending"
        /\ establish.phase # "resolving"
        /\ \A i \in DOMAIN attempts : /\ attempts[i].timer = None
                                      /\ attempts[i].socket \in {"up", "gone", "absent"}
        /\ UNCHANGED vars

Next ==
  \/ \E f \in Dns!Families, answer \in Answers : LookupSettles(f, answer)
  \/ ResolutionDone
  \/ \E i \in DOMAIN attempts : \/ OnConnect(i)
                                \/ OnError(i)
                                \/ OnClose(i)
                                \/ OnConnectTimeout(i)
  \/ AttemptFailed
  \/ AttemptConnected
  \/ Tick
  \/ Done

Spec == Init /\ [][Next]_vars

(* Promise jobs and timers run and the clock goes on.  Nothing is owed by  *)
(* the resolver, by the peer or by the network.                            *)
FairSpec == /\ Spec
            /\ WF_vars(ResolutionDone)
            /\ WF_vars(AttemptFailed)
            /\ WF_vars(AttemptConnected)
            /\ WF_vars(Tick)
            /\ WF_vars(\E i \in DOMAIN attempts : OnConnectTimeout(i))

-----------------------------------------------------------------------------
Causes == {"throw", "socket", "closed", "timeout"}

CandidateRecords == [address : {r.address : r \in AddressRecords}, family : Dns!Families]

Attempts == [settled : BOOLEAN, connected : BOOLEAN,
             promise : {"pending", "resolved", "rejected"},
             error : Causes \cup {None},
             timer : Nat \cup {None},
             socket : {"connecting", "up", "failing", "failed", "gone", "absent"}]

TypeOK ==
  /\ now \in Nat
  /\ lookups \in [Dns!Families -> Answers \cup {None}]
  /\ establish \in [phase : {"resolving", "trying", "connected", "rejected"}, ipv6 : BOOLEAN,
                    candidates : Seq(CandidateRecords), deadline : Nat,
                    error : Causes \cup DnsErrors \cup {None}]
  /\ attempts \in Seq(Attempts)
  /\ life \in {"connecting", "open"}
  /\ idleArmed \in BOOLEAN

(* Whatever the lookups answered and in whatever order, the candidates are *)
(* what resolveHost would answer for the preferred family, then for the    *)
(* other, and none is lost or tried twice (resolveHostCandidates).         *)
CandidatesSound ==
  LET asked(f) == Dns!HostAddress(lookups[f], f)
      found    == establish.candidates
  IN  establish.phase # "resolving" =>
        /\ \A c \in asked(Dns!Preferred(establish.ipv6)) : found # <<>> /\ Head(found) = c
        /\ \A f \in Dns!Families : \A c \in asked(f) :
             \E i \in DOMAIN found : found[i].address = c.address
        /\ \A i, j \in DOMAIN found : found[i].address = found[j].address => i = j
        /\ \A i \in DOMAIN found : \E f \in Dns!Families : found[i] \in asked(f)

(* A DNS error means that no family gave an address.  A lookup that failed *)
(* is never passed over for a complaint about missing addresses, none is   *)
(* blamed that did not fail, and the preferred family's error goes first   *)
(* (resolve.ts).                                                           *)
DnsErrorSound ==
  establish.error \in DnsErrors =>
    LET preferred == Dns!Preferred(establish.ipv6)
    IN  /\ \A f \in Dns!Families :
             /\ Dns!HostAddress(lookups[f], f) = {}
             /\ establish.error = Dns!LookupError(f) => Dns!Failed(lookups[f])
             /\ Dns!Failed(lookups[f]) => establish.error # "noAddresses"
        /\ Dns!Failed(lookups[preferred]) => establish.error = Dns!LookupError(preferred)

(* connect() does not outlive its budget: after the lookups it is settled  *)
(* connectTimeoutMs later at most, however many candidates fail and at     *)
(* whatever time (the deadline of _establish and its last attempt).  An    *)
(* attempt has 1 ms at least, and the clock may pass the deadline in the   *)
(* turn that sets its timer.                                               *)
LatestTimer == establish.deadline - ConnectTimeout + AtLeast1(ConnectTimeout) + Drift

BudgetKept == establish.phase = "trying" => now <= LatestTimer + Lag

(* A budget longer than one capped attempt leaves time for the second      *)
(* candidate: connect() is not rejected with a candidate untried.          *)
FallbackTried ==
  AttemptCap + Drift + Lag < ConnectTimeout /\ establish.phase = "rejected" =>
    Tried = Len(establish.candidates)

(* The same with no condition on the budget (transport.ts, _establish: "so *)
(* a failed or unreachable first candidate can fall back to the other").   *)
FallbackAlwaysTried == establish.phase = "rejected" => Tried = Len(establish.candidates)

(* An attempt that is over holds nothing: its socket is destroyed and its  *)
(* timer cleared before the next one opens, and after a rejected connect() *)
(* nothing is left connecting.                                             *)
DeadAttemptsReleased ==
  \A i \in DOMAIN attempts :
    i < Tried \/ Settled => /\ attempts[i].timer = None
                            /\ attempts[i].socket # "connecting"
                            /\ attempts[i].promise = "rejected" => attempts[i].socket # "up"

(* A resolved connect() hands over what a session starts from: an open     *)
(* transport on the socket of the last attempt, its idle timer set; until  *)
(* some attempt connects the transport is "connecting", whatever the       *)
(* sockets of failed attempts still emit.                                  *)
HandsOverSession ==
  /\ establish.phase = "connected" => Current.connected /\ Current.socket = "up"
  /\ life = "open" <=> attempts # <<>> /\ Current.connected
  /\ idleArmed <=> life = "open"
  /\ \A i \in DOMAIN attempts : attempts[i].connected => i = Tried

(* connect() implements the fallback it promises: whatever dead sockets    *)
(* emit and however late timers are, one address is tried at a time, in    *)
(* order, and it is rejected with the error of the last (_establish).      *)
Rejected == {i \in DOMAIN attempts : attempts[i].promise = "rejected"}

Promised == INSTANCE OrderedFallback
  WITH Addresses <- CandidateRecords,
       outcome <- establish.phase, addresses <- establish.candidates, dialled <- Tried,
       failures <- [i \in Rejected |-> attempts[i].error], error <- establish.error

ImplementsFallback == Promised!Spec

(* Once both lookups have settled, so does connect(), also when no socket  *)
(* ever says a word.                                                       *)
ConnectSettles == Answered ~> Settled
=============================================================================
