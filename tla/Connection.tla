----------------------------- MODULE Connection -----------------------------
(***************************************************************************)
(* A transport from connect() to its end (src/src/transport.ts): Connect   *)
(* establishes it, TransportSession runs it, on the same _state and idle   *)
(* timer.  The sockets of failed attempts go on emitting while the session *)
(* is under way; the handlers wired to them are the ones of the session,   *)
(* told apart by the flag `connected' of their attempt.  The socket of the *)
(* session is alive before anyone holds the transport: connect() resolves  *)
(* a promise job later.                                                    *)
(*                                                                         *)
(* An idle timeout is set.  Listeners may act on the transport once        *)
(* connect() has resolved: nobody has it before.                           *)
(***************************************************************************)
EXTENDS Integers, Sequences

CONSTANTS
  Answers, None, ConnectTimeout, AttemptCap, Lag, Drift, MaxLookupTime,  \* of Connect
  Writers, Reads, MaxChunks, ReadEnabled,                         \* of TransportSession
  DataReactions, ErrorReactions, OverlappingReads

VARIABLES
  now, lookups, establish, attempts,           \* of Connect
  life, timers,                                \* of both
  reading, chain, prev, waiter, promise, calls, write, socket  \* of TransportSession

connectVars == <<now, lookups, establish, attempts>>
queueVars   == <<chain, prev, waiter, promise, calls>>
sessionVars == <<life, timers, reading, queueVars, write, socket>>
vars == <<connectVars, sessionVars>>

Session == INSTANCE TransportSession
  WITH IdleEnabled <- TRUE, OverlappingWrites <- TRUE, EarlySocketEvents <- TRUE

Establish == INSTANCE Connect
  WITH life <- life.state, idleArmed <- timers.idleTimer # None

ASSUME ConnectionAssumption ==
  /\ None \notin Writers \cup Reads \cup Session!Reasons
  /\ MaxChunks \in Nat /\ ReadEnabled \in BOOLEAN
  /\ DataReactions \subseteq {"nothing", "read", "close"} /\ "nothing" \in DataReactions
  /\ ErrorReactions \subseteq {"nothing", "close", "absent"} /\ ErrorReactions # {"close"}
  /\ \A a \in Answers : \/ /\ a.status = "rejected"
                           /\ a = [status |-> "rejected", reason |-> a.reason]
                        \/ /\ a = [status |-> "fulfilled", value |-> a.value]
                           /\ a.value \in Seq(Establish!AddressRecords)
  /\ \A r \in Establish!AddressRecords : /\ r = [address |-> r.address, family |-> r.family]
                                         /\ r.family \in {0, 4, 6}
  /\ None \notin Answers /\ None \notin Establish!DnsErrors /\ None \notin Int
  /\ ConnectTimeout \in Nat /\ AttemptCap \in Nat \ {0}
  /\ Lag \in Nat /\ Drift \in Nat /\ MaxLookupTime \in Nat

(* The fields of a new TcpTransport. *)
Init ==
  /\ life = [state |-> "connecting", reason |-> None, closing |-> None]
  /\ timers = Session!Timers!NoTimers
  /\ reading = [buffer |-> <<>>, pending |-> None, received |-> 0,
                outcome |-> [r \in Reads |-> "none"], delivered |-> <<>>]
  /\ Session!Queue!Init
  /\ write = [w \in Writers |-> "none"]
  /\ socket = [stage |-> "connecting", ended |-> FALSE, unflushed |-> <<>>,
               aborted |-> {}, needDrain |-> FALSE]
  /\ Establish!Init

-----------------------------------------------------------------------------
(* Before the connection, and what is left of the attempts after it.       *)

(* Mutation: the handler asks whether the transport is connecting, not     *)
(* whether this attempt has connected.                                     *)
AttemptClosesByState(i) ==
  IF life.state = "connecting" THEN UNCHANGED sessionVars /\ Establish!OnClose(i)
  ELSE /\ attempts[i].socket = "failed" /\ ~ attempts[i].connected
       /\ timers' = Session!Timers!ClearAll(timers)
       /\ life' = Session!UnexpectedClose(life, FALSE)
       /\ reading' = Session!RejectPendingRead(reading)
       /\ Session!Queue!Reject
       /\ attempts' = [attempts EXCEPT ![i].socket = "gone"]
       /\ UNCHANGED <<now, lookups, establish, write, socket>>

(* "close" on the socket of an attempt that has not connected. *)
AttemptCloses(i) == UNCHANGED sessionVars /\ Establish!OnClose(i)

Establishing ==
  /\ UNCHANGED sessionVars
  /\ \/ \E f \in Establish!Dns!Families, a \in Answers : Establish!LookupSettles(f, a)
     \/ Establish!ResolutionDone
     \/ \E i \in DOMAIN attempts : Establish!OnError(i) \/ Establish!OnConnectTimeout(i)
     \/ Establish!AttemptFailed
     \/ Establish!AttemptConnected
     \/ Establish!Tick

(* Mutation: the idle timer is not set. *)
OnConnectUntimed(i) ==
  /\ life' = Session!Transition(life, "open", None)
  /\ socket' = [socket EXCEPT !.stage = "up"]
  /\ attempts[i].socket = "connecting"
  /\ attempts' = [attempts EXCEPT ![i] = Establish!Connected(@)]
  /\ UNCHANGED <<now, lookups, establish, timers, reading, queueVars, write>>

(* The connect handler: the session begins. *)
OnConnect(i) ==
  /\ life' = Session!Transition(life, "open", None)
  /\ timers' = Session!Timers!ResetIdle(timers)
  /\ socket' = [socket EXCEPT !.stage = "up"]
  /\ Establish!OnConnect(i)
  /\ UNCHANGED <<reading, queueVars, write>>

-----------------------------------------------------------------------------
(* The session.                                                            *)

HasTransport == establish.phase = "connected"

(* What the socket may do before the application has the transport: there  *)
(* are no writes yet, and no listener acts.                                *)
UnheardEvent == \/ Session!OnData("nothing") \/ Session!OnEnd("nothing")
                \/ \E reaction \in ErrorReactions \ {"close"} : Session!OnError(reaction)
                \/ Session!OnClose \/ Session!SocketFails \/ Session!SocketFinishes

SessionSocket == /\ IF HasTransport THEN Session!SocketEvent ELSE UnheardEvent
                 /\ UNCHANGED connectVars
SessionJob    == Session!Job /\ UNCHANGED connectVars

(* Timers wait for the job that resolves connect(), socket events may not. *)
ConnectJobPending == establish.phase = "trying" /\ Establish!Current.promise # "pending"

SessionTimeout == ~ ConnectJobPending /\ Session!Timeout /\ UNCHANGED connectVars

SessionCall == HasTransport /\ Session!Call /\ UNCHANGED connectVars

Done == UNCHANGED sessionVars /\ Establish!Done

Next ==
  \/ Establishing
  \/ \E i \in DOMAIN attempts : OnConnect(i) \/ AttemptCloses(i)
  \/ SessionSocket
  \/ SessionJob
  \/ SessionTimeout
  \/ SessionCall
  \/ Done

Spec == Init /\ [][Next]_vars

(* What the event loop owes while connecting, and the idle timer.          *)
FairSpec ==
  /\ Spec
  /\ WF_vars(UNCHANGED sessionVars /\ Establish!ResolutionDone)
  /\ WF_vars(UNCHANGED sessionVars /\ Establish!AttemptFailed)
  /\ WF_vars(UNCHANGED sessionVars /\ Establish!AttemptConnected)
  /\ WF_vars(UNCHANGED sessionVars /\ Establish!Tick)
  /\ WF_vars(UNCHANGED sessionVars /\ \E i \in DOMAIN attempts : Establish!OnConnectTimeout(i))
  /\ WF_vars(SessionJob)
  /\ WF_vars(~ ConnectJobPending /\ UNCHANGED connectVars
               /\ \E n \in timers.idleLive, reaction \in ErrorReactions :
                    Session!OnIdleTimeout(n, reaction))

-----------------------------------------------------------------------------
(* No socket but the session's own closes the transport, whatever the      *)
(* sockets of failed attempts emit later; a transport in "closing" has its *)
(* "close" still to come; none is closed before it was connected.          *)
ClosedByOwnSocket ==
  /\ Session!ClosingWillEnd
  /\ life.state = "connecting" <=> socket.stage = "connecting"

(* When connect() was rejected, or the socket of the session is gone, no   *)
(* timer is live, and no socket of any attempt is connecting or up.        *)
NothingLeftBehind ==
  establish.phase = "rejected" \/ socket.stage = "gone" =>
    /\ timers.idleLive = {} /\ timers.readLive = {}
    /\ \A i \in DOMAIN attempts :
         /\ attempts[i].timer = None
         /\ attempts[i].socket # "connecting"
         /\ attempts[i].socket = "up" => socket.stage = "gone"

(* Nobody's silence goes unnoticed.  Once the lookups have answered, and    *)
(* until connect() is rejected or the transport is closing, there is a job *)
(* that takes connect() on, a connect timer due within the budget, or the  *)
(* idle timer.                                                             *)
Ended == establish.phase = "rejected" \/ life.state \in {"closing", "closed"}

ConnectTimed == /\ establish.phase = "trying"
                /\ Establish!Current.timer # None
                /\ Establish!Current.timer <= Establish!LatestTimer

AlwaysWatched ==
  "absent" \notin ErrorReactions /\ Establish!Answered /\ ~ Ended =>
    \/ establish.phase = "resolving" \/ ConnectJobPending
    \/ ConnectTimed
    \/ timers.idleLive # {}

(* A write is resolved only when the socket holds neither its bytes nor an *)
(* error for it, also when socket events overtake the promise jobs.        *)
ResolvedWritesLeft == Session!ResolvedWritesLeft

(* Bytes that arrive while nobody holds the transport yet are kept for the *)
(* first reads, in order (_openSocket, data handler).                      *)
ChunksInOrder == Session!ChunksInOrder

(* From connect() on the transport keeps to its interface. *)
ImplementsTransport == Session!ImplementsTransport

(* Once the lookups have answered, connect() is rejected or the transport  *)
(* is closed in the end, if the peer falls silent at any point: the        *)
(* connect timer, the budget and the idle timer leave no gap between them. *)
ConnectionEnds ==
  Establish!Answered ~> establish.phase = "rejected" \/ life.state \in {"closing", "closed"}
=============================================================================
