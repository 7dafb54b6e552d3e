-------------------------- MODULE ConnectionProofs --------------------------
(***************************************************************************)
(* What holds of a transport from connect() to its end, for any hosts,     *)
(* timeouts and peers.  Running is the proved session and Opening the      *)
(* proved establishment, which sees of the lifecycle only whether it has   *)
(* left "connecting": a connection implements both, so that the invariants *)
(* of each hold of it and only where they meet something is left to show.  *)
(***************************************************************************)
EXTENDS Connection, TLAPS

Running == INSTANCE TransportRefinementProofs
  WITH IdleEnabled <- TRUE, OverlappingWrites <- TRUE, EarlySocketEvents <- TRUE

Opening == INSTANCE ConnectProofs
  WITH life <- IF life.state = "connecting" THEN "connecting" ELSE "open",
       idleArmed <- life.state # "connecting"

-----------------------------------------------------------------------------
(* Connection and the two proof modules instantiate the same modules: the  *)
(* definitions agree, one by one.                                          *)

LEMMA SameSession == (Session!Next <=> Running!Next) /\ (Session!Init <=> Running!Init)
  BY DEF Session!Reasons, Session!queueVars, Session!vars, Session!Init,
         Session!JobsPending, Session!TaskTurn, Session!SocketTurn, Session!Transition,
         Session!Close, Session!ListenerCloses, Session!FailIfNotClosed,
         Session!UnexpectedClose, Session!FinishClose, Session!TakeRead,
         Session!Deliver, Session!RejectPendingRead, Session!TimeRead, Session!MayRead,
         Session!Contents, Session!InFlight, Session!Destroyed, Session!SocketFails,
         Session!SocketFinishes, Session!CanDeliver, Session!Chunk, Session!Received,
         Session!DataTimers, Session!OnData, Session!OnDataReading, Session!PeerEnds,
         Session!OnEnd, Session!OnEndReading, Session!OnError, Session!OnClose,
         Session!Waiting, Session!MayWrite, Session!Refuses, Session!Write,
         Session!WriteRefused, Session!Flushed, Session!Flush, Session!FlushFails,
         Session!Read, Session!ClientClose, Session!IdleExpires, Session!OnIdleTimeout,
         Session!OnReadTimeout, Session!DrainArmed, Session!DrainAwaited,
         Session!SocketEvent, Session!Timeout, Session!Job, Session!Call, Session!Next,
         Session!Queue!Settled, Session!Queue!Answered, Session!Queue!Stage,
         Session!Queue!Init, Session!Queue!AwaitDrain, Session!Queue!ChainSettled,
         Session!Queue!ArmWaiter, Session!Queue!AnswerWaiter, Session!Queue!NotifyDrain,
         Session!Queue!Reject, Session!Queue!SettleNext, Session!Queue!JobEnabled,
         Session!Timers!NoTimers, Session!Timers!FreshIdle, Session!Timers!ResetIdle,
         Session!Timers!ResetRead, Session!Timers!ClearIdle, Session!Timers!ClearRead,
         Session!Timers!ClearAll, Session!Timers!IdleFires, Session!Timers!ReadFires,
         Running!Reasons, Running!queueVars, Running!vars, Running!Init,
         Running!JobsPending, Running!TaskTurn, Running!SocketTurn, Running!Transition,
         Running!Close, Running!ListenerCloses, Running!FailIfNotClosed,
         Running!UnexpectedClose, Running!FinishClose, Running!TakeRead,
         Running!Deliver, Running!RejectPendingRead, Running!TimeRead, Running!MayRead,
         Running!Contents, Running!InFlight, Running!Destroyed, Running!SocketFails,
         Running!SocketFinishes, Running!CanDeliver, Running!Chunk, Running!Received,
         Running!DataTimers, Running!OnData, Running!OnDataReading, Running!PeerEnds,
         Running!OnEnd, Running!OnEndReading, Running!OnError, Running!OnClose,
         Running!Waiting, Running!MayWrite, Running!Refuses, Running!Write,
         Running!WriteRefused, Running!Flushed, Running!Flush, Running!FlushFails,
         Running!Read, Running!ClientClose, Running!IdleExpires, Running!OnIdleTimeout,
         Running!OnReadTimeout, Running!DrainArmed, Running!DrainAwaited,
         Running!SocketEvent, Running!Timeout, Running!Job, Running!Call, Running!Next,
         Running!Queue!Settled, Running!Queue!Answered, Running!Queue!Stage,
         Running!Queue!Init, Running!Queue!AwaitDrain, Running!Queue!ChainSettled,
         Running!Queue!ArmWaiter, Running!Queue!AnswerWaiter, Running!Queue!NotifyDrain,
         Running!Queue!Reject, Running!Queue!SettleNext, Running!Queue!JobEnabled,
         Running!Timers!NoTimers, Running!Timers!FreshIdle, Running!Timers!ResetIdle,
         Running!Timers!ResetRead, Running!Timers!ClearIdle, Running!Timers!ClearRead,
         Running!Timers!ClearAll, Running!Timers!IdleFires, Running!Timers!ReadFires

LEMMA SameEstablishing ==
  ASSUME Establishing \/ \E i \in DOMAIN attempts : AttemptCloses(i)
  PROVE  Opening!Next
<1>0. UNCHANGED life
  BY DEF Establishing, AttemptCloses, sessionVars
<1>1. ASSUME NEW f \in Establish!Dns!Families, NEW a \in Answers, Establish!LookupSettles(f, a)
      PROVE  Opening!LookupSettles(f, a)
  BY <1>0, <1>1 DEF Establish!LookupSettles, Opening!LookupSettles
<1>2. ASSUME Establish!ResolutionDone PROVE Opening!ResolutionDone
  BY <1>0, <1>2
  DEF Establish!ResolutionDone, Establish!Answered, Establish!Dns!Candidates,
      Establish!Dns!Kept, Establish!Dns!Fulfilled, Establish!Dns!Resolved,
      Establish!Dns!Preferred, Establish!Dns!Alternate, Establish!Dns!AddressesIn,
      Establish!Dns!Families, Establish!Dns!DnsCause, Establish!Dns!LookupError,
      Establish!Dns!Failed, Opening!Dns!Failed,
      Establish!TryCandidate, Establish!Opened, Establish!Threw, Establish!AttemptTimeout,
      Establish!AtLeast1, Opening!ResolutionDone, Opening!Answered,
      Opening!Dns!Candidates, Opening!Dns!Kept, Opening!Dns!Fulfilled,
      Opening!Dns!Resolved, Opening!Dns!Preferred, Opening!Dns!Alternate,
      Opening!Dns!AddressesIn, Opening!Dns!Families, Opening!Dns!DnsCause,
      Opening!Dns!LookupError, Opening!TryCandidate, Opening!Opened, Opening!Threw,
      Opening!AttemptTimeout, Opening!AtLeast1
<1>3. ASSUME NEW i \in DOMAIN attempts, Establish!OnError(i) PROVE Opening!OnError(i)
  BY <1>0, <1>3 DEF Establish!OnError, Establish!Update, Establish!Fail, Establish!SettleOnce,
                    Opening!OnError, Opening!Update, Opening!Fail, Opening!SettleOnce
<1>4. ASSUME NEW i \in DOMAIN attempts, Establish!OnConnectTimeout(i)
      PROVE  Opening!OnConnectTimeout(i)
  BY <1>0, <1>4 DEF Establish!OnConnectTimeout, Establish!Update, Establish!Fail, Establish!SettleOnce,
                    Opening!OnConnectTimeout, Opening!Update, Opening!Fail, Opening!SettleOnce
<1>5. ASSUME NEW i \in DOMAIN attempts, Establish!OnClose(i) PROVE Opening!OnClose(i)
  BY <1>0, <1>5 DEF Establish!OnClose, Establish!Update, Establish!Fail, Establish!SettleOnce,
                    Opening!OnClose, Opening!Update, Opening!Fail, Opening!SettleOnce
<1>6. ASSUME Establish!AttemptFailed PROVE Opening!AttemptFailed
  BY <1>0, <1>6
  DEF Establish!AttemptFailed, Establish!Current, Establish!Tried, Establish!OutOfTime,
      Establish!TryCandidate, Establish!Opened, Establish!Threw, Establish!AttemptTimeout,
      Establish!AtLeast1, Opening!AttemptFailed, Opening!Current, Opening!Tried,
      Opening!OutOfTime, Opening!TryCandidate, Opening!Opened, Opening!Threw,
      Opening!AttemptTimeout, Opening!AtLeast1
<1>7. ASSUME Establish!AttemptConnected PROVE Opening!AttemptConnected
  BY <1>0, <1>7 DEF Establish!AttemptConnected, Establish!Current, Establish!Tried,
                    Opening!AttemptConnected, Opening!Current, Opening!Tried
<1>8. ASSUME Establish!Tick PROVE Opening!Tick
  BY <1>0, <1>8 DEF Establish!Tick, Establish!ClockRuns, Establish!Overdue,
                    Establish!Answered, Establish!Dns!Families, Establish!Current,
                    Establish!Tried, Opening!Tick, Opening!ClockRuns, Opening!Overdue,
                    Opening!Answered, Opening!Dns!Families, Opening!Current, Opening!Tried
<1>9. Establish!Dns!Families = Opening!Dns!Families
  BY DEF Establish!Dns!Families, Opening!Dns!Families
<1> QED
  BY <1>1, <1>2, <1>3, <1>4, <1>5, <1>6, <1>7, <1>8, <1>9
  DEF Establishing, AttemptCloses, Opening!Next

(* The connect handler, while the transport is connecting. *)
LEMMA SameConnect ==
  ASSUME NEW i \in DOMAIN attempts, OnConnect(i), life.state = "connecting"
  PROVE  Opening!OnConnect(i)
  BY DEF OnConnect, Establish!OnConnect, Establish!Update, Establish!Connected,
         Establish!SettleOnce, Opening!OnConnect, Opening!Update, Opening!Connected,
         Opening!SettleOnce

LEMMA SameInit == Init => Opening!Init
  BY DEF Init, Establish!Init, Opening!Init, Establish!Dns!Families, Opening!Dns!Families

LEMMA SameTransport ==
  /\ Running!Abstract!Init <=> Session!Abstract!Init
  /\ [Running!Abstract!Next]_(Running!Abstract!vars) <=> [Session!Abstract!Next]_(Session!Abstract!vars)
  BY DEF Session!Abstract!Reasons, Session!Abstract!Init, Session!Abstract!Open,
         Session!Abstract!BeginClose, Session!Abstract!Closed,
         Session!Abstract!CloseLate, Session!Abstract!Lifecycle,
         Session!Abstract!Begins, Session!Abstract!Waits, Session!Abstract!ReadGets,
         Session!Abstract!ReadFails, Session!Abstract!ReadWaits,
         Session!Abstract!Reading, Session!Abstract!WriteBegins,
         Session!Abstract!WriteSettles, Session!Abstract!Writing, Session!Abstract!Next,
         Session!Abstract!vars, Session!Abstract!Spec, Running!Abstract!Reasons,
         Running!Abstract!Init, Running!Abstract!Open, Running!Abstract!BeginClose,
         Running!Abstract!Closed, Running!Abstract!CloseLate,
         Running!Abstract!Lifecycle, Running!Abstract!Begins, Running!Abstract!Waits,
         Running!Abstract!ReadGets, Running!Abstract!ReadFails,
         Running!Abstract!ReadWaits, Running!Abstract!Reading,
         Running!Abstract!WriteBegins, Running!Abstract!WriteSettles,
         Running!Abstract!Writing, Running!Abstract!Next, Running!Abstract!vars,
         Running!Abstract!Spec, Session!WriteOutcome, Running!WriteOutcome

LEMMA SamePromises ==
  /\ Running!Abstract!StreamSound <=> Session!Abstract!StreamSound
  /\ Running!Abstract!LifecycleSound <=> Session!Abstract!LifecycleSound
  /\ [Running!Abstract!Final]_(Running!Abstract!vars) <=>
       [Session!Abstract!Final]_(Session!Abstract!vars)
<1>1. Running!Abstract!StreamSound <=> Session!Abstract!StreamSound
  BY DEF Running!Abstract!StreamSound, Session!Abstract!StreamSound,
         Running!Abstract!Resolved, Session!Abstract!Resolved,
         Running!Abstract!Cardinality, Session!Abstract!Cardinality
<1>2. Running!Abstract!LifecycleSound <=> Session!Abstract!LifecycleSound
  BY DEF Running!Abstract!LifecycleSound, Session!Abstract!LifecycleSound,
         Running!Abstract!Reasons, Session!Abstract!Reasons,
         Running!WriteOutcome, Session!WriteOutcome
<1>3. Running!Abstract!Final <=> Session!Abstract!Final
  BY DEF Running!Abstract!Final, Session!Abstract!Final, Running!Abstract!Over,
         Session!Abstract!Over, Running!Abstract!Resolved, Session!Abstract!Resolved,
         Running!WriteOutcome, Session!WriteOutcome
<1>4. UNCHANGED Running!Abstract!vars <=> UNCHANGED Session!Abstract!vars
  BY DEF Running!Abstract!vars, Session!Abstract!vars, Running!WriteOutcome, Session!WriteOutcome
<1> QED
  BY <1>1, <1>2, <1>3, <1>4

-----------------------------------------------------------------------------
(* The session before it begins, and the invariant.                        *)

Fresh ==
  /\ life = [state |-> "connecting", reason |-> None, closing |-> None]
  /\ timers = Session!Timers!NoTimers
  /\ reading = [buffer |-> <<>>, pending |-> None, received |-> 0,
                outcome |-> [r \in Reads |-> "none"], delivered |-> <<>>]
  /\ Session!Queue!Init
  /\ write = [w \in Writers |-> "none"]
  /\ socket = [stage |-> "connecting", ended |-> FALSE, unflushed |-> <<>>,
               aborted |-> {}, needDrain |-> FALSE]

(* No turn of the session changes anything before the connection: the      *)
(* socket of the session emits nothing, and close() finds nothing open.    *)
LEMMA FreshIsQuiet ==
  ASSUME Fresh, Session!Next
  PROVE  UNCHANGED sessionVars
<1>1. ~ Session!SocketEvent
  BY DEF Fresh, Session!SocketEvent, Session!OnData, Session!OnEnd, Session!OnDataReading,
         Session!OnEndReading, Session!CanDeliver, Session!PeerEnds, Session!OnError,
         Session!OnClose, Session!SocketFails, Session!SocketFinishes, Session!Flush,
         Session!FlushFails
<1>2. ~ Session!Timeout
  BY DEF Fresh, Session!Timers!NoTimers, Session!Timeout, Session!OnReadTimeout,
         Session!OnIdleTimeout
<1>3. ~ Session!Job
  BY DEF Fresh, Session!Queue!Init, Session!Job, Session!DrainArmed, Session!DrainAwaited,
         Session!Queue!ArmWaiter, Session!Queue!SettleNext, Session!Queue!Answered
<1>4. Session!Call => UNCHANGED sessionVars
  BY DEF Fresh, Session!Call, Session!Write, Session!WriteRefused, Session!MayWrite,
         Session!Read, Session!MayRead, Session!ClientClose, Session!Close,
         Session!queueVars, sessionVars, queueVars
<1> QED
  BY <1>1, <1>2, <1>3, <1>4 DEF Session!Next

(* The connect handler starts the session. *)
LEMMA SessionBegins ==
  ASSUME Fresh, NEW i, OnConnect(i)
  PROVE  Session!Init' /\ life'.state = "open"
  BY DEF Fresh, OnConnect, Session!Init, Session!Transition, Session!Queue!Init, queueVars

(* What the socket does before connect() has resolved it may also do later. *)
LEMMA UnheardIsHeard == UnheardEvent => Session!SocketEvent
  BY ConnectionAssumption DEF UnheardEvent, Session!SocketEvent

(* The invariants of the session: its reading, timers and lifecycle, its   *)
(* writes, and the idle timer, if it is not lost to a throwing emit.       *)
Sound == /\ Running!RefinementInv /\ Running!WriteInv
         /\ "absent" \notin ErrorReactions => Running!IdleArmedWhileOpen

CInv ==
  /\ Opening!IInv
  /\ life.state = "connecting" => Fresh
  /\ life.state # "connecting" => Sound

LEMMA Assumptions == Running!SessionAssumption /\ Opening!ConnectAssumption
  BY ConnectionAssumption
  DEF Running!SessionAssumption, Opening!ConnectAssumption, Session!Reasons, Running!Reasons,
      Establish!AddressRecords, Opening!AddressRecords, Establish!DnsErrors, Opening!DnsErrors

LEMMA InitC == Init => CInv
  BY SameInit, Assumptions, Opening!InitInv DEF CInv, Init, Fresh

(* No attempt is under way once one has connected. *)
LEMMA OneConnection ==
  ASSUME CInv, NEW i \in DOMAIN attempts
  PROVE  /\ attempts[i].socket = "connecting" => life.state = "connecting"
         /\ life.state # "connecting" => attempts[i].socket # "connecting" /\ attempts[i].timer = None
<1>1. /\ attempts \in Seq(Opening!Attempts)
      /\ Opening!AttemptsInOrder
  BY DEF CInv, Opening!IInv, Opening!TypeOK
<1>a. i \in 1 .. Len(attempts) /\ attempts[i] \in Opening!Attempts
  BY <1>1
<1>2. i \in 1 .. Len(attempts) /\ attempts[i].promise \in {"pending", "resolved", "rejected"}
  BY <1>a DEF Opening!Attempts
<1>3. i < Len(attempts) => attempts[i].promise = "rejected"
  BY <1>1 DEF Opening!AttemptsInOrder, Opening!Tried
<1>4. life.state # "connecting" => attempts[Len(attempts)].connected
  BY <1>1 DEF Opening!AttemptsInOrder, Opening!Tried, Opening!Current
<1>5. Opening!AttemptSound(attempts[i])
  BY <1>1 DEF Opening!AttemptsInOrder
<1>6. i < Len(attempts) \/ i = Len(attempts)
  BY <1>1, <1>2
<1> QED
  BY <1>2, <1>3, <1>4, <1>5, <1>6 DEF Opening!AttemptSound

LEMMA OpeningStep ==
  ASSUME CInv, [Opening!Next]_(Opening!vars)
  PROVE  Opening!IInv'
  BY Assumptions, Opening!Inductive DEF CInv

LEMMA RunningBegins == Session!Init' => Sound'
<1>1. Session!Init => Sound
  BY SameSession, Assumptions, Running!RefinementInit, Running!WriteInit, Running!IdleArmedInit
  DEF Sound
<1> QED
  BY <1>1, PTL

LEMMA RunningStep ==
  ASSUME CInv, life.state # "connecting", [Running!Next]_(Running!vars)
  PROVE  /\ Sound' /\ life'.state # "connecting"
         /\ [Running!Abstract!Next]_(Running!Abstract!vars)
<1>1. Running!RefinementInv /\ Running!WriteInv /\ Running!TypeOK
  BY DEF CInv, Sound, Running!RefinementInv, Running!SessionInv
<1>2. Running!RefinementInv' /\ [Running!Abstract!Next]_(Running!Abstract!vars)
  BY <1>1, Assumptions, Running!RefinementStep, Running!TransportStep
<1>3. Running!WriteInv'
  BY <1>1, Assumptions, Running!WriteStep
<1>4. ASSUME "absent" \notin ErrorReactions PROVE Running!IdleArmedWhileOpen'
  <2>1. Running!SessionInv /\ Running!SessionInv' /\ Running!IdleArmedWhileOpen
    BY <1>1, <1>2, <1>4 DEF CInv, Sound, Running!RefinementInv
  <2> QED
    BY <1>4, <2>1, Assumptions, Running!IdleArmedStep
<1> QED
  BY <1>2, <1>3, <1>4 DEF Sound, Running!RefinementInv

(* What every step of a connection is. *)
LEMMA Step ==
  ASSUME CInv, [Next]_vars
  PROVE  /\ CInv'
         /\ [Opening!Next]_(Opening!vars)
         /\ [Session!Abstract!Next]_(Session!Abstract!vars)
<1>1. ASSUME UNCHANGED sessionVars, [Opening!Next]_(Opening!vars)
      PROVE  CInv' /\ [Session!Abstract!Next]_(Session!Abstract!vars)
  <2>1. Opening!IInv'
    BY <1>1, OpeningStep
  <2>2. life.state = "connecting" => Fresh'
    BY <1>1 DEF CInv, Fresh, sessionVars, queueVars, Session!Queue!Init
  <2>3. life.state # "connecting" => Sound'
    <3>1. UNCHANGED Running!vars
      BY <1>1 DEF sessionVars, queueVars, Running!vars, Running!queueVars
    <3> QED
      BY <3>1, RunningStep
  <2>4. UNCHANGED life /\ UNCHANGED Session!Abstract!vars
    BY <1>1 DEF sessionVars, Session!Abstract!vars, Session!WriteOutcome
  <2> QED
    BY <2>1, <2>2, <2>3, <2>4 DEF CInv
<1>2. CASE Establishing \/ \E i \in DOMAIN attempts : AttemptCloses(i)
  BY <1>1, <1>2, SameEstablishing DEF Establishing, AttemptCloses
<1>3. CASE UNCHANGED vars
  BY <1>1, <1>3 DEF vars, connectVars, sessionVars, Opening!vars
<1>4. ASSUME NEW i \in DOMAIN attempts, OnConnect(i)
      PROVE  /\ CInv' /\ Opening!Next
             /\ Session!Abstract!Next
  <2>1. life.state = "connecting" /\ Fresh
    BY <1>4, OneConnection DEF OnConnect, Establish!OnConnect, CInv
  <2>2. Opening!Next
    BY <1>4, <2>1, SameConnect DEF Opening!Next
  <2>3. Session!Init' /\ life'.state = "open"
    BY <1>4, <2>1, SessionBegins
  <2>4. Sound'
    BY <2>3, RunningBegins
  <2>5. Session!Abstract!Next
    BY <1>4, <2>1
    DEF OnConnect, Fresh, Session!Transition, Session!Abstract!Next, Session!Abstract!Lifecycle,
        Session!Abstract!Open, Session!Abstract!Reading, Session!Abstract!Writing,
        Session!WriteOutcome
  <2> QED
    BY <2>2, <2>3, <2>4, <2>5, OpeningStep DEF CInv
<1>5. ASSUME Session!Next, UNCHANGED connectVars
      PROVE  /\ CInv'
             /\ [Opening!Next]_(Opening!vars)
             /\ [Session!Abstract!Next]_(Session!Abstract!vars)
  <2>1. CASE life.state = "connecting"
    <3>1. UNCHANGED vars
      BY <1>5, <2>1, FreshIsQuiet DEF CInv, vars
    <3> QED
      BY <1>1, <3>1 DEF vars, connectVars, sessionVars, Opening!vars
  <2>2. CASE life.state # "connecting"
    <3>1. /\ Sound' /\ life'.state # "connecting"
          /\ [Session!Abstract!Next]_(Session!Abstract!vars)
      BY <1>5, <2>2, SameSession, SameTransport, RunningStep
    <3>2. UNCHANGED Opening!vars
      BY <1>5, <2>2, <3>1 DEF connectVars, Opening!vars
    <3> QED
      BY <3>1, <3>2, OpeningStep DEF CInv
  <2> QED
    BY <2>1, <2>2
<1>6. SessionSocket \/ SessionJob \/ SessionTimeout \/ SessionCall
        => Session!Next /\ UNCHANGED connectVars
  BY UnheardIsHeard DEF SessionSocket, SessionJob, SessionTimeout, SessionCall, Session!Next
<1>7. Done => UNCHANGED vars
  BY DEF Done, Establish!Done, Establish!vars, vars, connectVars
<1> QED
  BY <1>2, <1>3, <1>4, <1>5, <1>6, <1>7 DEF Next

-----------------------------------------------------------------------------
(* A connection is, at any time, a sound establishment, and either nothing *)
(* of the session has happened or the session is sound.                    *)
THEOREM Invariant == Spec => []CInv
<1>1. CInv /\ [Next]_vars => CInv'
  BY Step
<1> QED
  BY <1>1, InitC, PTL DEF Spec

(* Establishing goes on under the session as Connect has it (_establish,   *)
(* _openSocket): the session takes nothing back of what the theorems on    *)
(* Connect say, the budget and the candidates among it.                    *)
THEOREM EstablishesAsConnect == Spec => Opening!Spec
<1>1. CInv /\ [Next]_vars => [Opening!Next]_(Opening!vars)
  BY Step
<1> QED
  BY <1>1, SameInit, Invariant, PTL DEF Spec, Opening!Spec

(* Nor does it disturb the fallback: the addresses are still dialled one   *)
(* at a time, in order, and the error is the last one's, with the session  *)
(* running next to the sockets of the failed attempts (_establish).        *)
THEOREM FallsBackAsPromised == Spec => Opening!ImplementsFallback
<1>1. Init => Opening!Promised!Init
  BY SameInit, Assumptions, Opening!StartsResolving
<1>2. CInv /\ [Next]_vars => [Opening!Promised!Next]_(Opening!Promised!vars)
  BY Step, Assumptions, Opening!StepRefines DEF CInv
<1> QED
  BY <1>1, <1>2, Invariant, PTL DEF Spec, Opening!ImplementsFallback, Opening!Promised!Spec

(* Only the session's own socket closes a transport, never one of a failed *)
(* attempt, and none is closed before it was connected (the `connected'    *)
(* flag of the error and close handlers).                                  *)
THEOREM OwnSocket == Spec => []ClosedByOwnSocket
<1>1. CInv => ClosedByOwnSocket
  <2> SUFFICES ASSUME CInv PROVE ClosedByOwnSocket
    OBVIOUS
  <2>1. CASE life.state = "connecting"
    BY <2>1 DEF CInv, Fresh, ClosedByOwnSocket, Session!ClosingWillEnd
  <2>2. CASE life.state # "connecting"
    <3>1. socket \in Running!Sockets /\ Running!ClosingWillEnd
      BY <2>2 DEF CInv, Sound, Running!RefinementInv, Running!SessionInv, Running!TypeOK, Running!LifeInv
    <3>2. socket.stage # "connecting"
      BY <3>1 DEF Running!Sockets
    <3> QED
      BY <2>2, <3>1, <3>2 DEF ClosedByOwnSocket, Session!ClosingWillEnd, Running!ClosingWillEnd
  <2> QED
    BY <2>1, <2>2
<1> QED
  BY <1>1, Invariant, PTL

(* After a rejected connect(), or once the socket of the session is gone,  *)
(* no timer is live and no socket of any attempt is open (fail() and the   *)
(* close handler).                                                         *)
THEOREM NothingLeft == Spec => []NothingLeftBehind
<1>1. CInv => NothingLeftBehind
  <2> SUFFICES ASSUME CInv, establish.phase = "rejected" \/ socket.stage = "gone"
               PROVE  /\ timers.idleLive = {} /\ timers.readLive = {}
                      /\ \A i \in DOMAIN attempts :
                           /\ attempts[i].timer = None
                           /\ attempts[i].socket # "connecting"
                           /\ attempts[i].socket = "up" => socket.stage = "gone"
    BY DEF NothingLeftBehind
  <2>0. Opening!IInv
    BY DEF CInv
  <2>1. CASE establish.phase = "rejected"
    <3>1. attempts \in Seq(Opening!Attempts) /\ Opening!AttemptsInOrder
      BY <2>0 DEF Opening!IInv, Opening!TypeOK
    <3>2. attempts = <<>> \/ attempts[Len(attempts)].promise = "rejected"
      BY <2>0, <2>1 DEF Opening!IInv, Opening!PhaseSound, Opening!Current, Opening!Tried
    <3>3. ASSUME NEW i \in DOMAIN attempts
          PROVE  Opening!AttemptSound(attempts[i]) /\ attempts[i].promise = "rejected"
      <4>1. i \in 1 .. Len(attempts) /\ attempts # <<>>
        BY <3>1
      <4>2. i < Len(attempts) \/ i = Len(attempts)
        BY <3>1, <4>1
      <4> QED
        BY <3>1, <3>2, <4>1, <4>2 DEF Opening!AttemptsInOrder, Opening!Tried
    <3>4. life.state = "connecting"
      <4>1. CASE attempts = <<>>
        BY <3>1, <4>1 DEF Opening!AttemptsInOrder
      <4>2. CASE attempts # <<>>
        <5>1. Len(attempts) \in DOMAIN attempts
          BY <3>1, <4>2
        <5>2. ~ attempts[Len(attempts)].connected
          BY <3>3, <5>1 DEF Opening!AttemptSound
        <5> QED
          BY <3>1, <5>2 DEF Opening!AttemptsInOrder, Opening!Current, Opening!Tried
      <4> QED
        BY <4>1, <4>2
    <3>5. timers.idleLive = {} /\ timers.readLive = {}
      BY <3>4 DEF CInv, Fresh, Session!Timers!NoTimers
    <3> QED
      BY <3>3, <3>5 DEF Opening!AttemptSound
  <2>2. CASE socket.stage = "gone"
    <3>1. life.state # "connecting"
      BY <2>2 DEF CInv, Fresh
    <3>2. timers.idleLive = {} /\ timers.readLive = {}
      BY <2>2, <3>1 DEF CInv, Sound, Running!RefinementInv, Running!SessionInv, Running!LifeInv,
                        Running!QuietWhenGone
    <3> QED
      BY <2>2, <3>1, <3>2, OneConnection
  <2> QED
    BY <2>1, <2>2
<1> QED
  BY <1>1, Invariant, PTL

(* From the lookups on there is no moment at which only the peer could     *)
(* move a connection: what is still open is timed, by the connect timer    *)
(* within the budget or by the idle timer (_establish, the connect         *)
(* handler, resetIdle).                                                    *)
THEOREM NoUnwatchedMoment == Spec => []AlwaysWatched
<1>1. CInv => AlwaysWatched
  <2> SUFFICES ASSUME CInv, "absent" \notin ErrorReactions, ~ Ended,
                      establish.phase # "resolving", ~ ConnectJobPending, ~ ConnectTimed
               PROVE  timers.idleLive # {}
    BY DEF AlwaysWatched
  <2>0. Opening!IInv /\ Opening!TypeOK /\ Opening!PhaseSound /\ Opening!AttemptsInOrder
    BY DEF CInv, Opening!IInv
  <2>1. establish.phase \in {"trying", "connected"}
    BY <2>0 DEF Opening!TypeOK, Ended
  <2>2. /\ attempts # <<>> /\ Len(attempts) \in DOMAIN attempts
        /\ attempts[Len(attempts)] \in Opening!Attempts
        /\ Opening!AttemptSound(attempts[Len(attempts)])
    <3>1. attempts # <<>> /\ attempts \in Seq(Opening!Attempts)
      BY <2>0, <2>1 DEF Opening!PhaseSound, Opening!TypeOK
    <3>2. Len(attempts) \in DOMAIN attempts
      BY <3>1
    <3> QED
      BY <2>0, <3>1, <3>2 DEF Opening!AttemptsInOrder
  <2>3. ASSUME establish.phase = "trying" PROVE FALSE
    <3>1. attempts[Len(attempts)].promise = "pending"
      BY <2>2, <2>3 DEF ConnectJobPending, Establish!Current, Establish!Tried, Opening!Attempts
    <3>2. attempts[Len(attempts)].timer # None
      BY <2>2, <3>1 DEF Opening!AttemptSound
    <3>3. attempts[Len(attempts)].timer <= Establish!LatestTimer
      BY <2>3, <3>1
      DEF CInv, Opening!IInv, Opening!InTime, Opening!Current, Opening!Tried,
          Opening!LatestTimer, Opening!AtLeast1, Establish!LatestTimer, Establish!AtLeast1
    <3> QED
      BY <2>3, <3>2, <3>3 DEF ConnectTimed, Establish!Current, Establish!Tried
  <2>4. attempts[Len(attempts)].promise = "resolved"
    BY <2>0, <2>1, <2>3 DEF Opening!PhaseSound, Opening!Current, Opening!Tried
  <2>5. life.state # "connecting"
    <3>1. attempts[Len(attempts)].connected
      BY <2>2, <2>4 DEF Opening!AttemptSound
    <3> QED
      BY <2>0, <2>2, <3>1 DEF Opening!AttemptsInOrder, Opening!Current, Opening!Tried
  <2>6. life.state = "open"
    BY <2>5 DEF CInv, Sound, Running!RefinementInv, Running!SessionInv, Running!TypeOK,
                Running!Lives, Ended
  <2> QED
    BY <2>5, <2>6 DEF CInv, Sound, Running!IdleArmedWhileOpen
<1> QED
  BY <1>1, Invariant, PTL

(* A resolved write has left the process, from the first write on (the     *)
(* flush callback and the queue of write()).                               *)
THEOREM WritesSent == Spec => []ResolvedWritesLeft
<1>1. CInv => ResolvedWritesLeft
  <2> SUFFICES ASSUME CInv PROVE ResolvedWritesLeft
    OBVIOUS
  <2>1. CASE life.state = "connecting"
    BY <2>1 DEF CInv, Fresh, ResolvedWritesLeft, Session!ResolvedWritesLeft
  <2>2. CASE life.state # "connecting"
    BY <2>2 DEF CInv, Sound, Running!WriteInv, Running!Held, Running!Contents, ResolvedWritesLeft,
                Session!ResolvedWritesLeft, Session!Contents
  <2> QED
    BY <2>1, <2>2
<1> QED
  BY <1>1, Invariant, PTL

(* What is proved of a session holds of it from connect() on, under the    *)
(* events that failed attempts still emit: chunks reach reads in order,    *)
(* none waits in the buffer while a read is pending, the pending read is   *)
(* timed, no timeout is out of reach, and with one read at a time every    *)
(* read is answered in the end (read(), the handlers, timers.ts).          *)
SessionPromises == /\ Session!ChunksInOrder /\ Session!NoReadWaitsOnBuffer
                   /\ Session!PendingReadIsTimed /\ Session!TimersAccounted
                   /\ ~ OverlappingReads => Session!ReadsAnsweredWhenGone

(* The promises on reads, as above, hold in every connection. *)
THEOREM ReadsSound == Spec => []SessionPromises
<1>1. CInv => SessionPromises
  <2> SUFFICES ASSUME CInv PROVE SessionPromises
    OBVIOUS
  <2>1. CASE life.state = "connecting"
    <3>1. reading.delivered \o reading.buffer = [i \in 1 .. reading.received |-> i]
      BY <2>1 DEF CInv, Fresh
    <3> QED
      BY <2>1, <3>1
      DEF CInv, Fresh, SessionPromises, Session!ChunksInOrder, Session!NoReadWaitsOnBuffer,
          Session!PendingReadIsTimed, Session!TimersAccounted, Session!Timers!NoOrphanTimeout,
          Session!Timers!NoTimers, Session!ReadsAnsweredWhenGone
  <2>2. CASE life.state # "connecting"
    <3>1. Running!ReadInv(reading) /\ Running!TimerInv
      BY <2>2 DEF CInv, Sound, Running!RefinementInv, Running!SessionInv
    <3>2. Session!ChunksInOrder /\ Session!NoReadWaitsOnBuffer
      BY <3>1 DEF Running!ReadInv, Running!InOrder, Running!Iota, Running!WaitsAlone,
                  Session!ChunksInOrder, Session!NoReadWaitsOnBuffer
    <3>3. Session!PendingReadIsTimed /\ Session!TimersAccounted
      BY <3>1 DEF Running!TimerInv, Running!PendingReadIsTimed, Running!TimersAccounted,
                  Running!Timers!NoOrphanTimeout, Session!PendingReadIsTimed,
                  Session!TimersAccounted, Session!Timers!NoOrphanTimeout
    <3>4. ASSUME ~ OverlappingReads PROVE Session!ReadsAnsweredWhenGone
      <4>1. \A r \in Reads : reading.outcome[r] = "pending" => reading.pending = r
        BY <3>1, <3>4 DEF Running!ReadInv, Running!WaitsAlone
      <4>2. socket.stage = "gone" => reading.pending = None
        BY <2>2 DEF CInv, Sound, Running!RefinementInv, Running!SessionInv, Running!LifeInv,
                    Running!QuietWhenGone
      <4> QED
        BY <4>1, <4>2, ConnectionAssumption DEF Session!ReadsAnsweredWhenGone
    <3> QED
      BY <3>2, <3>3, <3>4 DEF SessionPromises
  <2> QED
    BY <2>1, <2>2
<1> QED
  BY <1>1, Invariant, PTL

(* The chunks in order, those that arrive before connect() has resolved    *)
(* included (the data handler and read()).                                 *)
THEOREM ChunksKept == Spec => []ChunksInOrder
<1>1. SessionPromises => ChunksInOrder
  BY DEF SessionPromises, ChunksInOrder
<1> QED
  BY <1>1, ReadsSound, PTL

(* What connect() creates is a Transport from the beginning (types.ts).    *)
THEOREM ConnectionIsTransport == Spec => ImplementsTransport
<1>1. Init => Session!Abstract!Init
  BY DEF Init, Session!Abstract!Init, Session!WriteOutcome
<1>2. CInv /\ [Next]_vars => [Session!Abstract!Next]_(Session!Abstract!vars)
  BY Step
<1> QED
  BY <1>1, <1>2, Invariant, PTL
  DEF Spec, ImplementsTransport, Session!ImplementsTransport, Session!Abstract!Spec

(* From connect() to the end, on whatever network, the chunks taken are a  *)
(* prefix of those that arrived, each by a read of its own; before "open"  *)
(* no call has begun; no promise settles twice, and "closed" is for ever   *)
(* (transport.ts, against the Transport of types.ts).                      *)
THEOREM ConnectionKeepsInterface ==
  Spec => /\ [](Session!Abstract!StreamSound /\ Session!Abstract!LifecycleSound)
          /\ Session!Abstract!EndsAreFinal
<1>1. Init => Running!Interface!IInv
  <2>1. Init => Session!Abstract!Init
    BY DEF Init, Session!Abstract!Init, Session!WriteOutcome
  <2> QED
    BY <2>1, SameTransport, Assumptions, Running!SameInterface, Running!Interface!InitSound
<1>2. CInv /\ Running!Interface!IInv /\ [Next]_vars =>
        Running!Interface!IInv' /\ [Session!Abstract!Final]_(Session!Abstract!vars)
  BY Step, SameTransport, SamePromises, Assumptions, Running!SameInterface,
     Running!Interface!StepSound
<1>3. Running!Interface!IInv => Session!Abstract!StreamSound /\ Session!Abstract!LifecycleSound
  BY SamePromises, Assumptions, Running!SameInterface DEF Running!Interface!IInv
<1> QED
  BY <1>1, <1>2, <1>3, Invariant, PTL DEF Spec, Session!Abstract!EndsAreFinal
=============================================================================
