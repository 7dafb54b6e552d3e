----------------------- MODULE TransportSessionProofs -----------------------
(***************************************************************************)
(* What a session guarantees for any writers, reads, timeouts, listeners   *)
(* and any peer.  The reading side is proved call by call: one lemma for   *)
(* each of read(), the data handler and rejectPendingRead, whatever turn   *)
(* makes the call.                                                         *)
(***************************************************************************)
EXTENDS TransportSession, TLAPS

-----------------------------------------------------------------------------
(* Types.                                                                  *)

LEMMA CloseType == ASSUME NEW l \in Lives, NEW reason \in Reasons
                   PROVE  Close(l, reason) \in Lives
  BY DEF Close, Transition, Lives

LEMMA ListenerType == ASSUME NEW l \in Lives, NEW reaction
                      PROVE  ListenerCloses(l, reaction) \in Lives
  BY CloseType DEF ListenerCloses, Reasons

LEMMA HandlerLifeTypes ==
  ASSUME NEW l \in Lives, NEW hadError \in BOOLEAN
  PROVE  /\ FailIfNotClosed(l) \in Lives
         /\ UnexpectedClose(l, hadError) \in Lives
         /\ FinishClose(l) \in Lives
  BY DEF FailIfNotClosed, UnexpectedClose, FinishClose, Transition, Lives, Reasons

Outcomes == {"none", "pending", "resolved", "rejected"}

(* The functions on the reading side, field by field. *)
LEMMA TakeReadFields ==
  ASSUME NEW s \in Readings, NEW r \in Reads
  PROVE  /\ s.buffer # <<>> => TakeRead(s, r) =
              [buffer |-> Tail(s.buffer), pending |-> s.pending,
               received |-> s.received,
               outcome |-> [s.outcome EXCEPT ![r] = "resolved"],
               delivered |-> Append(s.delivered, Head(s.buffer))]
         /\ s.buffer = <<>> => TakeRead(s, r) =
              [buffer |-> s.buffer, pending |-> r, received |-> s.received,
               outcome |-> [s.outcome EXCEPT ![r] = "pending"],
               delivered |-> s.delivered]
<1>1. CASE s.buffer # <<>>
  BY <1>1 DEF TakeRead, Readings
<1>2. CASE s.buffer = <<>>
  BY <1>2 DEF TakeRead, Readings
<1> QED
  BY <1>1, <1>2

LEMMA DeliverFields ==
  ASSUME NEW s \in Readings, NEW chunk
  PROVE  /\ s.pending # None => Deliver(s, chunk) =
              [buffer |-> s.buffer, pending |-> None, received |-> s.received,
               outcome |-> [s.outcome EXCEPT ![s.pending] = "resolved"],
               delivered |-> Append(s.delivered, chunk)]
         /\ s.pending = None => Deliver(s, chunk) =
              [buffer |-> Append(s.buffer, chunk), pending |-> s.pending,
               received |-> s.received, outcome |-> s.outcome,
               delivered |-> s.delivered]
<1>1. CASE s.pending # None
  BY <1>1 DEF Deliver, Readings
<1>2. CASE s.pending = None
  BY <1>2 DEF Deliver, Readings
<1> QED
  BY <1>1, <1>2

(* A reading side is a record of its five fields. *)
LEMMA ReadingRecord ==
  ASSUME NEW b \in Seq(Nat), NEW p \in Reads \cup {None}, NEW n \in Nat,
         NEW o \in [Reads -> Outcomes], NEW d \in Seq(Nat)
  PROVE  [buffer |-> b, pending |-> p, received |-> n, outcome |-> o,
          delivered |-> d] \in Readings
  BY DEF Readings, Outcomes

LEMMA ReadingFields ==
  ASSUME NEW s \in Readings
  PROVE  /\ s.buffer \in Seq(Nat) /\ s.delivered \in Seq(Nat)
         /\ s.pending \in Reads \cup {None} /\ s.received \in Nat
         /\ s.outcome \in [Reads -> Outcomes]
  BY DEF Readings, Outcomes

LEMMA TakeReadType == ASSUME NEW s \in Readings, NEW r \in Reads
                      PROVE  TakeRead(s, r) \in Readings
<1>0. \A o \in {"resolved", "pending"} : [s.outcome EXCEPT ![r] = o] \in [Reads -> Outcomes]
  BY ReadingFields DEF Outcomes
<1>1. CASE s.buffer # <<>>
  <2>1. Tail(s.buffer) \in Seq(Nat) /\ Head(s.buffer) \in Nat
    BY <1>1, ReadingFields
  <2>2. Append(s.delivered, Head(s.buffer)) \in Seq(Nat)
    BY <2>1, ReadingFields
  <2> DEFINE taken == [buffer |-> Tail(s.buffer), pending |-> s.pending,
                       received |-> s.received,
                       outcome |-> [s.outcome EXCEPT ![r] = "resolved"],
                       delivered |-> Append(s.delivered, Head(s.buffer))]
  <2>3. taken \in Readings
    BY <1>0, <2>1, <2>2, ReadingFields, ReadingRecord
  <2>4. TakeRead(s, r) = taken
    BY <1>1, TakeReadFields
  <2> QED
    BY <2>3, <2>4
<1>2. CASE s.buffer = <<>>
  <2> DEFINE waiting == [buffer |-> s.buffer, pending |-> r, received |-> s.received,
                         outcome |-> [s.outcome EXCEPT ![r] = "pending"],
                         delivered |-> s.delivered]
  <2>1. waiting \in Readings
    BY <1>0, ReadingFields, ReadingRecord
  <2>2. TakeRead(s, r) = waiting
    BY <1>2, TakeReadFields
  <2> QED
    BY <2>1, <2>2
<1> QED
  BY <1>1, <1>2

LEMMA DeliverType == ASSUME NEW s \in Readings, NEW chunk \in Nat
                     PROVE  Deliver(s, chunk) \in Readings
<1>0. Append(s.delivered, chunk) \in Seq(Nat) /\ Append(s.buffer, chunk) \in Seq(Nat)
  BY ReadingFields
<1>1. CASE s.pending # None
  <2>1. [s.outcome EXCEPT ![s.pending] = "resolved"] \in [Reads -> Outcomes]
    BY ReadingFields DEF Outcomes
  <2> DEFINE served == [buffer |-> s.buffer, pending |-> None, received |-> s.received,
                        outcome |-> [s.outcome EXCEPT ![s.pending] = "resolved"],
                        delivered |-> Append(s.delivered, chunk)]
  <2>2. served \in Readings
    BY <1>0, <2>1, ReadingFields, ReadingRecord
  <2>3. Deliver(s, chunk) = served
    BY <1>1, DeliverFields
  <2> QED
    BY <2>2, <2>3
<1>2. CASE s.pending = None
  <2> DEFINE kept == [buffer |-> Append(s.buffer, chunk), pending |-> s.pending,
                      received |-> s.received, outcome |-> s.outcome,
                      delivered |-> s.delivered]
  <2>1. kept \in Readings
    BY <1>0, ReadingFields, ReadingRecord
  <2>2. Deliver(s, chunk) = kept
    BY <1>2, DeliverFields
  <2> QED
    BY <2>1, <2>2
<1> QED
  BY <1>1, <1>2

LEMMA RejectType == ASSUME NEW s \in Readings
                    PROVE  RejectPendingRead(s) \in Readings
  BY DEF RejectPendingRead, Readings

LEMMA TimersType ==
  ASSUME NEW t \in Timers!TimersOf(Reads), NEW r \in Reads, NEW n
  PROVE  /\ Timers!ResetIdle(t) \in Timers!TimersOf(Reads)
         /\ Timers!ResetRead(t, r) \in Timers!TimersOf(Reads)
         /\ Timers!ClearRead(t) \in Timers!TimersOf(Reads)
         /\ Timers!ClearAll(t) \in Timers!TimersOf(Reads)
         /\ Timers!IdleFires(t, n) \in Timers!TimersOf(Reads)
         /\ Timers!ReadFires(t, n) \in Timers!TimersOf(Reads)
  BY DEF Timers!ResetIdle, Timers!ResetRead, Timers!ClearRead, Timers!ClearIdle,
         Timers!ClearAll, Timers!IdleFires, Timers!ReadFires, Timers!FreshIdle,
         Timers!TimersOf

LEMMA QueueTypes ==
  ASSUME Queue!TypeOK,
         \/ \E w \in Writers : \/ Queue!AwaitDrain(w)
                               \/ Queue!ArmWaiter(w)
                               \/ Queue!SettleNext(w)
         \/ Queue!NotifyDrain
         \/ Queue!Reject
         \/ UNCHANGED queueVars
  PROVE  Queue!TypeOK'
<1> USE DEF Queue!TypeOK, Queue!Stage, Queue!Answered, Queue!Settled
<1>1. ASSUME NEW w \in Writers, Queue!AwaitDrain(w) PROVE Queue!TypeOK'
  BY <1>1 DEF Queue!AwaitDrain
<1>2. ASSUME NEW w \in Writers, Queue!ArmWaiter(w) PROVE Queue!TypeOK'
  BY <1>2 DEF Queue!ArmWaiter
<1>3. ASSUME NEW w \in Writers, Queue!SettleNext(w) PROVE Queue!TypeOK'
  BY <1>3 DEF Queue!SettleNext
<1>4. ASSUME NEW answer \in {"released", "refused"}, Queue!AnswerWaiter(answer)
      PROVE  Queue!TypeOK'
  BY <1>4 DEF Queue!AnswerWaiter
<1>5. CASE UNCHANGED queueVars
  BY <1>5 DEF queueVars
<1> QED
  BY <1>1, <1>2, <1>3, <1>4, <1>5 DEF Queue!NotifyDrain, Queue!Reject

LEMMA InitType == Init => TypeOK
<1> SUFFICES ASSUME Init PROVE TypeOK
  OBVIOUS
<1>1. life \in Lives /\ socket \in Sockets
  BY DEF Init, Lives, Sockets
<1>2. reading \in Readings
  BY DEF Init, Readings
<1>3. timers \in Timers!TimersOf(Reads)
  BY DEF Init, Timers!NoTimers, Timers!ResetIdle, Timers!FreshIdle, Timers!TimersOf
<1>4. Queue!TypeOK /\ write \in [Writers -> {"none", "flushing", "blocked", "resolved", "rejected"}]
  BY DEF Init, Queue!Init, Queue!TypeOK, Queue!Stage
<1> QED
  BY <1>1, <1>2, <1>3, <1>4 DEF TypeOK

LEMMA DataTurnTypes ==
  ASSUME TypeOK
  PROVE  Received \in Readings /\ Chunk \in Nat /\ DataTimers \in Timers!TimersOf(Reads)
<1>1. Chunk \in Nat
  BY DEF TypeOK, Readings, Chunk
<1>2. Received \in Readings
  BY <1>1 DEF TypeOK, Readings, Received
<1>3. ASSUME NEW t \in Timers!TimersOf(Reads)
      PROVE  Timers!ResetIdle(t) \in Timers!TimersOf(Reads)
             /\ Timers!ClearRead(t) \in Timers!TimersOf(Reads)
  BY DEF Timers!ResetIdle, Timers!ClearRead, Timers!FreshIdle, Timers!TimersOf
<1>4. DataTimers \in Timers!TimersOf(Reads)
  BY <1>3 DEF TypeOK, DataTimers
<1> QED
  BY <1>1, <1>2, <1>4

LEMMA DestroyedType ==
  ASSUME NEW s \in Sockets, NEW d \in Destroyed(s)
  PROVE  d \in Sockets
<1>1. PICK kept \in {<<>>, InFlight(s)} :
        d = [s EXCEPT !.stage = "failing", !.unflushed = kept,
                      !.aborted = @ \cup (Contents(s.unflushed) \ Contents(kept))]
  BY DEF Destroyed
<1>2. InFlight(s) \in Seq(Writers)
  <2>1. CASE s.unflushed = <<>>
    BY <2>1 DEF InFlight
  <2>2. CASE s.unflushed # <<>>
    <3>1. Head(s.unflushed) \in Writers
      BY <2>2 DEF Sockets
    <3> QED
      BY <2>2, <3>1 DEF InFlight
  <2> QED
    BY <2>1, <2>2
<1>3. kept \in Seq(Writers)
  <2>1. <<>> \in Seq(Writers)
    OBVIOUS
  <2> HIDE DEF InFlight
  <2> QED
    BY <1>1, <1>2, <2>1, Zenon
<1>4. Contents(s.unflushed) \in SUBSET Writers
  BY DEF Sockets, Contents
<1>5. s.aborted \cup (Contents(s.unflushed) \ Contents(kept)) \in SUBSET Writers
  BY <1>4 DEF Sockets
<1> HIDE DEF Contents
<1> QED
  BY <1>1, <1>3, <1>5 DEF Sockets

LEMMA TypeStep == TypeOK /\ [Next]_vars => TypeOK'
<1> SUFFICES ASSUME TypeOK, [Next]_vars PROVE TypeOK'
  OBVIOUS
<1>0. /\ life \in Lives /\ reading \in Readings /\ socket \in Sockets
      /\ timers \in Timers!TimersOf(Reads) /\ Queue!TypeOK
  BY DEF TypeOK
<1>1. ASSUME NEW reaction, OnData(reaction) PROVE TypeOK'
  BY <1>1, DataTurnTypes, DeliverType, ListenerType, QueueTypes DEF OnData, TypeOK
<1>2. ASSUME NEW r \in Reads, OnDataReading(r) PROVE TypeOK'
  <2>1. TakeRead(Received, r) \in Readings
    BY DataTurnTypes, TakeReadType
  <2>2. reading' \in Readings
    BY <1>2, <2>1, DataTurnTypes, DeliverType DEF OnDataReading
  <2>3. timers' \in Timers!TimersOf(Reads)
    BY <1>2, DataTurnTypes, TimersType DEF OnDataReading, TimeRead
  <2> QED
    BY <1>2, <2>2, <2>3, QueueTypes DEF OnDataReading, TypeOK
<1>3. ASSUME PeerEnds PROVE socket' \in Sockets
  BY <1>0, <1>3 DEF PeerEnds, Sockets
<1>3a. ASSUME NEW reaction, OnEnd(reaction) PROVE TypeOK'
  BY <1>3, <1>3a, ListenerType, RejectType, QueueTypes DEF OnEnd, TypeOK
<1>3b. ASSUME NEW r \in Reads, OnEndReading(r) PROVE TypeOK'
  <2>1. TakeRead(reading, r) \in Readings
    BY <1>0, TakeReadType
  <2>2. reading' \in Readings
    BY <1>3b, <2>1, RejectType DEF OnEndReading
  <2>3. timers' \in Timers!TimersOf(Reads)
    BY <1>0, <1>3b, TimersType DEF OnEndReading, TimeRead
  <2> QED
    BY <1>3, <1>3b, <2>2, <2>3, QueueTypes DEF OnEndReading, TypeOK
<1>4. ASSUME NEW reaction, OnError(reaction) PROVE TypeOK'
  <2>1. socket' \in Sockets
    BY <1>0, <1>4 DEF OnError, Sockets
  <2>2. life' \in Lives
    BY <1>0, <1>4, ListenerType, HandlerLifeTypes DEF OnError
  <2> QED
    BY <1>4, <2>1, <2>2, RejectType, QueueTypes DEF OnError, TypeOK
<1>5. CASE OnClose
  <2>1. socket' \in Sockets
    BY <1>0, <1>5 DEF OnClose, Sockets
  <2>2. life' \in Lives
    BY <1>0, <1>5, HandlerLifeTypes DEF OnClose
  <2>3. Timers!ClearAll(timers) \in Timers!TimersOf(Reads)
    BY <1>0 DEF Timers!ClearAll, Timers!ClearRead, Timers!ClearIdle, Timers!TimersOf
  <2> QED
    BY <1>5, <2>1, <2>2, <2>3, RejectType, QueueTypes DEF OnClose, TypeOK
<1>6. CASE SocketFails
  BY <1>6, DestroyedType, QueueTypes DEF SocketFails, TypeOK
<1>7. CASE SocketFinishes
  <2>1. socket' \in Sockets
    BY <1>0, <1>7 DEF SocketFinishes, Sockets
  <2> QED
    BY <1>7, <2>1, QueueTypes DEF SocketFinishes, TypeOK
<1>8. ASSUME NEW w \in Writers, NEW below \in BOOLEAN, Write(w, below) PROVE TypeOK'
  <2>1. Append(socket.unflushed, w) \in Seq(Writers)
    BY <1>0 DEF Sockets
  <2>2. socket' \in Sockets
    BY <1>0, <1>8, <2>1 DEF Write, Sockets
  <2>3. Queue!TypeOK'
    BY <1>0, <1>8, QueueTypes DEF Write
  <2>4. write' \in [Writers -> {"none", "flushing", "blocked", "resolved", "rejected"}]
    BY <1>8 DEF Write, TypeOK
  <2> QED
    BY <1>8, <2>2, <2>3, <2>4 DEF Write, TypeOK
<1>9. ASSUME NEW w \in Writers, WriteRefused(w) PROVE TypeOK'
  <2>1. PICK s \in (IF socket.stage = "up" THEN Destroyed(socket) ELSE {socket}) :
          socket' = [s EXCEPT !.aborted = @ \cup {w}]
    BY <1>9 DEF WriteRefused
  <2>2. s \in Sockets
    BY <1>0, <2>1, DestroyedType
  <2>3. socket' \in Sockets
    BY <2>1, <2>2 DEF Sockets
  <2>4. Queue!TypeOK'
    BY <1>0, <1>9, QueueTypes DEF WriteRefused
  <2> QED
    BY <1>9, <2>3, <2>4 DEF WriteRefused, TypeOK
<1>10. CASE Flush
  <2> DEFINE w == Head(socket.unflushed)
  <2>1. w \in Writers /\ Tail(socket.unflushed) \in Seq(Writers)
    BY <1>0, <1>10 DEF Flush, Sockets
  <2>2. \E drained \in BOOLEAN :
          socket' = [socket EXCEPT !.unflushed = Tail(@), !.needDrain = @ /\ ~ drained]
    BY <1>10 DEF Flush
  <2>3. PICK drained \in BOOLEAN :
          socket' = [socket EXCEPT !.unflushed = Tail(@), !.needDrain = @ /\ ~ drained]
    BY <2>2
  <2>4. (socket.needDrain /\ ~ drained) \in BOOLEAN
    OBVIOUS
  <2>5. socket' \in Sockets
    BY <1>0, <2>1, <2>3, <2>4 DEF Sockets
  <2>6. Queue!TypeOK'
    <3>1. Queue!NotifyDrain \/ UNCHANGED queueVars
      BY <1>10 DEF Flush
    <3> QED
      BY <1>0, <3>1, QueueTypes
  <2>7. write' = [write EXCEPT ![w] = Flushed(w)]
    BY <1>10 DEF Flush
  <2>8. write' \in [Writers -> {"none", "flushing", "blocked", "resolved", "rejected"}]
    BY <2>1, <2>7 DEF Flushed, TypeOK
  <2> QED
    BY <1>10, <2>5, <2>6, <2>8 DEF Flush, TypeOK
<1>11. ASSUME NEW w \in Writers, FlushFails(w) PROVE TypeOK'
  <2>1. socket' \in Sockets
    BY <1>0, <1>11 DEF FlushFails, Sockets
  <2>2. write' \in [Writers -> {"none", "flushing", "blocked", "resolved", "rejected"}]
    BY <1>11 DEF FlushFails, TypeOK
  <2> QED
    BY <1>11, <2>1, <2>2, QueueTypes DEF FlushFails, TypeOK
<1>12. ASSUME NEW r \in Reads, Read(r) PROVE TypeOK'
  <2>1. timers' \in Timers!TimersOf(Reads)
    BY <1>0, <1>12, TimersType DEF Read, TimeRead
  <2> QED
    BY <1>12, <2>1, TakeReadType, QueueTypes DEF Read, TypeOK
<1>13. CASE ClientClose
  BY <1>13, CloseType, QueueTypes DEF ClientClose, TypeOK, Reasons
<1>14. ASSUME NEW n, NEW reaction, OnIdleTimeout(n, reaction) PROVE TypeOK'
  <2>1. life' \in Lives
    BY <1>0, <1>14, ListenerType, CloseType DEF OnIdleTimeout, IdleExpires, Reasons
  <2>2. Timers!IdleFires(timers, n) \in Timers!TimersOf(Reads)
    BY <1>0 DEF Timers!IdleFires, Timers!TimersOf
  <2> QED
    BY <1>14, <2>1, <2>2, QueueTypes DEF OnIdleTimeout, TypeOK
<1>15. ASSUME NEW r \in Reads, OnReadTimeout(r) PROVE TypeOK'
  BY <1>15, TimersType, RejectType, QueueTypes DEF OnReadTimeout, TypeOK
<1>16. ASSUME NEW w \in Writers, DrainArmed(w) PROVE TypeOK'
  BY <1>16, QueueTypes DEF DrainArmed, TypeOK
<1>17. ASSUME NEW w \in Writers, DrainAwaited(w) PROVE TypeOK'
  <2>1. promise'[w] \in {"resolved", "rejected"}
    BY <1>0, <1>17 DEF DrainAwaited, Queue!SettleNext, Queue!TypeOK
  <2>2. write' \in [Writers -> {"none", "flushing", "blocked", "resolved", "rejected"}]
    BY <1>17, <2>1 DEF DrainAwaited, TypeOK
  <2> QED
    BY <1>17, <2>2, QueueTypes DEF DrainAwaited, TypeOK
<1>18. CASE UNCHANGED vars
  BY <1>18, QueueTypes DEF vars, TypeOK
<1> QED
  BY <1>1, <1>2, <1>3a, <1>3b, <1>4, <1>5, <1>6, <1>7, <1>8, <1>9, <1>10, <1>11, <1>12,
     <1>13, <1>14, <1>15, <1>16, <1>17, <1>18 DEF Next, SocketEvent, Timeout, Job, Call

(* The variables of a session keep their types. *)
THEOREM TypeCorrect == Spec => []TypeOK
  BY InitType, TypeStep, PTL DEF Spec

-----------------------------------------------------------------------------
(* The reading side.                                                       *)

Iota(n) == [i \in 1 .. n |-> i]

InOrder(s, n) == s.delivered \o s.buffer = Iota(n)

(* With one read at a time, pendingRead is the read that waits. *)
WaitsAlone(s) ==
  ~ OverlappingReads => \A r \in Reads : s.outcome[r] = "pending" => s.pending = r

ReadInv(s) == /\ InOrder(s, s.received)
              /\ s.pending # None => s.buffer = <<>>
              /\ WaitsAlone(s)

LEMMA MoveHead ==
  ASSUME NEW d \in Seq(Nat), NEW b \in Seq(Nat), b # <<>>
  PROVE  Append(d, Head(b)) \o Tail(b) = d \o b
  OBVIOUS

LEMMA ExtendIota ==
  ASSUME NEW d \in Seq(Nat), NEW b \in Seq(Nat), NEW n \in Nat, d \o b = Iota(n)
  PROVE  /\ d \o Append(b, n + 1) = Iota(n + 1)
         /\ b = <<>> => Append(d, n + 1) \o b = Iota(n + 1)
<1>1. Iota(n) \in Seq(Nat) /\ Append(Iota(n), n + 1) = Iota(n + 1)
  BY DEF Iota
<1>2. d \o Append(b, n + 1) = Append(d \o b, n + 1)
  OBVIOUS
<1>3. b = <<>> => Append(d, n + 1) \o b = Append(d \o b, n + 1)
  OBVIOUS
<1> QED
  BY <1>1, <1>2, <1>3

LEMMA TakeReadInOrder ==
  ASSUME NEW s \in Readings, NEW r \in Reads, NEW n \in Nat, InOrder(s, n)
  PROVE  InOrder(TakeRead(s, r), n)
<1> DEFINE t == TakeRead(s, r)
<1>1. CASE s.buffer # <<>>
  <2>1. t = [buffer |-> Tail(s.buffer), pending |-> s.pending,
             received |-> s.received,
             outcome |-> [s.outcome EXCEPT ![r] = "resolved"],
             delivered |-> Append(s.delivered, Head(s.buffer))]
    BY <1>1, TakeReadFields
  <2> HIDE DEF t
  <2>2. t.buffer = Tail(s.buffer)
    BY <2>1
  <2>3. t.delivered = Append(s.delivered, Head(s.buffer))
    BY <2>1
  <2>4. Append(s.delivered, Head(s.buffer)) \o Tail(s.buffer) = s.delivered \o s.buffer
    BY <1>1, MoveHead, ReadingFields
  <2>5. t.delivered \o t.buffer = Iota(n)
    BY <2>2, <2>3, <2>4, Zenon DEF InOrder
  <2> QED
    BY <2>5 DEF InOrder, t
<1>2. CASE s.buffer = <<>>
  <2>1. t = [buffer |-> s.buffer, pending |-> r, received |-> s.received,
             outcome |-> [s.outcome EXCEPT ![r] = "pending"],
             delivered |-> s.delivered]
    BY <1>2, TakeReadFields
  <2> HIDE DEF t
  <2>2. t.buffer = s.buffer /\ t.delivered = s.delivered
    BY <2>1
  <2>3. t.delivered \o t.buffer = Iota(n)
    BY <2>2, Zenon DEF InOrder
  <2> QED
    BY <2>3 DEF InOrder, t
<1> QED
  BY <1>1, <1>2

LEMMA DeliverInOrder ==
  ASSUME NEW s \in Readings, NEW n \in Nat, InOrder(s, n),
         s.pending # None => s.buffer = <<>>
  PROVE  InOrder(Deliver(s, n + 1), n + 1)
<1> DEFINE t == Deliver(s, n + 1)
<1>0. /\ s.delivered \o Append(s.buffer, n + 1) = Iota(n + 1)
      /\ s.buffer = <<>> => Append(s.delivered, n + 1) \o s.buffer = Iota(n + 1)
  <2>1. s.delivered \o s.buffer = Iota(n)
    BY DEF InOrder
  <2> QED
    BY <2>1, ExtendIota, ReadingFields
<1>1. CASE s.pending # None
  <2>1. t.buffer = s.buffer /\ t.delivered = Append(s.delivered, n + 1)
    BY <1>1, DeliverFields
  <2> HIDE DEF t
  <2>2. t.delivered \o t.buffer = Iota(n + 1)
    BY <1>0, <1>1, <2>1, Zenon
  <2> QED
    BY <2>2 DEF InOrder, t
<1>2. CASE s.pending = None
  <2>1. t.buffer = Append(s.buffer, n + 1) /\ t.delivered = s.delivered
    BY <1>2, DeliverFields
  <2> HIDE DEF t
  <2>2. t.delivered \o t.buffer = Iota(n + 1)
    BY <1>0, <2>1, Zenon
  <2> QED
    BY <2>2 DEF InOrder, t
<1> QED
  BY <1>1, <1>2

(* Who waits, and on what, after each call. *)
LEMMA TakeReadWaits ==
  ASSUME NEW s \in Readings, NEW r \in Reads, OverlappingReads \/ s.pending = None,
         s.pending # None => s.buffer = <<>>, WaitsAlone(s)
  PROVE  /\ TakeRead(s, r).pending # None => TakeRead(s, r).buffer = <<>>
         /\ WaitsAlone(TakeRead(s, r))
         /\ TakeRead(s, r).received = s.received
<1>1. CASE s.buffer # <<>>
  <2>1. /\ TakeRead(s, r).pending = s.pending /\ TakeRead(s, r).received = s.received
        /\ TakeRead(s, r).outcome = [s.outcome EXCEPT ![r] = "resolved"]
    BY <1>1, TakeReadFields
  <2>2. \A q \in Reads : [s.outcome EXCEPT ![r] = "resolved"][q] = "pending" => s.outcome[q] = "pending"
    BY ReadingFields
  <2> QED
    BY <1>1, <2>1, <2>2 DEF WaitsAlone
<1>2. CASE s.buffer = <<>>
  <2>1. /\ TakeRead(s, r).pending = r /\ TakeRead(s, r).received = s.received
        /\ TakeRead(s, r).buffer = <<>>
        /\ TakeRead(s, r).outcome = [s.outcome EXCEPT ![r] = "pending"]
    BY <1>2, TakeReadFields
  <2>2. \A q \in Reads : q # r => [s.outcome EXCEPT ![r] = "pending"][q] = s.outcome[q]
    BY ReadingFields
  <2>3. ~ OverlappingReads => \A q \in Reads : s.outcome[q] # "pending"
    BY SessionAssumption DEF WaitsAlone
  <2> QED
    BY <2>1, <2>2, <2>3 DEF WaitsAlone
<1> QED
  BY <1>1, <1>2

LEMMA DeliverWaits ==
  ASSUME NEW s \in Readings, NEW chunk, WaitsAlone(s)
  PROVE  /\ Deliver(s, chunk).pending = None
         /\ WaitsAlone(Deliver(s, chunk))
         /\ Deliver(s, chunk).received = s.received
<1>1. CASE s.pending # None
  <2>1. /\ Deliver(s, chunk).pending = None /\ Deliver(s, chunk).received = s.received
        /\ Deliver(s, chunk).outcome = [s.outcome EXCEPT ![s.pending] = "resolved"]
    BY <1>1, DeliverFields
  <2>2. \A q \in Reads : [s.outcome EXCEPT ![s.pending] = "resolved"][q] = "pending"
                           => q # s.pending /\ s.outcome[q] = "pending"
    BY ReadingFields
  <2> QED
    BY <2>1, <2>2 DEF WaitsAlone
<1>2. CASE s.pending = None
  <2>1. /\ Deliver(s, chunk).pending = None /\ Deliver(s, chunk).received = s.received
        /\ Deliver(s, chunk).outcome = s.outcome
    BY <1>2, DeliverFields
  <2> QED
    BY <1>2, <2>1 DEF WaitsAlone
<1> QED
  BY <1>1, <1>2

LEMMA RejectReadInv ==
  ASSUME NEW s \in Readings, ReadInv(s)
  PROVE  ReadInv(RejectPendingRead(s)) /\ RejectPendingRead(s).pending = None
<1>1. CASE s.pending # None
  <2>1. RejectPendingRead(s) =
          [buffer |-> s.buffer, pending |-> None, received |-> s.received,
           outcome |-> [s.outcome EXCEPT ![s.pending] = "rejected"],
           delivered |-> s.delivered]
    BY <1>1 DEF RejectPendingRead, Readings
  <2>2. \A q \in Reads : [s.outcome EXCEPT ![s.pending] = "rejected"][q] = "pending"
                           => q # s.pending /\ s.outcome[q] = "pending"
    BY ReadingFields
  <2> DEFINE t == RejectPendingRead(s)
  <2>3. /\ t.buffer = s.buffer /\ t.delivered = s.delivered /\ t.pending = None
        /\ t.received = s.received
        /\ t.outcome = [s.outcome EXCEPT ![s.pending] = "rejected"]
    BY <2>1
  <2> HIDE DEF t
  <2>4. t.delivered \o t.buffer = Iota(t.received)
    BY <2>3, Zenon DEF ReadInv, InOrder
  <2>5. WaitsAlone(t)
    BY <2>2, <2>3 DEF ReadInv, WaitsAlone
  <2>6. ReadInv(t) /\ t.pending = None
    BY <2>3, <2>4, <2>5 DEF ReadInv, InOrder
  <2> QED
    BY <2>6 DEF t
<1>2. CASE s.pending = None
  BY <1>2 DEF RejectPendingRead
<1> QED
  BY <1>1, <1>2

(* Whatever the turn, this is all it can do to the reading side. *)
LEMMA ReadingTurns ==
  ASSUME [Next]_vars
  PROVE  \/ reading' = reading
         \/ reading' = RejectPendingRead(reading)
         \/ reading' = Deliver(Received, Chunk)
         \/ \E r \in Reads : /\ OverlappingReads \/ reading.pending = None
                             /\ \/ reading' = TakeRead(reading, r)
                                \/ reading' = Deliver(TakeRead(Received, r), Chunk)
                                \/ reading' = RejectPendingRead(TakeRead(reading, r))
  BY DEF Next, SocketEvent, Timeout, Job, Call, vars, OnData, OnDataReading, OnEnd, OnEndReading, OnError, OnClose, SocketFails,
         SocketFinishes, Write, WriteRefused, FlushFails, DrainArmed, DrainAwaited,
         Flush, Read, OnReadTimeout, ClientClose, OnIdleTimeout, MayRead

LEMMA DataReadInv ==
  ASSUME NEW s \in Readings, NEW n \in Nat, s.received = n + 1,
         InOrder(s, n), s.pending # None => s.buffer = <<>>, WaitsAlone(s)
  PROVE  ReadInv(Deliver(s, n + 1))
<1> DEFINE t == Deliver(s, n + 1)
<1>1. InOrder(t, n + 1)
  BY DeliverInOrder
<1>2. t.pending = None /\ WaitsAlone(t) /\ t.received = n + 1
  BY DeliverWaits
<1> HIDE DEF t
<1>3. InOrder(t, t.received)
  BY <1>1, <1>2, Zenon
<1>4. ReadInv(t)
  BY <1>2, <1>3 DEF ReadInv
<1> QED
  BY <1>4 DEF t

LEMMA ReadStep ==
  ASSUME TypeOK, ReadInv(reading), [Next]_vars
  PROVE  ReadInv(reading')
<1>0. /\ reading \in Readings /\ Received \in Readings /\ Chunk \in Nat
      /\ reading.received \in Nat /\ Chunk = reading.received + 1
  BY DataTurnTypes DEF TypeOK, Readings, Chunk
<1>1. /\ Received.received = Chunk /\ Received.buffer = reading.buffer
      /\ Received.pending = reading.pending /\ Received.outcome = reading.outcome
      /\ Received.delivered = reading.delivered
  BY <1>0 DEF Received, Readings
<1>2. /\ InOrder(Received, reading.received)
      /\ Received.pending # None => Received.buffer = <<>>
      /\ WaitsAlone(Received)
  BY <1>1, Zenon DEF ReadInv, InOrder, WaitsAlone
<1>3. CASE reading' = RejectPendingRead(reading)
  BY <1>0, <1>3, RejectReadInv
<1>4. CASE reading' = Deliver(Received, Chunk)
  BY <1>0, <1>1, <1>2, <1>4, DataReadInv
<1>5. ASSUME NEW r \in Reads, OverlappingReads \/ reading.pending = None
      PROVE  ReadInv(TakeRead(reading, r))
  <2> DEFINE t == TakeRead(reading, r)
  <2>1. InOrder(t, reading.received)
    BY <1>0, TakeReadInOrder DEF ReadInv
  <2>2. /\ t.pending # None => t.buffer = <<>>
        /\ WaitsAlone(t) /\ t.received = reading.received
    BY <1>0, <1>5, TakeReadWaits DEF ReadInv
  <2> HIDE DEF t
  <2>3. ReadInv(t)
    BY <2>1, <2>2, Zenon DEF ReadInv
  <2> QED
    BY <2>3 DEF t
<1>5a. ASSUME NEW r \in Reads, OverlappingReads \/ reading.pending = None
       PROVE  ReadInv(RejectPendingRead(TakeRead(reading, r)))
  BY <1>0, <1>5, <1>5a, TakeReadType, RejectReadInv
<1>6. ASSUME NEW r \in Reads, OverlappingReads \/ reading.pending = None,
             reading' = Deliver(TakeRead(Received, r), Chunk)
      PROVE  ReadInv(reading')
  <2> DEFINE t == TakeRead(Received, r)
  <2>1. t \in Readings /\ InOrder(t, reading.received)
    BY <1>0, <1>2, TakeReadType, TakeReadInOrder
  <2>2. /\ t.pending # None => t.buffer = <<>>
        /\ WaitsAlone(t) /\ t.received = Chunk
    BY <1>0, <1>1, <1>2, <1>6, TakeReadWaits
  <2>3. reading' = Deliver(t, reading.received + 1)
    BY <1>0, <1>6
  <2> HIDE DEF t
  <2> QED
    BY <1>0, <2>1, <2>2, <2>3, DataReadInv
<1>7. CASE reading' = reading
  BY <1>7
<1> QED
  BY <1>3, <1>4, <1>5, <1>5a, <1>6, <1>7, ReadingTurns

LEMMA ReadInit == Init => ReadInv(reading)
<1> SUFFICES ASSUME Init PROVE ReadInv(reading)
  OBVIOUS
<1>1. /\ reading.buffer = <<>> /\ reading.delivered = <<>> /\ reading.pending = None
      /\ reading.received = 0 /\ reading.outcome = [r \in Reads |-> "none"]
  BY DEF Init
<1>2. <<>> \o <<>> = Iota(0)
  BY DEF Iota
<1>3. InOrder(reading, reading.received)
  BY <1>1, <1>2, Zenon DEF InOrder
<1> QED
  BY <1>1, <1>3 DEF ReadInv, WaitsAlone

-----------------------------------------------------------------------------
(* The timers.                                                             *)

TimerInv == TimersAccounted /\ PendingReadIsTimed

LEMMA TimerInit == Init => TimerInv
  BY DEF Init, TimerInv, TimersAccounted, PendingReadIsTimed, Timers!NoOrphanTimeout,
         Timers!ResetIdle, Timers!NoTimers, Timers!FreshIdle

LEMMA TimerFacts ==
  ASSUME NEW t \in Timers!TimersOf(Reads), Timers!NoOrphanTimeout(t), NEW r \in Reads, NEW n
  PROVE  /\ Timers!NoOrphanTimeout(Timers!ResetIdle(t))
         /\ Timers!ResetIdle(t).readLive = t.readLive
         /\ Timers!NoOrphanTimeout(Timers!ClearRead(t))
         /\ Timers!NoOrphanTimeout(Timers!ResetRead(t, r))
         /\ ReadEnabled => Timers!ResetRead(t, r).readLive = {r}
         /\ Timers!NoOrphanTimeout(Timers!IdleFires(t, n))
         /\ Timers!IdleFires(t, n).readLive = t.readLive
         /\ Timers!NoOrphanTimeout(Timers!ReadFires(t, n))
<1> USE DEF Timers!NoOrphanTimeout, Timers!TimersOf
<1>1. /\ Timers!NoOrphanTimeout(Timers!ResetIdle(t))
      /\ Timers!ResetIdle(t).readLive = t.readLive
  <2>1. CASE IdleEnabled
    BY <2>1 DEF Timers!ResetIdle, Timers!FreshIdle
  <2>2. CASE ~ IdleEnabled
    BY <2>2 DEF Timers!ResetIdle
  <2> QED
    BY <2>1, <2>2
<1>2. /\ Timers!NoOrphanTimeout(Timers!ResetRead(t, r))
      /\ ReadEnabled => Timers!ResetRead(t, r).readLive = {r}
  BY DEF Timers!ResetRead
<1>3. Timers!NoOrphanTimeout(Timers!ClearRead(t))
  BY DEF Timers!ClearRead
<1>4. /\ Timers!NoOrphanTimeout(Timers!IdleFires(t, n))
      /\ Timers!IdleFires(t, n).readLive = t.readLive
      /\ Timers!NoOrphanTimeout(Timers!ReadFires(t, n))
  BY DEF Timers!IdleFires, Timers!ReadFires
<1> QED
  BY <1>1, <1>2, <1>3, <1>4

LEMMA ClearAllFacts ==
  ASSUME NEW t \in Timers!TimersOf(Reads), Timers!NoOrphanTimeout(t)
  PROVE  LET c == Timers!ClearAll(t)
         IN  Timers!NoOrphanTimeout(c) /\ c.idleLive = {} /\ c.readLive = {}
  BY DEF Timers!ClearAll, Timers!ClearRead, Timers!ClearIdle, Timers!NoOrphanTimeout,
         Timers!TimersOf

LEMMA DataTimersAccounted ==
  ASSUME TypeOK, TimersAccounted
  PROVE  DataTimers \in Timers!TimersOf(Reads) /\ Timers!NoOrphanTimeout(DataTimers)
<1>1. timers \in Timers!TimersOf(Reads)
  BY DEF TypeOK
<1>2. /\ Timers!ResetIdle(timers) \in Timers!TimersOf(Reads)
      /\ Timers!NoOrphanTimeout(Timers!ResetIdle(timers))
  <2>1. CASE IdleEnabled
    BY <1>1, <2>1 DEF TimersAccounted, Timers!NoOrphanTimeout, Timers!ResetIdle,
                      Timers!FreshIdle, Timers!TimersOf
  <2>2. CASE ~ IdleEnabled
    BY <1>1, <2>2 DEF TimersAccounted, Timers!ResetIdle
  <2> QED
    BY <2>1, <2>2
<1>3. Timers!NoOrphanTimeout(Timers!ClearRead(Timers!ResetIdle(timers)))
  BY <1>2 DEF Timers!NoOrphanTimeout, Timers!ClearRead, Timers!TimersOf
<1> QED
  BY <1>3, DataTurnTypes DEF DataTimers

LEMMA RejectClears ==
  ASSUME NEW s \in Readings PROVE RejectPendingRead(s).pending = None
  BY DEF RejectPendingRead, Readings

LEMMA DeliverClears ==
  ASSUME NEW s \in Readings, NEW chunk PROVE Deliver(s, chunk).pending = None
  BY DEF Deliver, Readings

LEMMA TimerStep ==
  ASSUME TypeOK, ReadInv(reading), TimerInv, [Next]_vars
  PROVE  TimerInv'
<1>0. /\ timers \in Timers!TimersOf(Reads) /\ reading \in Readings
      /\ Timers!NoOrphanTimeout(timers) /\ WaitsAlone(reading)
      /\ Received \in Readings
  BY DataTurnTypes DEF TypeOK, TimerInv, TimersAccounted, ReadInv
<1>1. ASSUME NEW reaction, OnData(reaction) PROVE TimerInv'
  <2>1. reading'.pending = None
    <3>1. Received.outcome = reading.outcome /\ Received.pending = reading.pending
      BY <1>0 DEF Received, Readings
    <3>2. WaitsAlone(Received)
      BY <1>0, <3>1 DEF WaitsAlone
    <3> QED
      BY <1>0, <1>1, <3>2, DeliverWaits DEF OnData
  <2> QED
    BY <1>1, <2>1, DataTimersAccounted
    DEF OnData, TimerInv, TimersAccounted, PendingReadIsTimed
<1>2. ASSUME NEW r \in Reads, OnDataReading(r) PROVE TimerInv'
  <2>1. reading'.pending = None
    <3>1. TakeRead(Received, r) \in Readings
      BY <1>0, TakeReadType
    <3> QED
      BY <1>2, <3>1, DeliverClears DEF OnDataReading
  <2>2. Timers!NoOrphanTimeout(timers')
    <3>1. Timers!NoOrphanTimeout(Timers!ResetRead(DataTimers, r))
      BY DataTimersAccounted, TimerFacts DEF TimerInv
    <3> QED
      BY <1>2, <3>1, DataTimersAccounted DEF OnDataReading, TimeRead, TimerInv
  <2> QED
    BY <2>1, <2>2 DEF TimerInv, TimersAccounted, PendingReadIsTimed
<1>3. ASSUME UNCHANGED timers, UNCHANGED reading \/ reading' = RejectPendingRead(reading)
      PROVE  TimerInv'
  BY <1>0, <1>3, RejectClears DEF TimerInv, TimersAccounted, PendingReadIsTimed
<1>3a. ASSUME NEW r \in Reads, OnEndReading(r) PROVE TimerInv'
  <2>1. reading'.pending = None
    BY <1>0, <1>3a, TakeReadType, RejectClears DEF OnEndReading
  <2>2. Timers!NoOrphanTimeout(timers')
    BY <1>0, <1>3a, TimerFacts DEF OnEndReading, TimeRead
  <2> QED
    BY <2>1, <2>2 DEF TimerInv, TimersAccounted, PendingReadIsTimed
<1>4. CASE OnClose
  <2>1. Timers!NoOrphanTimeout(timers') /\ reading'.pending = None
    BY <1>0, <1>4, ClearAllFacts, RejectClears DEF OnClose
  <2> QED
    BY <2>1 DEF TimerInv, TimersAccounted, PendingReadIsTimed
<1>5. ASSUME NEW r \in Reads, Read(r) PROVE TimerInv'
  <2>1. CASE reading.buffer = <<>>
    <3>1. timers' = Timers!ResetRead(timers, r) /\ reading'.pending = r
      BY <1>0, <1>5, <2>1, TakeReadFields DEF Read, TimeRead
    <3> QED
      BY <1>0, <3>1, TimerFacts DEF TimerInv, TimersAccounted, PendingReadIsTimed
  <2>2. CASE reading.buffer # <<>>
    <3>1. UNCHANGED timers /\ reading'.pending = reading.pending
      BY <1>0, <1>5, <2>2, TakeReadFields DEF Read, TimeRead
    <3> QED
      BY <3>1 DEF TimerInv, TimersAccounted, PendingReadIsTimed
  <2> QED
    BY <2>1, <2>2
<1>6. ASSUME NEW n, NEW reaction, OnIdleTimeout(n, reaction) PROVE TimerInv'
  <2>1. /\ Timers!NoOrphanTimeout(timers') /\ timers'.readLive = timers.readLive
        /\ UNCHANGED reading
    BY <1>0, <1>6
    DEF OnIdleTimeout, Timers!IdleFires, Timers!NoOrphanTimeout, Timers!TimersOf
  <2> QED
    BY <2>1 DEF TimerInv, TimersAccounted, PendingReadIsTimed
<1>7. ASSUME NEW r \in Reads, OnReadTimeout(r) PROVE TimerInv'
  <2>1. Timers!NoOrphanTimeout(timers') /\ reading'.pending = None
    BY <1>0, <1>7, TimerFacts, RejectClears DEF OnReadTimeout
  <2> QED
    BY <2>1 DEF TimerInv, TimersAccounted, PendingReadIsTimed
<1> QED
  BY <1>1, <1>2, <1>3, <1>3a, <1>4, <1>5, <1>6, <1>7
  DEF Next, SocketEvent, Timeout, Job, Call, vars, OnEnd, OnError, SocketFails, SocketFinishes, Write, WriteRefused,
      FlushFails, DrainArmed, DrainAwaited, Flush, ClientClose

-----------------------------------------------------------------------------
(* The lifecycle.                                                          *)

LifeInv == /\ ClosingWillEnd
           /\ life.closing # None => life.state # "open"
           /\ QuietWhenGone

LEMMA LifeInit == Init => LifeInv
  BY DEF Init, LifeInv, ClosingWillEnd, QuietWhenGone

(* What is true of the lifecycle alone, for a socket in a given stage. *)
LifeOK(l, stage) == /\ l.state = "closing" => l.closing # None /\ stage # "gone"
                    /\ l.state = "closed" => stage # "up"
                    /\ l.closing # None => l.state # "open"
                    /\ stage = "gone" => l.state = "closed" /\ l.closing = None

LEMMA CloseOK ==
  ASSUME NEW l \in Lives, NEW reason \in Reasons, LifeOK(l, socket.stage)
  PROVE  LifeOK(Close(l, reason), socket.stage)
<1>1. CASE l.state # "open"
  BY <1>1 DEF Close
<1>2. CASE l.state = "open" /\ socket.stage = "up"
  BY <1>2, SessionAssumption DEF Close, LifeOK, Lives
<1>3. CASE l.state = "open" /\ socket.stage # "up"
  BY <1>3 DEF Close, Transition, LifeOK, Lives
<1> QED
  BY <1>1, <1>2, <1>3

LEMMA ListenerOK ==
  ASSUME NEW l \in Lives, NEW reaction, LifeOK(l, socket.stage)
  PROVE  LifeOK(ListenerCloses(l, reaction), socket.stage)
  BY CloseOK DEF ListenerCloses, Reasons

LEMMA HandlersOK ==
  ASSUME NEW l \in Lives, NEW stage, LifeOK(l, stage), stage # "gone", stage # "up",
         NEW hadError \in BOOLEAN
  PROVE  /\ LifeOK(FailIfNotClosed(l), "failed")
         /\ LifeOK(FinishClose(UnexpectedClose(l, hadError)), "gone")
<1>1. LifeOK(FailIfNotClosed(l), "failed")
  BY DEF FailIfNotClosed, Transition, LifeOK, Lives
<1> DEFINE u == UnexpectedClose(l, hadError)
<1>2. u \in Lives /\ u.closing = l.closing /\ (u.state = "closed" \/ u = l)
  BY HandlerLifeTypes DEF UnexpectedClose, Transition, Lives
<1>3. u.closing = None => u.state = "closed"
  <2>1. CASE l.state \in {"open", "connecting"}
    BY <2>1 DEF UnexpectedClose, Transition, Lives
  <2>2. CASE l.state \notin {"open", "connecting"}
    BY <2>2 DEF UnexpectedClose, LifeOK, Lives
  <2> QED
    BY <2>1, <2>2
<1> HIDE DEF u
<1>4. FinishClose(u).state = "closed" /\ FinishClose(u).closing = None
  BY <1>2, <1>3 DEF FinishClose, Transition, Lives
<1>5. LifeOK(FinishClose(u), "gone")
  BY <1>4 DEF LifeOK
<1> QED
  BY <1>1, <1>5 DEF u

(* No step brings anything back once the socket is gone. *)
LEMMA LifeStep ==
  ASSUME TypeOK, ReadInv(reading), TimerInv, LifeInv, [Next]_vars
  PROVE  LifeInv'
<1>0. /\ life \in Lives /\ socket \in Sockets /\ reading \in Readings
      /\ timers \in Timers!TimersOf(Reads) /\ LifeOK(life, socket.stage)
  BY DEF TypeOK, LifeInv, ClosingWillEnd, QuietWhenGone, LifeOK
<1> DEFINE Quiet(s, t) == s.pending = None /\ t.idleLive = {} /\ t.readLive = {}
<1>a. ASSUME LifeOK(life', socket'.stage),
             socket'.stage = "gone" => Quiet(reading', timers')
      PROVE  LifeInv'
  BY <1>a DEF LifeInv, ClosingWillEnd, QuietWhenGone, LifeOK
<1>b. socket.stage = "gone" => Quiet(reading, timers) /\ life.state = "closed"
  BY DEF LifeInv, QuietWhenGone
<1>1. ASSUME NEW reaction, OnData(reaction) PROVE LifeInv'
  <2>1. LifeOK(life', socket.stage)
    BY <1>0, <1>1, ListenerOK DEF OnData
  <2> QED
    BY <1>1, <1>a, <2>1 DEF OnData, CanDeliver
<1>2. ASSUME NEW r \in Reads, OnDataReading(r) PROVE LifeInv'
  BY <1>0, <1>2, <1>a DEF OnDataReading, CanDeliver
<1>3. ASSUME PeerEnds PROVE socket'.stage = socket.stage /\ socket.stage = "up"
  BY <1>0, <1>3 DEF PeerEnds, Sockets
<1>3a. ASSUME NEW reaction, OnEnd(reaction) PROVE LifeInv'
  <2>1. LifeOK(life', socket.stage)
    BY <1>0, <1>3a, ListenerOK DEF OnEnd
  <2> QED
    BY <1>3, <1>3a, <1>a, <2>1 DEF OnEnd
<1>3b. ASSUME NEW r \in Reads, OnEndReading(r) PROVE LifeInv'
  BY <1>0, <1>3, <1>3b, <1>a DEF OnEndReading
<1>4. ASSUME NEW reaction, OnError(reaction) PROVE LifeInv'
  <2>1. socket'.stage = "failed" /\ socket.stage = "failing"
    BY <1>0, <1>4 DEF OnError, Sockets
  <2>2. LifeOK(ListenerCloses(life, reaction), "failing")
        /\ ListenerCloses(life, reaction) \in Lives
    BY <1>0, <2>1, ListenerOK, ListenerType
  <2>3. LifeOK(life', "failed")
    BY <1>4, <2>2, HandlersOK DEF OnError
  <2> QED
    BY <1>a, <2>1, <2>3
<1>5. CASE OnClose
  <2>1. socket'.stage = "gone" /\ socket.stage # "gone" /\ socket.stage # "up"
    BY <1>0, <1>5 DEF OnClose, Sockets
  <2>2. LifeOK(life', "gone")
    BY <1>0, <1>5, <2>1, HandlersOK DEF OnClose
  <2>3. Quiet(reading', timers')
    BY <1>0, <1>5, ClearAllFacts, RejectClears DEF OnClose, TimerInv, TimersAccounted
  <2> QED
    BY <1>a, <2>1, <2>2, <2>3
<1>6. ASSUME UNCHANGED <<life, reading, timers>>, socket'.stage = socket.stage
      PROVE  LifeInv'
  BY <1>0, <1>6, <1>a, <1>b
<1>7. ASSUME UNCHANGED <<life, reading, timers>>, socket.stage = "up",
             socket'.stage \in {"failing", "finishing"}
      PROVE  LifeInv'
  BY <1>0, <1>7, <1>a DEF LifeOK
<1>8. CASE SocketFails
  <2>1. socket'.stage = "failing"
    BY <1>0, <1>8 DEF SocketFails, Destroyed, Sockets
  <2> QED
    BY <1>7, <1>8, <2>1 DEF SocketFails
<1>9. CASE SocketFinishes
  <2>1. socket'.stage = "finishing"
    BY <1>0, <1>9 DEF SocketFinishes, Sockets
  <2> QED
    BY <1>7, <1>9, <2>1 DEF SocketFinishes
<1>10. ASSUME NEW w \in Writers, NEW below \in BOOLEAN, Write(w, below) PROVE LifeInv'
  <2>1. socket'.stage = socket.stage
    BY <1>0, <1>10 DEF Write, Sockets
  <2> QED
    BY <1>6, <1>10, <2>1 DEF Write
<1>11. ASSUME NEW w \in Writers, WriteRefused(w) PROVE LifeInv'
  <2>1. PICK s \in (IF socket.stage = "up" THEN Destroyed(socket) ELSE {socket}) :
          socket' = [s EXCEPT !.aborted = @ \cup {w}]
    BY <1>11 DEF WriteRefused
  <2>2. s \in Sockets
    BY <1>0, <2>1, DestroyedType
  <2>3. socket'.stage = s.stage
    BY <2>1, <2>2 DEF Sockets
  <2>4. s.stage = IF socket.stage = "up" THEN "failing" ELSE socket.stage
    BY <1>0, <2>1 DEF Destroyed, Sockets
  <2> QED
    BY <1>6, <1>7, <1>11, <2>3, <2>4 DEF WriteRefused
<1>12. CASE Flush
  <2>1. socket'.stage = socket.stage
    BY <1>0, <1>12 DEF Flush, Sockets
  <2> QED
    BY <1>6, <1>12, <2>1 DEF Flush
<1>13. ASSUME NEW w \in Writers, FlushFails(w) PROVE LifeInv'
  <2>1. socket'.stage = socket.stage
    BY <1>0, <1>13 DEF FlushFails, Sockets
  <2> QED
    BY <1>6, <1>13, <2>1 DEF FlushFails
<1>14. ASSUME NEW r \in Reads, Read(r) PROVE LifeInv'
  <2>1. socket.stage # "gone"
    BY <1>b, <1>14 DEF Read, MayRead
  <2> QED
    BY <1>0, <1>14, <1>a, <2>1 DEF Read
<1>15. CASE ClientClose
  <2>1. LifeOK(life', socket.stage)
    BY <1>0, <1>15, CloseOK DEF ClientClose, Reasons
  <2> QED
    BY <1>15, <1>a, <1>b, <2>1 DEF ClientClose
<1>16. ASSUME NEW n \in timers.idleLive, NEW reaction, OnIdleTimeout(n, reaction)
       PROVE  LifeInv'
  <2>1. LifeOK(life', socket.stage)
    <3>1. LifeOK(ListenerCloses(life, reaction), socket.stage)
          /\ ListenerCloses(life, reaction) \in Lives
      BY <1>0, ListenerOK, ListenerType
    <3>2. LifeOK(Close(ListenerCloses(life, reaction), "timeout"), socket.stage)
      BY <3>1, CloseOK DEF Reasons
    <3> QED
      BY <1>0, <1>16, <3>2 DEF OnIdleTimeout, IdleExpires
  <2>2. socket.stage # "gone"
    BY <1>b, <1>16
  <2> QED
    BY <1>16, <1>a, <2>1, <2>2 DEF OnIdleTimeout
<1>17. ASSUME NEW r \in Reads, OnReadTimeout(r) PROVE LifeInv'
  <2>1. socket.stage # "gone"
    BY <1>b, <1>17 DEF OnReadTimeout
  <2> QED
    BY <1>0, <1>17, <1>a, <2>1 DEF OnReadTimeout
<1>18. ASSUME NEW w \in Writers, DrainArmed(w) \/ DrainAwaited(w) PROVE LifeInv'
  BY <1>6, <1>18 DEF DrainArmed, DrainAwaited
<1>19. CASE UNCHANGED vars
  BY <1>6, <1>19 DEF vars
<1> QED
  BY <1>1, <1>2, <1>3a, <1>3b, <1>4, <1>5, <1>8, <1>9, <1>10, <1>11, <1>12, <1>13, <1>14,
     <1>15, <1>16, <1>17, <1>18, <1>19 DEF Next, SocketEvent, Timeout, Job, Call

-----------------------------------------------------------------------------
(* The theorems.                                                           *)

SessionInv == TypeOK /\ ReadInv(reading) /\ TimerInv /\ LifeInv

(* The invariant behind the theorems below.  Reads and timers need each    *)
(* other's part of it: that a served read leaves nobody waiting is what    *)
(* lets the data handler clear the read timer, and that no timeout is      *)
(* orphaned is what makes clearAll() at "close" silence the session.       *)
THEOREM SessionInvariant == Spec => []SessionInv
<1>1. Init => SessionInv
  BY InitType, ReadInit, TimerInit, LifeInit DEF SessionInv
<1>2. SessionInv /\ [Next]_vars => SessionInv'
  BY TypeStep, ReadStep, TimerStep, LifeStep DEF SessionInv, ReadInv, InOrder, WaitsAlone
<1> QED
  BY <1>1, <1>2, PTL DEF Spec

(* Chunks reach the reads in the order of arrival, each of them once, for  *)
(* any number of chunks and reads, overlapping or made from a "data"       *)
(* listener, under any timeouts and closes (data handler, read()).         *)
THEOREM ChunksDelivered == Spec => []ChunksInOrder
<1>1. SessionInv => ChunksInOrder
  BY DEF SessionInv, ReadInv, InOrder, Iota, ChunksInOrder
<1> QED
  BY <1>1, SessionInvariant, PTL

(* The pending read never waits while a chunk is in the buffer: read() and *)
(* the data handler cannot miss each other (data handler, read()).         *)
THEOREM ReadsDoNotMiss == Spec => []NoReadWaitsOnBuffer
<1>1. SessionInv => NoReadWaitsOnBuffer
  BY DEF SessionInv, ReadInv, NoReadWaitsOnBuffer
<1> QED
  BY <1>1, SessionInvariant, PTL

(* A read that waits under a read timeout has its own timeout running and  *)
(* no other (read() and the data handler, with resetRead and clearRead).   *)
THEOREM ReadsTimed == Spec => []PendingReadIsTimed
  BY SessionInvariant, PTL DEF SessionInv, TimerInv

(* No timeout is ever out of reach of clearAll() (timers.ts).              *)
THEOREM NoTimerLost == Spec => []TimersAccounted
  BY SessionInvariant, PTL DEF SessionInv, TimerInv

(* "closing" always has a way out and "closed" is not reported on a living *)
(* socket (close handler and the callback of close()).                     *)
THEOREM LifecycleSound == Spec => []ClosingWillEnd
  BY SessionInvariant, PTL DEF SessionInv, LifeInv

(* After "close" the session is silent: no timeout, no pending read, no    *)
(* close() under way (close handler).                                      *)
THEOREM QuietAfterClose == Spec => []QuietWhenGone
  BY SessionInvariant, PTL DEF SessionInv, LifeInv

(* No step opens a transport, and one that has an "error" listener cannot  *)
(* see its idle timer expire and stay open.                                *)
LEMMA StaysOpen ==
  ASSUME TypeOK, [Next]_vars, life'.state = "open"
  PROVE  life.state = "open"
<1>0. life \in Lives
  BY DEF TypeOK
<1>1. ASSUME NEW l \in Lives, NEW reason, Close(l, reason).state = "open"
      PROVE  l.state = "open"
  BY <1>1 DEF Close
<1>2. ASSUME NEW l \in Lives, NEW reaction, ListenerCloses(l, reaction).state = "open"
      PROVE  l.state = "open"
  BY <1>1, <1>2 DEF ListenerCloses
<1>3. ASSUME NEW reaction, OnData(reaction) \/ OnEnd(reaction) PROVE life.state = "open"
  BY <1>0, <1>2, <1>3 DEF OnData, OnEnd
<1>4. ASSUME NEW reaction, OnError(reaction) PROVE FALSE
  <2>1. ListenerCloses(life, reaction) \in Lives
    BY <1>0, ListenerType
  <2> QED
    BY <1>4, <2>1 DEF OnError, FailIfNotClosed, Transition, Lives
<1>5. ASSUME OnClose PROVE life.state = "open"
  BY <1>0, <1>5 DEF OnClose, FinishClose, UnexpectedClose, Transition, Lives
<1>6. CASE ClientClose
  BY <1>0, <1>1, <1>6 DEF ClientClose
<1>7. ASSUME NEW n, NEW reaction, OnIdleTimeout(n, reaction) PROVE life.state = "open"
  <2>1. ListenerCloses(life, reaction) \in Lives
    BY <1>0, ListenerType
  <2> QED
    BY <1>0, <1>1, <1>2, <1>7, <2>1 DEF OnIdleTimeout, IdleExpires
<1>8. CASE UNCHANGED life
  BY <1>8
<1> QED
  BY <1>3, <1>4, <1>5, <1>6, <1>7, <1>8
  DEF Next, SocketEvent, Timeout, Job, Call, vars, OnDataReading, OnEndReading, SocketFails,
      SocketFinishes, Write, WriteRefused, FlushFails, DrainArmed, DrainAwaited, Flush, Read,
      OnReadTimeout

LEMMA ClosedByClose ==
  ASSUME NEW l \in Lives, NEW reason \in Reasons
  PROVE  Close(l, reason).state # "open"
  BY DEF Close, Transition, Lives

LEMMA IdleArmedInit == Init => IdleArmedWhileOpen
  BY DEF Init, IdleArmedWhileOpen, Timers!ResetIdle, Timers!NoTimers

(* A turn that leaves the transport open leaves its idle timer running. *)
LEMMA IdleArmedStep ==
  ASSUME "absent" \notin ErrorReactions, SessionInv, SessionInv', IdleArmedWhileOpen, [Next]_vars
  PROVE  IdleArmedWhileOpen'
<1> SUFFICES ASSUME IdleEnabled, life'.state = "open"
             PROVE  timers'.idleLive # {}
  BY DEF IdleArmedWhileOpen
<1>0. /\ timers \in Timers!TimersOf(Reads) /\ life \in Lives
      /\ timers.idleLive # {}
  BY StaysOpen DEF SessionInv, TypeOK, IdleArmedWhileOpen
<1>1. DataTimers.idleLive # {}
  BY <1>0 DEF DataTimers, Timers!ResetIdle, Timers!ClearRead, Timers!TimersOf
<1>2. ASSUME NEW t, NEW r, t \in Timers!TimersOf(Reads)
      PROVE  TimeRead(t, reading, r).idleLive = t.idleLive
  BY <1>2 DEF TimeRead, Timers!ResetRead, Timers!TimersOf
<1>3. ASSUME NEW r \in Reads, OnDataReading(r) PROVE timers'.idleLive # {}
  BY <1>1, <1>2, <1>3, DataTurnTypes DEF OnDataReading, SessionInv
<1>4. ASSUME NEW r \in Reads, OnEndReading(r) \/ Read(r) PROVE timers'.idleLive # {}
  BY <1>0, <1>2, <1>4 DEF OnEndReading, Read
<1>5. ASSUME OnClose PROVE FALSE
  <2>1. socket'.stage = "gone"
    BY <1>5 DEF OnClose, SessionInv, TypeOK, Sockets
  <2> QED
    BY <2>1 DEF SessionInv, LifeInv, QuietWhenGone
<1>6. ASSUME NEW n, NEW reaction \in ErrorReactions, OnIdleTimeout(n, reaction) PROVE FALSE
  <2>1. life' = Close(ListenerCloses(life, reaction), "timeout")
    BY <1>6 DEF OnIdleTimeout, IdleExpires
  <2> QED
    BY <1>0, <2>1, ListenerType, ClosedByClose DEF Reasons
<1>7. ASSUME NEW r \in Reads, OnReadTimeout(r) PROVE timers'.idleLive # {}
  BY <1>0, <1>7 DEF OnReadTimeout, Timers!ReadFires, Timers!TimersOf
<1>8. CASE UNCHANGED timers
  BY <1>0, <1>8
<1>9. ASSUME NEW reaction, OnData(reaction) PROVE timers'.idleLive # {}
  BY <1>1, <1>9 DEF OnData
<1> QED
  BY <1>3, <1>4, <1>5, <1>6, <1>7, <1>8, <1>9
  DEF Next, SocketEvent, Timeout, Job, Call, vars, OnEnd, OnError, SocketFails,
      SocketFinishes, Write, WriteRefused, FlushFails, DrainArmed, DrainAwaited, Flush,
      ClientClose

(* If an "error" listener is registered, a transport that is open has its  *)
(* idle timer running, whatever happens: silence is always noticed (timer  *)
(* callbacks of _establish, data handler).  Without a listener emit throws *)
(* in the idle callback, and the transport stays open untimed.             *)
THEOREM IdleAlwaysArmed ==
  "absent" \notin ErrorReactions => (Spec => []IdleArmedWhileOpen)
<1> SUFFICES ASSUME "absent" \notin ErrorReactions PROVE Spec => []IdleArmedWhileOpen
  OBVIOUS
<1>1. Init => IdleArmedWhileOpen
  BY IdleArmedInit
<1>2. SessionInv /\ SessionInv' /\ IdleArmedWhileOpen /\ [Next]_vars => IdleArmedWhileOpen'
  BY IdleArmedStep
<1> QED
  BY <1>1, <1>2, SessionInvariant, PTL DEF Spec

(* If the application has one read pending at a time, every read has been  *)
(* answered when the socket is gone.                                       *)
THEOREM EveryReadAnswered == ~ OverlappingReads => (Spec => []ReadsAnsweredWhenGone)
<1> SUFFICES ASSUME ~ OverlappingReads PROVE Spec => []ReadsAnsweredWhenGone
  OBVIOUS
<1>1. SessionInv => ReadsAnsweredWhenGone
  BY SessionAssumption
  DEF SessionInv, ReadInv, WaitsAlone, LifeInv, QuietWhenGone, ReadsAnsweredWhenGone
<1> QED
  BY <1>1, SessionInvariant, PTL

(* A closed transport stays closed, and only the close() that was under    *)
(* way when it was closed can still replace its reason.                    *)
THEOREM ReasonKept == Spec => ClosedReasonKept
<1>1. SessionInv /\ [Next]_vars =>
        [life.state = "closed" =>
           life'.state = "closed" /\ life'.reason \in {life.reason, life.closing}]_life
  <2> SUFFICES ASSUME SessionInv, [Next]_vars, life.state = "closed"
               PROVE  life'.state = "closed" /\ life'.reason \in {life.reason, life.closing}
    OBVIOUS
  <2>0. life \in Lives
    BY DEF SessionInv, TypeOK
  <2>1. \A reason : Close(life, reason) = life
    BY DEF Close
  <2>2. \A reaction : ListenerCloses(life, reaction) = life
    BY <2>1 DEF ListenerCloses
  <2>3. \A reaction : IdleExpires(life, reaction) = life
    BY <2>1, <2>2 DEF IdleExpires
  <2>4. ASSUME NEW reaction, OnError(reaction) PROVE life' = life
    BY <2>2, <2>4 DEF OnError, FailIfNotClosed
  <2>5. ASSUME OnClose
        PROVE  life'.state = "closed" /\ life'.reason \in {life.reason, life.closing}
    <3>1. life' = FinishClose(life)
      BY <2>5 DEF OnClose, UnexpectedClose
    <3> QED
      BY <2>0, <3>1 DEF FinishClose, Transition, Lives
  <2>6. ASSUME NEW reaction, OnData(reaction) PROVE life' = life
    BY <2>2, <2>6 DEF OnData
  <2>7. ASSUME NEW n, NEW reaction, OnIdleTimeout(n, reaction) PROVE life' = life
    BY <2>3, <2>7 DEF OnIdleTimeout
  <2>8. ASSUME ClientClose PROVE life' = life
    BY <2>1, <2>8 DEF ClientClose
  <2>8a. ASSUME NEW reaction, OnEnd(reaction) PROVE life' = life
    BY <2>2, <2>8a DEF OnEnd
  <2>9. ASSUME \/ \E r \in Reads : \/ OnDataReading(r) \/ OnEndReading(r)
                                   \/ Read(r) \/ OnReadTimeout(r)
               \/ SocketFails \/ SocketFinishes \/ Flush
               \/ \E w \in Writers : \/ \E below \in BOOLEAN : Write(w, below)
                                     \/ WriteRefused(w) \/ FlushFails(w)
                                     \/ DrainArmed(w) \/ DrainAwaited(w)
               \/ UNCHANGED vars
        PROVE  life' = life
    BY <2>9 DEF vars, OnDataReading, OnEndReading, SocketFails, SocketFinishes, Write,
        WriteRefused, FlushFails, DrainArmed, DrainAwaited, Flush, Read, OnReadTimeout
  <2>10. life' = life \/ OnClose
    BY <2>4, <2>6, <2>7, <2>8, <2>8a, <2>9 DEF Next, SocketEvent, Timeout, Job, Call
  <2> QED
    BY <2>0, <2>5, <2>10
<1> QED
  BY <1>1, SessionInvariant, PTL DEF Spec, ClosedReasonKept

(* The session uses the backpressure queue as createDrainQueue defines it, *)
(* so what DrainQueueProofs shows of the queue holds in every session.     *)
THEOREM UsesDrainQueue == Spec => Queue!Spec
<1>1. Init => Queue!Init
  BY DEF Init
<1>2. [Next]_vars => [Queue!Next]_(Queue!vars)
  <2> SUFFICES ASSUME [Next]_vars PROVE [Queue!Next]_(Queue!vars)
    OBVIOUS
  <2>1. CASE UNCHANGED queueVars
    BY <2>1 DEF queueVars, Queue!vars
  <2>2. CASE Queue!NotifyDrain \/ Queue!Reject
    BY <2>2 DEF Queue!Next
  <2>3. ASSUME NEW w \in Writers,
               Queue!AwaitDrain(w) \/ Queue!ArmWaiter(w) \/ Queue!SettleNext(w)
        PROVE  Queue!Next
    BY <2>3 DEF Queue!Next
  <2>4. \/ UNCHANGED queueVars
        \/ Queue!NotifyDrain \/ Queue!Reject
        \/ \E w \in Writers :
             Queue!AwaitDrain(w) \/ Queue!ArmWaiter(w) \/ Queue!SettleNext(w)
    BY DEF Next, SocketEvent, Timeout, Job, Call, vars, OnData, OnDataReading, OnEnd,
           OnEndReading, PeerEnds, OnError, OnClose, SocketFails,
           SocketFinishes, Write, WriteRefused, FlushFails, DrainArmed, DrainAwaited,
           Flush, Read, OnReadTimeout, ClientClose, OnIdleTimeout
  <2> QED
    BY <2>1, <2>2, <2>3, <2>4
<1> QED
  BY <1>1, <1>2, PTL DEF Spec, Queue!Spec

(* An idle timeout that finds the transport open closes it with the reason *)
(* "timeout", when "error" listeners leave the transport alone.            *)
THEOREM IdleReasonRecorded ==
  ErrorReactions \subseteq {"nothing"} => (Spec => IdleClosesWithTimeout)
<1> SUFFICES ASSUME ErrorReactions \subseteq {"nothing"}
             PROVE  Spec => IdleClosesWithTimeout
  OBVIOUS
<1>1. SessionInv /\ [Next]_vars =>
        [(\E n \in timers.idleLive, reaction \in ErrorReactions : OnIdleTimeout(n, reaction))
           /\ life.state = "open" => "timeout" \in {life'.closing, life'.reason}]_vars
  <2> SUFFICES ASSUME SessionInv, life.state = "open",
                      NEW n, OnIdleTimeout(n, "nothing")
               PROVE  "timeout" \in {life'.closing, life'.reason}
    OBVIOUS
  <2>1. life' = Close(life, "timeout") /\ life \in Lives
    BY DEF OnIdleTimeout, IdleExpires, ListenerCloses, SessionInv, TypeOK
  <2> QED
    BY <2>1 DEF Close, Transition, Lives
<1> QED
  BY <1>1, SessionInvariant, PTL DEF Spec, IdleClosesWithTimeout

QueueProofs == INSTANCE DrainQueueProofs

(* Backpressured writes are served in the order of write(), and the write  *)
(* whose turn it is can always be reached by the next drain, error or      *)
(* close: the theorems of the queue, in the session that uses it.          *)
THEOREM WritesServedInOrder ==
  Spec => [](Queue!FirstComeFirstServed /\ Queue!WaiterNeverLost /\ Queue!NeverStuck)
<1>1. /\ Queue!Init <=> QueueProofs!Init
      /\ [Queue!Next]_(Queue!vars) <=> [QueueProofs!Next]_(QueueProofs!vars)
  BY DEF Queue!Init, Queue!Next, Queue!vars, Queue!AwaitDrain, Queue!ArmWaiter,
         Queue!ChainSettled, Queue!SettleNext, Queue!NotifyDrain, Queue!Reject,
         Queue!AnswerWaiter, Queue!Settled, Queue!Answered,
         QueueProofs!Init, QueueProofs!Next, QueueProofs!vars, QueueProofs!AwaitDrain,
         QueueProofs!ArmWaiter, QueueProofs!ChainSettled, QueueProofs!SettleNext,
         QueueProofs!NotifyDrain, QueueProofs!Reject, QueueProofs!AnswerWaiter,
         QueueProofs!Settled, QueueProofs!Answered
<1>2. /\ QueueProofs!FirstComeFirstServed => Queue!FirstComeFirstServed
      /\ QueueProofs!WaiterNeverLost => Queue!WaiterNeverLost
      /\ QueueProofs!NeverStuck => Queue!NeverStuck
  BY DEF Queue!FirstComeFirstServed, Queue!WaiterNeverLost, Queue!NeverStuck,
         Queue!JobEnabled, Queue!ChainSettled, Queue!Settled, Queue!Answered,
         QueueProofs!FirstComeFirstServed, QueueProofs!WaiterNeverLost,
         QueueProofs!NeverStuck, QueueProofs!JobEnabled, QueueProofs!ChainSettled,
         QueueProofs!Settled, QueueProofs!Answered
<1>3. Queue!Spec => QueueProofs!Spec
  BY <1>1, PTL DEF Queue!Spec, QueueProofs!Spec
<1>4. None \notin Writers
  BY SessionAssumption
<1>5. QueueProofs!Spec => []QueueProofs!FirstComeFirstServed
  BY <1>4, QueueProofs!Fifo
<1>6. QueueProofs!Spec => []QueueProofs!WaiterNeverLost
  BY <1>4, QueueProofs!WaiterSafe
<1>7. QueueProofs!Spec => []QueueProofs!NeverStuck
  BY <1>4, QueueProofs!Unstuck
<1> QED
  BY <1>2, <1>3, <1>5, <1>6, <1>7, UsesDrainQueue, PTL
=============================================================================
