--------------------- MODULE TransportRefinementProofs ---------------------
(***************************************************************************)
(* A session implements the Transport interface: its initial state is one  *)
(* of the interface's, and each turn makes at most one move of the         *)
(* lifecycle, one of the reading side and one of the writing side.         *)
(***************************************************************************)
EXTENDS TransportWriteProofs

-----------------------------------------------------------------------------
(* The lifecycle.                                                          *)

Moves(l, m) ==
  \/ m = l
  \/ /\ l.state = "open" /\ m.state = "closing"
     /\ m.closing \in Reasons /\ m.reason = l.reason
  \/ /\ l.state \in {"open", "closing"} /\ m.state = "closed" /\ m.reason \in Reasons
     /\ m.closing = l.closing \/ (m.reason = l.closing /\ m.closing = None)
  \/ /\ l.state = "closed" /\ l.closing # None
     /\ m.state = "closed" /\ m.reason = l.closing /\ m.closing = None

LEMMA CloseMoves ==
  ASSUME NEW l \in Lives, NEW reason \in Reasons
  PROVE  Moves(l, Close(l, reason))
<1>1. CASE l.state # "open"
  BY <1>1 DEF Close, Moves
<1>2. CASE l.state = "open" /\ socket.stage = "up"
  BY <1>2 DEF Close, Moves, Lives
<1>3. CASE l.state = "open" /\ socket.stage # "up"
  BY <1>3 DEF Close, Moves, Transition, Lives
<1> QED
  BY <1>1, <1>2, <1>3

LEMMA ListenerMoves ==
  ASSUME NEW l \in Lives, NEW reaction
  PROVE  Moves(l, ListenerCloses(l, reaction))
  BY CloseMoves DEF ListenerCloses, Reasons, Moves

LEMMA IdleMoves ==
  ASSUME NEW l \in Lives, NEW reaction
  PROVE  Moves(l, IdleExpires(l, reaction))
<1>1. CASE reaction = "close"
  <2>1. ListenerCloses(l, reaction) = Close(l, "client_close")
    BY <1>1 DEF ListenerCloses
  <2>2. Close(Close(l, "client_close"), "timeout") = Close(l, "client_close")
    BY ClosedByClose DEF Close, Reasons
  <2>3. IdleExpires(l, reaction) = Close(l, "client_close")
    BY <1>1, <2>1, <2>2 DEF IdleExpires
  <2> QED
    BY <2>3, CloseMoves DEF Reasons
<1>2. CASE reaction # "close"
  BY <1>2, CloseMoves DEF IdleExpires, ListenerCloses, Reasons, Moves
<1> QED
  BY <1>1, <1>2

(* "error": on a socket that is not up a listener's close() is final. *)
LEMMA ErrorMoves ==
  ASSUME NEW l \in Lives, NEW reaction, l.state # "connecting", socket.stage # "up"
  PROVE  Moves(l, FailIfNotClosed(ListenerCloses(l, reaction)))
<1>1. CASE reaction = "close" /\ l.state = "open"
  <2>1. ListenerCloses(l, reaction) = Transition(l, "closed", "client_close")
    BY <1>1 DEF ListenerCloses, Close
  <2>2. FailIfNotClosed(ListenerCloses(l, reaction)) = Transition(l, "closed", "client_close")
    BY <2>1 DEF FailIfNotClosed, Transition, Lives
  <2> QED
    BY <1>1, <2>2 DEF Moves, Transition, Lives, Reasons
<1>2. CASE ~ (reaction = "close" /\ l.state = "open")
  <2>1. ListenerCloses(l, reaction) = l
    BY <1>2 DEF ListenerCloses, Close
  <2> QED
    BY <2>1 DEF FailIfNotClosed, Moves, Transition, Lives, Reasons
<1> QED
  BY <1>1, <1>2

(* "close": the handler and then the callback of close(), of which only    *)
(* one can find the transport not yet closed.                              *)
LEMMA CloseEventMoves ==
  ASSUME NEW l \in Lives, NEW stage, LifeOK(l, stage), l.state # "connecting",
         NEW hadError \in BOOLEAN
  PROVE  Moves(l, FinishClose(UnexpectedClose(l, hadError)))
<1>1. CASE l.state = "open"
  <2>1. l.closing = None
    BY <1>1 DEF LifeOK
  <2>2. UnexpectedClose(l, hadError) =
          Transition(l, "closed", IF hadError THEN "error" ELSE "remote_close")
    BY <1>1 DEF UnexpectedClose
  <2>3. FinishClose(UnexpectedClose(l, hadError)) = UnexpectedClose(l, hadError)
    BY <2>1, <2>2 DEF FinishClose, Transition, Lives
  <2> QED
    BY <1>1, <2>2, <2>3 DEF Moves, Transition, Lives, Reasons
<1>2. CASE l.state \in {"closing", "closed"}
  <2>1. UnexpectedClose(l, hadError) = l
    BY <1>2 DEF UnexpectedClose
  <2>2. CASE l.closing = None
    BY <2>1, <2>2 DEF FinishClose, Moves
  <2>3. CASE l.closing # None
    <3>1. l.closing \in Reasons
      BY <2>3 DEF Lives
    <3>2. FinishClose(l).state = "closed" /\ FinishClose(l).reason = l.closing
          /\ FinishClose(l).closing = None
      BY <2>3 DEF FinishClose, Transition, Lives
    <3> QED
      BY <1>2, <2>1, <2>3, <3>1, <3>2 DEF Moves
  <2> QED
    BY <2>2, <2>3
<1> QED
  BY <1>1, <1>2 DEF Lives

LEMMA LifecycleRefined ==
  ASSUME TypeOK, LifeInv, life.state # "connecting", [Next]_vars
  PROVE  Moves(life, life')
<1>0. life \in Lives /\ LifeOK(life, socket.stage)
  BY DEF TypeOK, LifeInv, ClosingWillEnd, QuietWhenGone, LifeOK
<1>1. ASSUME NEW reaction, OnData(reaction) \/ OnEnd(reaction) PROVE Moves(life, life')
  BY <1>0, <1>1, ListenerMoves DEF OnData, OnEnd
<1>2. ASSUME NEW reaction, OnError(reaction) PROVE Moves(life, life')
  BY <1>0, <1>2, ErrorMoves DEF OnError
<1>3. ASSUME OnClose PROVE Moves(life, life')
  BY <1>0, <1>3, CloseEventMoves DEF OnClose
<1>4. CASE ClientClose
  BY <1>0, <1>4, CloseMoves DEF ClientClose, Reasons
<1>5. ASSUME NEW n, NEW reaction, OnIdleTimeout(n, reaction) PROVE Moves(life, life')
  BY <1>0, <1>5, IdleMoves DEF OnIdleTimeout
<1>6. CASE UNCHANGED life
  BY <1>6 DEF Moves
<1> QED
  BY <1>1, <1>2, <1>3, <1>4, <1>5, <1>6
  DEF Next, SocketEvent, Timeout, Job, Call, vars, OnDataReading, OnEndReading, SocketFails,
      SocketFinishes, Write, WriteRefused, FlushFails, DrainArmed, DrainAwaited, Flush, Read,
      OnReadTimeout

LEMMA MovesRefine == ASSUME Moves(life, life') PROVE Abstract!Lifecycle
  BY DEF Moves, Abstract!Lifecycle, Abstract!Open, Abstract!BeginClose, Abstract!Closed,
         Abstract!CloseLate, Abstract!Reasons, Reasons

-----------------------------------------------------------------------------
(* Reading.                                                                *)

(* The handle pendingRead always refers to a promise not yet settled. *)
PendingMarked(s) == s.pending # None => s.outcome[s.pending] = "pending"

(* Whatever the turn, the calls it makes on the reading side and where. *)
LEMMA ReadingCalls ==
  ASSUME [Next]_vars
  PROVE  \/ reading' = reading
         \/ reading' = RejectPendingRead(reading)
         \/ socket.stage = "up" /\ reading' = Deliver(Received, Chunk)
         \/ \E r \in Reads :
              /\ MayRead(r)
              /\ \/ reading' = TakeRead(reading, r)
                 \/ socket.stage = "up" /\ reading' = Deliver(TakeRead(Received, r), Chunk)
                 \/ reading' = RejectPendingRead(TakeRead(reading, r))
  BY DEF Next, SocketEvent, Timeout, Job, Call, vars, OnData, OnDataReading, OnEnd, OnEndReading,
         OnError, OnClose, SocketFails, SocketFinishes, Write, WriteRefused, FlushFails,
         DrainArmed, DrainAwaited, Flush, Read, OnReadTimeout, ClientClose, OnIdleTimeout,
         CanDeliver

LEMMA RejectFields ==
  ASSUME NEW s \in Readings
  PROVE  /\ s.pending # None => RejectPendingRead(s) =
              [buffer |-> s.buffer, pending |-> None, received |-> s.received,
               outcome |-> [s.outcome EXCEPT ![s.pending] = "rejected"],
               delivered |-> s.delivered]
         /\ s.pending = None => RejectPendingRead(s) = s
  BY DEF RejectPendingRead, Readings

(* The next chunk is the head of the buffer or, if that is empty, the one  *)
(* that arrives next.                                                      *)
LEMMA NextChunk ==
  ASSUME NEW d \in Seq(Nat), NEW b \in Seq(Nat), NEW n \in Nat, d \o b = Iota(n)
  PROVE  /\ b = <<>> => Len(d) = n
         /\ b # <<>> => Head(b) = Len(d) + 1 /\ Len(d) < n
<1>1. /\ Len(d \o b) = Len(d) + Len(b) /\ Len(d) \in Nat /\ Len(b) \in Nat
      /\ Len(Iota(n)) = n
  BY DEF Iota
<1>1a. Len(d) + Len(b) = n
  BY <1>1, Zenon
<1>2. CASE b = <<>>
  <2>1. Len(b) = 0
    BY <1>2
  <2>2. \A x, y \in Nat : x + y = n /\ y = 0 => x = n
    OBVIOUS
  <2>3. Len(d) = n
    BY <1>1, <1>1a, <2>1, <2>2, Zenon
  <2> QED
    BY <1>2, <2>3, Zenon
<1>3. CASE b # <<>>
  <2>1. Len(b) >= 1 /\ Head(b) = b[1] /\ (d \o b)[Len(d) + 1] = b[1]
    BY <1>3
  <2>2. Len(d) + 1 \in 1 .. n
    BY <1>1, <1>1a, <2>1
  <2>3. Iota(n)[Len(d) + 1] = Len(d) + 1
    BY <2>2 DEF Iota
  <2> QED
    BY <1>1, <1>1a, <1>3, <2>1, <2>3
<1> QED
  BY <1>2, <1>3

LEMMA MarkedCalls ==
  ASSUME NEW s \in Readings, PendingMarked(s), s.pending # None => s.buffer = <<>>,
         NEW r \in Reads, NEW chunk
  PROVE  /\ PendingMarked(TakeRead(s, r))
         /\ PendingMarked(Deliver(s, chunk))
         /\ PendingMarked(RejectPendingRead(s))
<1>1. PendingMarked(TakeRead(s, r))
  <2>1. CASE s.buffer = <<>>
    <3>1. TakeRead(s, r).pending = r /\ TakeRead(s, r).outcome = [s.outcome EXCEPT ![r] = "pending"]
      BY <2>1, TakeReadFields
    <3> QED
      BY <3>1, ReadingFields DEF PendingMarked
  <2>2. CASE s.buffer # <<>>
    <3>1. TakeRead(s, r).pending = None
      BY <2>2, TakeReadFields
    <3> QED
      BY <3>1 DEF PendingMarked
  <2> QED
    BY <2>1, <2>2
<1>2. PendingMarked(Deliver(s, chunk)) /\ PendingMarked(RejectPendingRead(s))
  BY DeliverClears, RejectClears DEF PendingMarked
<1> QED
  BY <1>1, <1>2

LEMMA MarkedStep ==
  ASSUME TypeOK, ReadInv(reading), PendingMarked(reading), [Next]_vars
  PROVE  PendingMarked(reading')
<1>0. /\ reading \in Readings /\ Received \in Readings
      /\ reading.pending # None => reading.buffer = <<>>
      /\ Received.pending = reading.pending /\ Received.outcome = reading.outcome
      /\ Received.buffer = reading.buffer
  BY DataTurnTypes DEF TypeOK, ReadInv, Received, Readings
<1>1. PendingMarked(Received)
  BY <1>0 DEF PendingMarked
<1>2. \A r \in Reads : TakeRead(reading, r) \in Readings /\ TakeRead(Received, r) \in Readings
  BY <1>0, TakeReadType
<1>3. ASSUME NEW s \in Readings PROVE PendingMarked(RejectPendingRead(s))
                                     /\ PendingMarked(Deliver(s, Chunk))
  BY DeliverClears, RejectClears DEF PendingMarked
<1>4. ASSUME NEW r \in Reads PROVE PendingMarked(TakeRead(reading, r))
  BY <1>0, MarkedCalls
<1> QED
  BY <1>0, <1>1, <1>2, <1>3, <1>4, ReadingCalls

LEMMA ReadingRefined ==
  ASSUME TypeOK, ReadInv(reading), PendingMarked(reading), LifeInv, [Next]_vars
  PROVE  Abstract!Reading
<1>0. /\ reading \in Readings /\ reading.received \in Nat /\ Chunk = reading.received + 1
      /\ reading.delivered \in Seq(Nat) /\ reading.buffer \in Seq(Nat)
      /\ reading.delivered \o reading.buffer = Iota(reading.received)
      /\ reading.pending # None => reading.buffer = <<>>
      /\ reading.pending \in Reads \cup {None}
  BY DEF TypeOK, ReadInv, InOrder, Readings, Chunk
<1>1. /\ reading.buffer = <<>> => Len(reading.delivered) = reading.received
      /\ reading.buffer # <<>> => /\ Head(reading.buffer) = Len(reading.delivered) + 1
                                  /\ Len(reading.delivered) < reading.received
  BY <1>0, NextChunk
<1>2. /\ Received \in Readings /\ Received.received = reading.received + 1
      /\ Received.buffer = reading.buffer /\ Received.pending = reading.pending
      /\ Received.outcome = reading.outcome /\ Received.delivered = reading.delivered
  BY <1>0, DataTurnTypes DEF Received, Readings
<1>3. socket.stage = "up" => life.state # "closed"
  BY DEF LifeInv, ClosingWillEnd
<1> DEFINE o == reading.outcome
           d == reading.delivered
           n == reading.received
<1>s. ASSUME reading'.received \in {n, n + 1},
             \/ /\ reading'.outcome = o /\ reading'.delivered = d
             \/ \E r \in Reads :
                  /\ o[r] = "pending" \/ (o[r] = "none" /\ life.state = "open")
                  /\ \/ /\ life.state # "closed" /\ Len(d) < reading'.received
                        /\ reading'.delivered = Append(d, Len(d) + 1)
                        /\ reading'.outcome = [o EXCEPT ![r] = "resolved"]
                     \/ /\ reading'.delivered = d
                        /\ reading'.outcome = [o EXCEPT ![r] = "rejected"]
                     \/ /\ o[r] = "none" /\ reading'.delivered = d
                        /\ reading'.outcome = [o EXCEPT ![r] = "pending"]
      PROVE  Abstract!Reading
  BY <1>s DEF Abstract!Reading, Abstract!ReadGets, Abstract!ReadFails, Abstract!ReadWaits,
              Abstract!Waits, Abstract!Begins, PendingMarked
<1>4. CASE reading' = reading
  BY <1>4, <1>s
<1>5. CASE reading' = RejectPendingRead(reading)
  <2>1. CASE reading.pending = None
    BY <1>0, <1>4, <1>5, <2>1, RejectFields
  <2>2. CASE reading.pending # None
    <3>1. /\ reading'.outcome = [o EXCEPT ![reading.pending] = "rejected"]
          /\ reading'.delivered = d /\ reading'.received = n
      BY <1>0, <1>5, <2>2, RejectFields
    <3>2. reading.pending \in Reads /\ o[reading.pending] = "pending"
      BY <1>0, <2>2 DEF PendingMarked
    <3> QED
      BY <1>s, <3>1, <3>2
  <2> QED
    BY <2>1, <2>2
<1>6. CASE socket.stage = "up" /\ reading' = Deliver(Received, Chunk)
  <2>1. CASE reading.pending = None
    <3>1. reading'.outcome = o /\ reading'.delivered = d /\ reading'.received = n + 1
      <4>1. reading' = [buffer |-> Append(Received.buffer, Chunk), pending |-> Received.pending,
                        received |-> Received.received, outcome |-> Received.outcome,
                        delivered |-> Received.delivered]
        BY <1>2, <1>6, <2>1, DeliverFields
      <4> QED
        BY <1>2, <4>1
    <3> QED
      BY <1>s, <3>1
  <2>2. CASE reading.pending # None
    <3>1. /\ reading'.outcome = [o EXCEPT ![reading.pending] = "resolved"]
          /\ reading'.delivered = Append(d, n + 1) /\ reading'.received = n + 1
      <4>1. reading' = [buffer |-> Received.buffer, pending |-> None,
                        received |-> Received.received,
                        outcome |-> [Received.outcome EXCEPT ![Received.pending] = "resolved"],
                        delivered |-> Append(Received.delivered, Chunk)]
        BY <1>2, <1>6, <2>2, DeliverFields
      <4> QED
        BY <1>0, <1>2, <4>1
    <3>2. /\ reading.pending \in Reads /\ o[reading.pending] = "pending"
          /\ Len(d) = n /\ n < n + 1
      BY <1>0, <1>1, <2>2 DEF PendingMarked
    <3> QED
      BY <1>3, <1>6, <1>s, <3>1, <3>2
  <2> QED
    BY <2>1, <2>2
<1>7. ASSUME NEW r \in Reads, MayRead(r), reading' = TakeRead(reading, r)
      PROVE  Abstract!Reading
  <2>0. o[r] = "none" /\ life.state = "open"
    BY <1>7 DEF MayRead
  <2>1. CASE reading.buffer = <<>>
    <3>1. /\ reading'.outcome = [o EXCEPT ![r] = "pending"]
          /\ reading'.delivered = d /\ reading'.received = n
      BY <1>0, <1>7, <2>1, TakeReadFields
    <3> QED
      BY <1>s, <2>0, <3>1
  <2>2. CASE reading.buffer # <<>>
    <3>1. /\ reading'.outcome = [o EXCEPT ![r] = "resolved"]
          /\ reading'.delivered = Append(d, Len(d) + 1) /\ reading'.received = n
      <4>1. /\ reading'.outcome = [o EXCEPT ![r] = "resolved"]
            /\ reading'.delivered = Append(d, Head(reading.buffer)) /\ reading'.received = n
        <5>1. reading' =
                [buffer |-> Tail(reading.buffer), pending |-> reading.pending,
                 received |-> n, outcome |-> [o EXCEPT ![r] = "resolved"],
                 delivered |-> Append(d, Head(reading.buffer))]
          BY <1>0, <1>7, <2>2, TakeReadFields, Zenon
        <5> QED
          BY <5>1
      <4>2. Head(reading.buffer) = Len(d) + 1
        BY <1>1, <2>2
      <4> QED
        BY <4>1, <4>2, Zenon
    <3> QED
      BY <1>1, <1>s, <2>0, <2>2, <3>1
  <2> QED
    BY <2>1, <2>2
<1>8. ASSUME NEW r \in Reads, MayRead(r), reading' = Deliver(TakeRead(Received, r), Chunk)
      PROVE  Abstract!Reading
  <2> DEFINE t == TakeRead(Received, r)
  <2>0. o[r] = "none" /\ life.state = "open" /\ t \in Readings
    BY <1>2, <1>8, TakeReadType DEF MayRead
  <2>1. CASE reading.buffer = <<>>
    <3>1. /\ t.pending = r /\ t.received = n + 1 /\ t.delivered = d
          /\ t.outcome = [o EXCEPT ![r] = "pending"]
      BY <1>2, <2>1, TakeReadFields
    <3> HIDE DEF t
    <3>2. r # None
      BY SessionAssumption
    <3>3. /\ reading'.outcome = [t.outcome EXCEPT ![r] = "resolved"]
          /\ reading'.delivered = Append(d, n + 1) /\ reading'.received = n + 1
      <4>1. t \in Readings /\ reading' = Deliver(t, Chunk) /\ Chunk = n + 1
        BY <1>0, <1>8, <2>0 DEF t
      <4>2. /\ reading'.outcome = [t.outcome EXCEPT ![t.pending] = "resolved"]
            /\ reading'.delivered = Append(t.delivered, Chunk)
            /\ reading'.received = t.received
        BY <3>1, <3>2, <4>1, DeliverFields
      <4> QED
        BY <3>1, <4>1, <4>2
    <3>4. [t.outcome EXCEPT ![r] = "resolved"] = [o EXCEPT ![r] = "resolved"]
      BY <1>0, <3>1, ReadingFields
    <3>5. Len(d) = n /\ n < n + 1
      BY <1>0, <1>1, <2>1
    <3> QED
      BY <1>s, <2>0, <3>3, <3>4, <3>5
  <2>2. CASE reading.buffer # <<>>
    <3>1. /\ t.pending = None /\ t.received = n + 1 /\ t.delivered = Append(d, Len(d) + 1)
          /\ t.outcome = [o EXCEPT ![r] = "resolved"]
      <4>1. /\ t.pending = reading.pending /\ t.received = n + 1
            /\ t.delivered = Append(d, Head(reading.buffer))
            /\ t.outcome = [o EXCEPT ![r] = "resolved"]
        BY <1>2, <2>2, TakeReadFields
      <4>2. Head(reading.buffer) = Len(d) + 1 /\ reading.pending = None
        BY <1>0, <1>1, <2>2
      <4> HIDE DEF t
      <4> QED
        BY <4>1, <4>2, Zenon
    <3> HIDE DEF t
    <3>2. /\ reading'.outcome = t.outcome /\ reading'.delivered = t.delivered
          /\ reading'.received = t.received
      BY <1>8, <2>0, <3>1, DeliverFields DEF t
    <3>3. Len(d) < n + 1
      BY <1>0, <1>1, <2>2
    <3> QED
      BY <1>s, <2>0, <3>1, <3>2, <3>3
  <2> QED
    BY <2>1, <2>2
<1>9. ASSUME NEW r \in Reads, MayRead(r), reading' = RejectPendingRead(TakeRead(reading, r))
      PROVE  Abstract!Reading
  <2> DEFINE t == TakeRead(reading, r)
  <2>0. o[r] = "none" /\ life.state = "open" /\ t \in Readings
    BY <1>0, <1>9, TakeReadType DEF MayRead
  <2>1. CASE reading.buffer = <<>>
    <3>1. /\ t.pending = r /\ t.received = n /\ t.delivered = d
          /\ t.outcome = [o EXCEPT ![r] = "pending"]
      BY <1>0, <2>1, TakeReadFields
    <3> HIDE DEF t
    <3>2. r # None
      BY SessionAssumption
    <3>3. /\ reading'.outcome = [t.outcome EXCEPT ![r] = "rejected"]
          /\ reading'.delivered = d /\ reading'.received = n
      BY <1>9, <2>0, <3>1, <3>2, RejectFields DEF t
    <3>4. [t.outcome EXCEPT ![r] = "rejected"] = [o EXCEPT ![r] = "rejected"]
      BY <1>0, <3>1, ReadingFields
    <3> QED
      BY <1>s, <2>0, <3>3, <3>4
  <2>2. CASE reading.buffer # <<>>
    <3>1. t.pending = None
      BY <1>0, <2>2, TakeReadFields
    <3>2. reading' = TakeRead(reading, r)
      BY <1>9, <2>0, <3>1, RejectFields
    <3> QED
      BY <1>7, <1>9, <3>2
  <2> QED
    BY <2>1, <2>2
<1> QED
  BY <1>4, <1>5, <1>6, <1>7, <1>8, <1>9, ReadingCalls

-----------------------------------------------------------------------------
(* Writing.                                                                *)

LEMMA OutcomeTurns ==
  ASSUME TypeOK, [Next]_vars
  PROVE  \/ write' = write
         \/ \E w \in Writers :
              \/ life.state = "open" /\ write[w] = "none"
                 /\ write' \in {[write EXCEPT ![w] = o] : o \in {"flushing", "blocked"}}
              \/ write[w] \in {"flushing", "blocked"}
                 /\ write' \in {[write EXCEPT ![w] = o] : o \in {"resolved", "rejected"}}
<1>0. /\ write \in [Writers -> {"none", "flushing", "blocked", "resolved", "rejected"}]
      /\ socket \in Sockets /\ Queue!TypeOK
  BY DEF TypeOK
<1>1. ASSUME NEW w \in Writers, NEW below \in BOOLEAN, Write(w, below) \/ WriteRefused(w)
      PROVE  /\ life.state = "open" /\ write[w] = "none"
             /\ \E o \in {"flushing", "blocked"} : write' = [write EXCEPT ![w] = o]
  BY <1>1 DEF Write, WriteRefused, MayWrite
<1>2. ASSUME NEW w \in Writers, NEW o, write' = [write EXCEPT ![w] = o], o = write[w]
      PROVE  write' = write
  BY <1>0, <1>2
<1>3. ASSUME Flush
      PROVE  \/ write' = write
             \/ \E w \in Writers : write[w] = "flushing" /\ write' = [write EXCEPT ![w] = "resolved"]
  <2>1. Head(socket.unflushed) \in Writers
    BY <1>0, <1>3 DEF Flush, Sockets
  <2>2. write' = [write EXCEPT ![Head(socket.unflushed)] = Flushed(Head(socket.unflushed))]
    BY <1>3 DEF Flush
  <2> QED
    BY <1>2, <2>1, <2>2 DEF Flushed
<1>4. ASSUME NEW w \in Writers, FlushFails(w)
      PROVE  \/ write' = write
             \/ write[w] \in {"flushing", "blocked"} /\ write' = [write EXCEPT ![w] = "rejected"]
  BY <1>0, <1>2, <1>4 DEF FlushFails
<1>5. ASSUME NEW w \in Writers, DrainAwaited(w)
      PROVE  \/ write' = write
             \/ write[w] = "blocked" /\ \E o \in {"resolved", "rejected"} :
                                          write' = [write EXCEPT ![w] = o]
  <2>1. promise'[w] \in {"resolved", "rejected"}
    BY <1>0, <1>5 DEF DrainAwaited, Queue!SettleNext, Queue!TypeOK
  <2>2. write' = [write EXCEPT ![w] = IF write[w] = "blocked" THEN promise'[w] ELSE write[w]]
    BY <1>5 DEF DrainAwaited
  <2> QED
    BY <1>2, <2>1, <2>2
<1>6. \/ write' = write \/ Flush
      \/ \E w \in Writers : \/ \E below \in BOOLEAN : Write(w, below)
                            \/ WriteRefused(w) \/ FlushFails(w) \/ DrainAwaited(w)
  BY DEF Next, SocketEvent, Timeout, Job, Call, vars, OnData, OnDataReading, OnEnd, OnEndReading,
         OnError, OnClose, SocketFails, SocketFinishes, DrainArmed, Read, OnReadTimeout,
         ClientClose, OnIdleTimeout
<1> QED
  BY <1>1, <1>3, <1>4, <1>5, <1>6

LEMMA WritingRefined ==
  ASSUME TypeOK, [Next]_vars
  PROVE  Abstract!Writing
<1> DEFINE Kind(o) == IF o \in {"flushing", "blocked"} THEN "pending" ELSE o
<1>0. write \in [Writers -> {"none", "flushing", "blocked", "resolved", "rejected"}]
  BY DEF TypeOK
<1>1. WriteOutcome = [w \in Writers |-> Kind(write[w])]
      /\ WriteOutcome' = [w \in Writers |-> Kind(write'[w])]
  BY DEF WriteOutcome
<1>2. ASSUME NEW w \in Writers, NEW o, write' = [write EXCEPT ![w] = o]
      PROVE  WriteOutcome' = [WriteOutcome EXCEPT ![w] = Kind(o)]
  BY <1>0, <1>1, <1>2
<1>3. CASE write' = write
  BY <1>1, <1>3 DEF Abstract!Writing
<1>4. ASSUME NEW w \in Writers, NEW o \in {"flushing", "blocked"}, life.state = "open",
             write[w] = "none", write' = [write EXCEPT ![w] = o]
      PROVE  Abstract!Writing
  <2>1. WriteOutcome' = [WriteOutcome EXCEPT ![w] = "pending"]
    BY <1>2, <1>4
  <2>2. WriteOutcome[w] = "none"
    BY <1>1, <1>4
  <2> QED
    BY <1>4, <2>1, <2>2 DEF Abstract!Writing, Abstract!WriteBegins, Abstract!Begins
<1>5. ASSUME NEW w \in Writers, NEW o \in {"resolved", "rejected"},
             write[w] \in {"flushing", "blocked"}, write' = [write EXCEPT ![w] = o]
      PROVE  Abstract!Writing
  <2>1. WriteOutcome' = [WriteOutcome EXCEPT ![w] = o]
    BY <1>2, <1>5
  <2>2. WriteOutcome[w] = "pending"
    BY <1>1, <1>5
  <2> QED
    BY <2>1, <2>2 DEF Abstract!Writing, Abstract!WriteSettles
<1> QED
  BY <1>3, <1>4, <1>5, OutcomeTurns

-----------------------------------------------------------------------------
RefinementInv == SessionInv /\ PendingMarked(reading) /\ life.state # "connecting"

LEMMA RefinementStep == RefinementInv /\ [Next]_vars => RefinementInv'
<1> SUFFICES ASSUME RefinementInv, [Next]_vars PROVE RefinementInv'
  OBVIOUS
<1>1. SessionInv'
  BY TypeStep, ReadStep, TimerStep, LifeStep
  DEF RefinementInv, SessionInv, ReadInv, InOrder, WaitsAlone
<1>2. PendingMarked(reading')
  BY MarkedStep DEF RefinementInv, SessionInv
<1>3. life'.state # "connecting"
  BY LifecycleRefined DEF Moves, RefinementInv, SessionInv
<1> QED
  BY <1>1, <1>2, <1>3 DEF RefinementInv, PendingMarked

LEMMA RefinementInit == Init => RefinementInv /\ Abstract!Init
<1>1. Init => RefinementInv
  BY InitType, ReadInit, TimerInit, LifeInit
  DEF RefinementInv, SessionInv, PendingMarked, Init
<1>2. Init => Abstract!Init
  BY DEF Init, Abstract!Init, WriteOutcome
<1> QED
  BY <1>1, <1>2

LEMMA TransportStep == RefinementInv /\ [Next]_vars => [Abstract!Next]_(Abstract!vars)
  BY LifecycleRefined, MovesRefine, ReadingRefined, WritingRefined
  DEF RefinementInv, SessionInv, Abstract!Next

(* A session is a Transport (types.ts): for any number of reads and        *)
(* writes, any listeners, timeouts and failures, the lifecycle takes no    *)
(* turn the interface does not name, reads get the stream chunk by chunk   *)
(* and only before "closed", and no promise is settled twice.              *)
THEOREM SessionIsTransport == Spec => ImplementsTransport
  BY RefinementInit, TransportStep, RefinementStep, PTL
  DEF Spec, ImplementsTransport, Abstract!Spec

(* The interface as the proofs about it have it. *)
Interface == INSTANCE TransportProofs
  WITH state <- life.state, reason <- life.reason, closing <- life.closing,
       arrived <- reading.received, taken <- reading.delivered,
       reads <- reading.outcome, writes <- WriteOutcome

LEMMA SameInterface ==
  /\ Abstract!Init <=> Interface!Init
  /\ [Abstract!Next]_(Abstract!vars) <=> [Interface!Next]_(Interface!vars)
  /\ Interface!StreamSound /\ Interface!LifecycleSound <=>
       Abstract!StreamSound /\ Abstract!LifecycleSound
  /\ [Interface!Final]_(Interface!vars) <=> [Abstract!Final]_(Abstract!vars)
<1>1. Abstract!Init <=> Interface!Init
  BY DEF Abstract!Init, Interface!Init
<1>2. [Abstract!Next]_(Abstract!vars) <=> [Interface!Next]_(Interface!vars)
  BY DEF Abstract!Reasons, Abstract!vars, Abstract!Open, Abstract!BeginClose, Abstract!Closed,
         Abstract!CloseLate, Abstract!Lifecycle, Abstract!Begins, Abstract!Waits,
         Abstract!ReadGets, Abstract!ReadFails, Abstract!ReadWaits, Abstract!Reading,
         Abstract!WriteBegins, Abstract!WriteSettles, Abstract!Writing, Abstract!Next,
         Interface!Reasons, Interface!vars, Interface!Open, Interface!BeginClose,
         Interface!Closed, Interface!CloseLate, Interface!Lifecycle, Interface!Begins,
         Interface!Waits, Interface!ReadGets, Interface!ReadFails, Interface!ReadWaits,
         Interface!Reading, Interface!WriteBegins, Interface!WriteSettles,
         Interface!Writing, Interface!Next
<1>3. Interface!StreamSound <=> Abstract!StreamSound
  BY DEF Interface!StreamSound, Abstract!StreamSound, Interface!Resolved, Abstract!Resolved,
         Interface!Cardinality, Abstract!Cardinality
<1>4. Interface!LifecycleSound <=> Abstract!LifecycleSound
  BY DEF Interface!LifecycleSound, Abstract!LifecycleSound, Interface!Reasons, Abstract!Reasons
<1>5. Interface!Final <=> Abstract!Final
  BY DEF Interface!Final, Abstract!Final, Interface!Resolved, Abstract!Resolved,
         Interface!Over, Abstract!Over
<1>6. UNCHANGED Interface!vars <=> UNCHANGED Abstract!vars
  BY DEF Interface!vars, Abstract!vars
<1> QED
  BY <1>1, <1>2, <1>3, <1>4, <1>5, <1>6

(* So the chunks a session delivers are a prefix of those it received,     *)
(* each to a read of its own, a closed session has a reason, and no        *)
(* promise is settled twice or read resolved after "closed", whatever      *)
(* listeners, timers and failures do (transport.ts, against types.ts).     *)
THEOREM SessionKeepsInterface ==
  Spec => /\ [](Abstract!StreamSound /\ Abstract!LifecycleSound)
          /\ Abstract!EndsAreFinal
<1>1. Init => Interface!IInv
  BY RefinementInit, SameInterface, Interface!InitSound
<1>2. RefinementInv /\ Interface!IInv /\ [Next]_vars =>
        RefinementInv' /\ Interface!IInv' /\ [Abstract!Final]_(Abstract!vars)
  BY RefinementStep, TransportStep, SameInterface, Interface!StepSound
<1>3. Interface!IInv => Abstract!StreamSound /\ Abstract!LifecycleSound
  BY SameInterface DEF Interface!IInv
<1> QED
  BY <1>1, <1>2, <1>3, RefinementInit, PTL DEF Spec, Abstract!EndsAreFinal
=============================================================================
