-------------------------- MODULE TransportSession --------------------------
(***************************************************************************)
(* The session of a connected TcpTransport (src/src/transport.ts): the     *)
(* socket handlers wired by _openSocket, the two timer callbacks wired by  *)
(* _establish, and read(), write() and close() of the application.         *)
(*                                                                         *)
(* One action is one turn of JavaScript: a handler with every call it      *)
(* makes, the listeners it runs synchronously included.  The parts of the  *)
(* state a turn goes through in several calls are records, and the calls   *)
(* functions on them, composed in the order of the code.  The promise jobs *)
(* of the backpressure queue are turns of their own, taken from DrainQueue.*)
(***************************************************************************)
EXTENDS Naturals, Sequences

CONSTANTS
  Writers,          \* the write() calls of the application
  Reads,            \* its read() calls
  None,             \* undefined
  IdleEnabled,      \* idleTimeoutMs is set
  ReadEnabled,      \* readTimeoutMs is set
  MaxChunks,        \* bound: chunks the peer sends
  DataReactions,    \* what a "data" or "end" listener calls: "nothing", "read",
                    \*   "close"
  ErrorReactions,   \* what an "error" listener calls: "nothing", "close",
                    \*   or "absent" when no listener is registered
  OverlappingReads, \* read() is called while another read is pending
  OverlappingWrites,\* write() is called while another write is pending
  EarlySocketEvents \* socket events may overtake queued promise jobs, as they do
                    \*   in Node; FALSE leaves those behaviours out of a run

Reasons == {"client_close", "remote_close", "error", "timeout"}

ASSUME SessionAssumption ==
  /\ None \notin Writers \cup Reads \cup Reasons
  /\ IdleEnabled \in BOOLEAN /\ ReadEnabled \in BOOLEAN
  /\ MaxChunks \in Nat
  /\ DataReactions \subseteq {"nothing", "read", "close"}
  /\ ErrorReactions \subseteq {"nothing", "close", "absent"}

VARIABLES
  life,      \* _state, its reason, and the reason of a close() under way
  reading,   \* readBuffer, pendingRead, and what each read() came to
  timers,    \* the record of TransportTimers
  chain, prev, waiter, promise, calls,  \* the variables of DrainQueue
  write,     \* what each write() came to
  socket     \* the net.Socket and its write buffer

queueVars == <<chain, prev, waiter, promise, calls>>
vars == <<life, reading, timers, queueVars, write, socket>>

Queue  == INSTANCE DrainQueue
Timers == INSTANCE TransportTimers

(* The connect handler has just run: the transport is open, the idle timer *)
(* is set.                                                                 *)
Init ==
  /\ life = [state |-> "open", reason |-> None, closing |-> None]
  /\ reading = [buffer |-> <<>>, pending |-> None, received |-> 0,
                outcome |-> [r \in Reads |-> "none"], delivered |-> <<>>]
  /\ timers = Timers!ResetIdle(Timers!NoTimers)
  /\ Queue!Init
  /\ write = [w \in Writers |-> "none"]
  /\ socket = [stage |-> "up", ended |-> FALSE, unflushed |-> <<>>,
               aborted |-> {}, needDrain |-> FALSE]

-----------------------------------------------------------------------------
(* Turns of the event loop.  Promise jobs run before the next task: a      *)
(* timer, or the "close" that a handle reports once it is closed.  Other   *)
(* socket events may overtake them: a write the kernel takes at once emits *)
(* "drain" from a nextTick, and ticks go before promise jobs.              *)

JobsPending == \E w \in Writers : Queue!JobEnabled(w)
TaskTurn    == ~ JobsPending
SocketTurn  == EarlySocketEvents \/ ~ JobsPending

-----------------------------------------------------------------------------
(* The lifecycle, a record l.                                              *)

Transition(l, state, reason) == [l EXCEPT !.state = state, !.reason = reason]

(* Mutation: the reason passed to close() is not recorded. *)
CloseAsClient(l, reason) ==
  IF l.state # "open" THEN l
  ELSE IF socket.stage = "up" THEN [l EXCEPT !.state = "closing", !.closing = "client_close"]
  ELSE Transition(l, "closed", "client_close")

(* close(reason).  On a live socket it registers once("close") and calls   *)
(* socket.end(); `closing' is the reason that callback will record.        *)
Close(l, reason) ==
  IF l.state # "open" THEN l
  ELSE IF socket.stage = "up" THEN [l EXCEPT !.state = "closing", !.closing = reason]
  ELSE Transition(l, "closed", reason)

ListenerCloses(l, reaction) == IF reaction = "close" THEN Close(l, "client_close") ELSE l

(* The error handler keeps the reason of a transport already closed. *)
FailIfNotClosed(l) ==
  IF l.state # "closed" THEN Transition(l, "closed", "error") ELSE l

(* Mutation: the test on the state is left out. *)
UnexpectedCloseAlways(l, hadError) ==
  Transition(l, "closed", IF hadError THEN "error" ELSE "remote_close")

UnexpectedClose(l, hadError) ==
  IF l.state \in {"open", "connecting"}
  THEN Transition(l, "closed", IF hadError THEN "error" ELSE "remote_close")
  ELSE l

(* Mutation: the callback does not transition. *)
FinishCloseSilently(l) == [l EXCEPT !.closing = None]

(* The callback close() registered, which runs after the handler. *)
FinishClose(l) ==
  IF l.closing = None THEN l
  ELSE [Transition(l, "closed", l.closing) EXCEPT !.closing = None]

-----------------------------------------------------------------------------
(* Reads, a record s.  Chunks are numbered in the order of arrival.        *)

(* Mutation: the newest chunk is taken first. *)
TakeReadLast(s, r) ==
  IF s.buffer # <<>>
  THEN [s EXCEPT !.buffer = SubSeq(@, 1, Len(@) - 1), !.outcome = [@ EXCEPT ![r] = "resolved"],
                 !.delivered = Append(@, s.buffer[Len(s.buffer)])]
  ELSE [s EXCEPT !.pending = r, !.outcome = [@ EXCEPT ![r] = "pending"]]

(* read(): shift the buffer, or become the pending read. *)
TakeRead(s, r) ==
  IF s.buffer # <<>>
  THEN [s EXCEPT !.buffer = Tail(@), !.outcome = [@ EXCEPT ![r] = "resolved"],
                 !.delivered = Append(@, Head(s.buffer))]
  ELSE [s EXCEPT !.pending = r, !.outcome = [@ EXCEPT ![r] = "pending"]]

(* Mutation: the pending read is not looked at. *)
DeliverToBuffer(s, chunk) == [s EXCEPT !.buffer = Append(@, chunk)]

(* Mutation: pendingRead is not emptied, the next chunk resolves it again. *)
DeliverKeepingPending(s, chunk) ==
  IF s.pending # None
  THEN [s EXCEPT !.outcome = [@ EXCEPT ![s.pending] = "resolved"], !.delivered = Append(@, chunk)]
  ELSE [s EXCEPT !.buffer = Append(@, chunk)]

(* The data handler: the pending read gets the chunk, else the buffer. *)
Deliver(s, chunk) ==
  IF s.pending # None
  THEN [s EXCEPT !.pending = None, !.outcome = [@ EXCEPT ![s.pending] = "resolved"],
                 !.delivered = Append(@, chunk)]
  ELSE [s EXCEPT !.buffer = Append(@, chunk)]

(* Mutation: nothing is rejected. *)
RejectNothing(s) == s

RejectPendingRead(s) ==
  IF s.pending # None
  THEN [s EXCEPT !.pending = None, !.outcome = [@ EXCEPT ![s.pending] = "rejected"]]
  ELSE s

(* Mutation: read() sets no timer. *)
TimeNoRead(t, s, r) == t

(* resetRead() is called only by a read that has to wait. *)
TimeRead(t, s, r) == IF s.buffer = <<>> THEN Timers!ResetRead(t, r) ELSE t

(* ensureOpen, and what the application allows itself. *)
MayRead(r) == /\ life.state = "open"
              /\ reading.outcome[r] = "none"
              /\ OverlappingReads \/ reading.pending = None

-----------------------------------------------------------------------------
(* The socket (Node's net.Socket, or an adapter that behaves like it).     *)
(* stage: up; failing, failed: destroyed by an error, before and after     *)
(* "error" (some adapters emit "close" only); finishing: destroyed after   *)
(* both sides ended; gone: "close" was emitted.  aborted: writes whose     *)
(* callback is owed an error.                                              *)

Contents(q) == {q[i] : i \in DOMAIN q}
InFlight(s) == IF s.unflushed = <<>> THEN <<>> ELSE <<Head(s.unflushed)>>

(* The socket is destroyed with an error.  Buffered writes are aborted; the *)
(* one in flight, at the head, may still be reported as flushed.            *)
Destroyed(s) ==
  {[s EXCEPT !.stage = "failing", !.unflushed = kept,
             !.aborted = @ \cup (Contents(s.unflushed) \ Contents(kept))] :
     kept \in {<<>>, InFlight(s)}}

SocketFails == /\ SocketTurn
               /\ socket.stage = "up"
               /\ socket' \in Destroyed(socket)
               /\ UNCHANGED <<life, reading, timers, queueVars, write>>

(* Both sides have ended (the socket ends its own once the peer has) and   *)
(* all is flushed.                                                         *)
SocketFinishes == /\ SocketTurn
                  /\ socket.stage = "up" /\ socket.ended /\ socket.unflushed = <<>>
                  /\ socket' = [socket EXCEPT !.stage = "finishing"]
                  /\ UNCHANGED <<life, reading, timers, queueVars, write>>

-----------------------------------------------------------------------------
(* Socket handlers.                                                        *)

CanDeliver == /\ SocketTurn
              /\ socket.stage = "up" /\ ~ socket.ended
              /\ reading.received < MaxChunks

Chunk     == reading.received + 1
Received  == [reading EXCEPT !.received = Chunk]

(* Mutation: the idle timer is cleared and not set again. *)
DataTimersCleared == Timers!ClearAll(timers)

DataTimers == Timers!ClearRead(Timers!ResetIdle(timers))

(* "data": timers, then the listeners, then the pending read or the buffer. *)
OnData(reaction) ==
  /\ CanDeliver
  /\ timers' = DataTimers
  /\ life' = ListenerCloses(life, reaction)
  /\ reading' = Deliver(Received, Chunk)
  /\ UNCHANGED <<queueVars, write, socket>>

(* The listener calls read() before the handler looks at pendingRead. *)
OnDataReading(r) ==
  /\ CanDeliver
  /\ MayRead(r)
  /\ timers' = TimeRead(DataTimers, reading, r)
  /\ reading' = Deliver(TakeRead(Received, r), Chunk)
  /\ UNCHANGED <<life, queueVars, write, socket>>

PeerEnds == /\ SocketTurn
            /\ socket.stage = "up" /\ ~ socket.ended
            /\ socket' = [socket EXCEPT !.ended = TRUE]

(* "end": the listeners, then the pending read is rejected. *)
OnEnd(reaction) ==
  /\ PeerEnds
  /\ life' = ListenerCloses(life, reaction)
  /\ reading' = RejectPendingRead(reading)
  /\ UNCHANGED <<timers, queueVars, write>>

(* The listener calls read(): it gets what is buffered or is rejected. *)
OnEndReading(r) ==
  /\ PeerEnds
  /\ MayRead(r)
  /\ timers' = TimeRead(timers, reading, r)
  /\ reading' = RejectPendingRead(TakeRead(reading, r))
  /\ UNCHANGED <<life, queueVars, write>>

OnError(reaction) ==
  /\ SocketTurn
  /\ socket.stage = "failing"
  /\ socket' = [socket EXCEPT !.stage = "failed"]
  /\ life' = FailIfNotClosed(ListenerCloses(life, reaction))
  /\ reading' = RejectPendingRead(reading)
  /\ Queue!Reject
  /\ UNCHANGED <<timers, write>>

OnClose ==
  /\ TaskTurn
  /\ socket.stage \in {"failing", "failed", "finishing"}
  /\ socket' = [socket EXCEPT !.stage = "gone"]
  /\ timers' = Timers!ClearAll(timers)
  /\ life' = FinishClose(UnexpectedClose(life, socket.stage # "finishing"))
  /\ reading' = RejectPendingRead(reading)
  /\ Queue!Reject
  /\ UNCHANGED write

-----------------------------------------------------------------------------
(* Writes.                                                                 *)

Waiting == {w \in Writers : write[w] \in {"flushing", "blocked"}}

MayWrite(w) == /\ life.state = "open"
               /\ write[w] = "none"
               /\ OverlappingWrites \/ Waiting = {}

Refuses == socket.stage # "up" \/ socket.ended

(* write(): the socket takes the bytes; `below' is what socket.write       *)
(* returns, TRUE while its buffer is below the high-water mark.            *)
Write(w, below) ==
  /\ MayWrite(w)
  /\ ~ Refuses
  /\ socket' = [socket EXCEPT !.unflushed = Append(@, w), !.needDrain = @ \/ ~ below]
  /\ IF below
     THEN write' = [write EXCEPT ![w] = "flushing"] /\ UNCHANGED queueVars
     ELSE write' = [write EXCEPT ![w] = "blocked"] /\ Queue!AwaitDrain(w)
  /\ UNCHANGED <<life, reading, timers>>

(* write() on a socket that is destroyed, or that has ended and destroys   *)
(* itself: socket.write returns FALSE and owes the callback an error.      *)
WriteRefused(w) ==
  /\ MayWrite(w)
  /\ Refuses
  /\ \E s \in IF socket.stage = "up" THEN Destroyed(socket) ELSE {socket} :
       socket' = [s EXCEPT !.aborted = @ \cup {w}]
  /\ write' = [write EXCEPT ![w] = "blocked"]
  /\ Queue!AwaitDrain(w)
  /\ UNCHANGED <<life, reading, timers>>

(* The callback of socket.write without an error. *)
Flushed(w) == IF write[w] = "flushing" THEN "resolved" ELSE write[w]

(* The socket hands a write to the kernel.  When that empties a buffer     *)
(* that was full, "drain" comes first, unless the socket is ending.        *)
Flush ==
  /\ SocketTurn
  /\ socket.unflushed # <<>>
  /\ LET w == Head(socket.unflushed)
         drained == /\ socket.needDrain /\ Len(socket.unflushed) = 1
                    /\ socket.stage = "up" /\ ~ socket.ended /\ life.closing = None
     IN /\ socket' = [socket EXCEPT !.unflushed = Tail(@),
                                    !.needDrain = @ /\ ~ drained]
        /\ write' = [write EXCEPT ![w] = Flushed(w)]
        /\ IF drained THEN Queue!NotifyDrain ELSE UNCHANGED queueVars
  /\ UNCHANGED <<life, reading, timers>>

(* The callback of socket.write with an error. *)
FlushFails(w) ==
  /\ SocketTurn
  /\ w \in socket.aborted
  /\ socket' = [socket EXCEPT !.aborted = @ \ {w}]
  /\ write' = [write EXCEPT ![w] = IF @ \in {"flushing", "blocked"} THEN "rejected" ELSE @]
  /\ UNCHANGED <<life, reading, timers, queueVars>>

-----------------------------------------------------------------------------
(* Reads, close(), timers and promise jobs.                                *)

Read(r) == /\ MayRead(r)
           /\ reading' = TakeRead(reading, r)
           /\ timers' = TimeRead(timers, reading, r)
           /\ UNCHANGED <<life, queueVars, write, socket>>

ClientClose == /\ life' = Close(life, "client_close")
               /\ UNCHANGED <<reading, timers, queueVars, write, socket>>

(* Mutation: the callback emits the error and does not close. *)
IdleExpiresAndStays(l, reaction) == ListenerCloses(l, reaction)

(* emit("error") throws when nobody listens, and close() is not reached. *)
IdleExpires(l, reaction) ==
  IF reaction = "absent" THEN l ELSE Close(ListenerCloses(l, reaction), "timeout")

OnIdleTimeout(n, reaction) ==
  /\ TaskTurn
  /\ n \in timers.idleLive
  /\ timers' = Timers!IdleFires(timers, n)
  /\ life' = IdleExpires(life, reaction)
  /\ UNCHANGED <<reading, queueVars, write, socket>>

OnReadTimeout(r) ==
  /\ TaskTurn
  /\ r \in timers.readLive
  /\ timers' = Timers!ReadFires(timers, r)
  /\ reading' = RejectPendingRead(reading)
  /\ UNCHANGED <<life, queueVars, write, socket>>

DrainArmed(w) == Queue!ArmWaiter(w) /\ UNCHANGED <<life, reading, timers, write, socket>>

(* The handlers write() put on its awaitDrain() promise. *)
DrainAwaited(w) ==
  /\ Queue!SettleNext(w)
  /\ write' = [write EXCEPT ![w] = IF @ = "blocked" THEN promise'[w] ELSE @]
  /\ UNCHANGED <<life, reading, timers, socket>>

SocketEvent ==
  \/ \E reaction \in DataReactions \ {"read"} : OnData(reaction) \/ OnEnd(reaction)
  \/ "read" \in DataReactions /\ \E r \in Reads : OnDataReading(r) \/ OnEndReading(r)
  \/ \E reaction \in ErrorReactions : OnError(reaction)
  \/ OnClose
  \/ SocketFails
  \/ SocketFinishes
  \/ Flush
  \/ \E w \in Writers : FlushFails(w)

Timeout == \/ \E r \in Reads : OnReadTimeout(r)
           \/ \E n \in timers.idleLive, reaction \in ErrorReactions : OnIdleTimeout(n, reaction)

Job == \E w \in Writers : DrainArmed(w) \/ DrainAwaited(w)

Call == \/ \E w \in Writers : \/ \E below \in BOOLEAN : Write(w, below)
                              \/ WriteRefused(w)
        \/ \E r \in Reads : Read(r)
        \/ ClientClose

Next == SocketEvent \/ Timeout \/ Job \/ Call

Spec == Init /\ [][Next]_vars

(* What the event loop owes the session: promise jobs run, timers expire,  *)
(* a destroyed socket emits "error" and "close" and answers the callbacks  *)
(* it holds, a socket that ended on both sides finishes.  Nothing is owed  *)
(* by the peer, by the kernel (a full buffer may stay full) or by the      *)
(* application.                                                            *)
FairSpec ==
  /\ Spec
  /\ \A w \in Writers : /\ WF_vars(DrainArmed(w) \/ DrainAwaited(w))
                        /\ WF_vars(FlushFails(w))
  /\ WF_vars(\E reaction \in ErrorReactions : OnError(reaction))
  /\ WF_vars(OnClose)
  /\ WF_vars(SocketFinishes)
  /\ WF_vars(socket.stage # "up" /\ Flush)
  /\ \A r \in Reads : WF_vars(OnReadTimeout(r))
  /\ WF_vars(\E n \in timers.idleLive, reaction \in ErrorReactions : OnIdleTimeout(n, reaction))

-----------------------------------------------------------------------------
Lives == [state : {"connecting", "open", "closing", "closed"}, reason : Reasons \cup {None},
          closing : Reasons \cup {None}]

Readings == [buffer : Seq(Nat), pending : Reads \cup {None}, received : Nat,
             outcome : [Reads -> {"none", "pending", "resolved", "rejected"}],
             delivered : Seq(Nat)]

Sockets == [stage : {"up", "failing", "failed", "finishing", "gone"},
            ended : BOOLEAN, unflushed : Seq(Writers),
            aborted : SUBSET Writers, needDrain : BOOLEAN]

TypeOK == /\ life \in Lives
          /\ reading \in Readings
          /\ timers \in Timers!TimersOf(Reads)
          /\ Queue!TypeOK
          /\ write \in [Writers -> {"none", "flushing", "blocked", "resolved", "rejected"}]
          /\ socket \in Sockets

(* Every chunk reaches one read or is still buffered, and reads get the    *)
(* chunks in the order of arrival, whatever "data" listeners, timeouts and *)
(* closes come between (data handler and read()).                          *)
ChunksInOrder ==
  reading.delivered \o reading.buffer = [i \in 1 .. reading.received |-> i]

(* A read never waits while a chunk it could have is in the buffer. *)
NoReadWaitsOnBuffer == reading.pending # None => reading.buffer = <<>>

(* A pending read has its own timeout running and nobody else's: a late    *)
(* timeout of an earlier read cannot reject it, and it cannot go untimed.  *)
PendingReadIsTimed ==
  ReadEnabled /\ reading.pending # None => timers.readLive = {reading.pending}

(* No timeout is live that the handles of timers.ts do not refer to. *)
TimersAccounted == Timers!NoOrphanTimeout(timers)

(* While the transport is open the idle timer is running: a session that   *)
(* falls silent is always noticed.                                         *)
IdleArmedWhileOpen == IdleEnabled /\ life.state = "open" => timers.idleLive # {}

(* After "close" nothing of the session is left: no live timeout, no       *)
(* pending read, no close() waiting, and the state says so.                *)
QuietWhenGone ==
  socket.stage = "gone" => /\ life.state = "closed" /\ life.closing = None
                           /\ reading.pending = None
                           /\ timers.idleLive = {} /\ timers.readLive = {}

(* With one read at a time, every read has been answered by then. *)
ReadsAnsweredWhenGone ==
  socket.stage = "gone" => \A r \in Reads : reading.outcome[r] # "pending"

(* A transport in "closing" always has the once("close") callback that     *)
(* will take it to "closed" still to come; "closed" is never reported      *)
(* while the socket lives.                                                 *)
ClosingWillEnd ==
  /\ life.state = "closing" => life.closing # None /\ socket.stage # "gone"
  /\ life.state = "closed" => socket.stage # "up"

(* A closed transport stays closed, and the only thing that may still      *)
(* change its reason is the close() under way when it was closed.          *)
ClosedReasonKept ==
  [][life.state = "closed" =>
       life'.state = "closed" /\ life'.reason \in {life.reason, life.closing}]_life

(* The state is "closed" for good, its reason included (types.ts,          *)
(* TransportState: "closed" is terminal).                                  *)
ClosedIsFinal ==
  [][life.state = "closed" => life'.state = "closed" /\ life'.reason = life.reason]_life

(* An idle timeout that finds the transport open closes it for that reason *)
(* (errors.ts, IdleTimeoutError).                                          *)
IdleClosesWithTimeout ==
  [][(\E n \in timers.idleLive, reaction \in ErrorReactions : OnIdleTimeout(n, reaction))
       /\ life.state = "open" => "timeout" \in {life'.closing, life'.reason}]_vars

(* A write is resolved only when the socket holds neither its bytes nor an *)
(* error for it: write() reports what left the process, not what queued.   *)
ResolvedWritesLeft ==
  \A w \in Writers : write[w] = "resolved" =>
    w \notin Contents(socket.unflushed) \cup socket.aborted

(* When the socket owes nothing any more (all flushed and no drain due, or *)
(* gone) and no promise job is left, no write is still waiting (write():   *)
(* "the promise stays pending until the "drain" event fires").             *)
SocketOwesNothing == /\ socket.unflushed = <<>> /\ socket.aborted = {}
                     /\ \/ socket.stage = "up" /\ ~ socket.needDrain
                        \/ socket.stage = "gone"
NoStrandedWrite == SocketOwesNothing /\ ~ JobsPending => Waiting = {}

(* Somebody will still settle a blocked write: its callback is owed an     *)
(* error, its waiter was answered, or the waiter is or will be in place    *)
(* for a signal that is still to come.                                     *)
Owed(w) == \/ w \in socket.aborted
           \/ promise[w] \in Queue!Answered
           \/ /\ waiter = w \/ (promise[w] = "queued" /\ Queue!ChainSettled(w))
              /\ socket.stage # "gone"
              /\ socket.stage = "up" => socket.needDrain

Stranded(w)   == write[w] = "blocked" /\ ~ Owed(w)
EarlyDrain(w) == promise[w] = "queued" /\ socket.needDrain /\ ~ socket'.needDrain

(* With one write at a time, a "drain" that comes before the promise job   *)
(* that arms the waiter is the only thing that can strand a write: no      *)
(* flush callback, error, end, close, timeout or refused write can         *)
(* (write(), drain.ts).                                                    *)
StrandedOnlyByEarlyDrain ==
  [][\A w \in Writers : Stranded(w)' => Stranded(w) \/ EarlyDrain(w)]_vars

(* A close() whose socket has ended on both sides and is flushed resolves: *)
(* nothing but the peer and the kernel can hold up a close().              *)
CloseCompletes ==
  life.state = "closing" /\ socket.ended /\ socket.unflushed = <<>> ~> life.state = "closed"

(* Once its socket is destroyed a session settles everything it promised.  *)
Settles == socket.stage # "up" ~>
             /\ socket.stage = "gone" /\ life.state = "closed"
             /\ Waiting = {}
             /\ \A r \in Reads : reading.outcome[r] # "pending"

(* With a read timeout every read is answered, whatever the peer does. *)
ReadsAnswered ==
  ReadEnabled => \A r \in Reads : reading.outcome[r] = "pending" ~> reading.outcome[r] # "pending"

(* With an idle timeout a transport does not stay open for ever once the   *)
(* peer is silent.                                                         *)
IdleCloses == IdleEnabled => <>(life.state # "open")

(* The session implements the interface (types.ts, Transport): whatever    *)
(* listeners, timeouts and failures do, the lifecycle takes no other turn, *)
(* reads get the next chunk and only before "closed", and no promise is    *)
(* settled twice or begun on a transport that is not open.                 *)
WriteOutcome == [w \in Writers |-> IF write[w] \in {"flushing", "blocked"} THEN "pending"
                                   ELSE write[w]]

Abstract == INSTANCE Transport
  WITH state <- life.state, reason <- life.reason, closing <- life.closing,
       arrived <- reading.received, taken <- reading.delivered,
       reads <- reading.outcome, writes <- WriteOutcome

ImplementsTransport == Abstract!Spec
=============================================================================
