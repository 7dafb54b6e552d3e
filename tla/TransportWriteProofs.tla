------------------------ MODULE TransportWriteProofs ------------------------
(***************************************************************************)
(* What a session guarantees its writes, for any writers, any peer and any *)
(* socket that empties or aborts its buffer as Node's does.                *)
(*                                                                         *)
(* A write has two promises to wait for, the callback of socket.write and  *)
(* the queue's awaitDrain: the proofs relate what the socket still holds   *)
(* of a write to the stage of both.                                        *)
(***************************************************************************)
EXTENDS TransportSessionProofs

-----------------------------------------------------------------------------
(* The write buffer of the socket.                                         *)

Distinct(q) == \A i, j \in DOMAIN q : q[i] = q[j] => i = j

LEMMA ContentsFacts ==
  ASSUME NEW q \in Seq(Writers), Distinct(q), NEW w \in Writers
  PROVE  /\ Contents(Append(q, w)) = Contents(q) \cup {w}
         /\ w \notin Contents(q) => Distinct(Append(q, w))
         /\ Contents(<<>>) = {} /\ Distinct(<<>>)
         /\ Contents(<<w>>) = {w} /\ Distinct(<<w>>)
<1>1. /\ Len(Append(q, w)) = Len(q) + 1 /\ DOMAIN Append(q, w) = 1 .. Len(q) + 1
      /\ \A i \in 1 .. Len(q) : Append(q, w)[i] = q[i]
      /\ Append(q, w)[Len(q) + 1] = w /\ DOMAIN q = 1 .. Len(q) /\ Len(q) \in Nat
  OBVIOUS
<1>2. Contents(Append(q, w)) = Contents(q) \cup {w}
  BY <1>1 DEF Contents
<1>3. w \notin Contents(q) => Distinct(Append(q, w))
  BY <1>1 DEF Contents, Distinct
<1>4. Contents(<<>>) = {} /\ Distinct(<<>>) /\ Contents(<<w>>) = {w} /\ Distinct(<<w>>)
  BY DEF Contents, Distinct
<1> QED
  BY <1>2, <1>3, <1>4

LEMMA TailFacts ==
  ASSUME NEW q \in Seq(Writers), Distinct(q), q # <<>>
  PROVE  /\ Head(q) \in Contents(q) /\ Head(q) \in Writers
         /\ Contents(Tail(q)) = Contents(q) \ {Head(q)}
         /\ Distinct(Tail(q)) /\ Tail(q) \in Seq(Writers)
         /\ Len(q) = 1 => Contents(Tail(q)) = {}
<1>1. /\ Len(q) \in Nat /\ Len(q) >= 1 /\ DOMAIN q = 1 .. Len(q)
      /\ Tail(q) \in Seq(Writers) /\ Len(Tail(q)) = Len(q) - 1
      /\ DOMAIN Tail(q) = 1 .. Len(q) - 1 /\ Head(q) = q[1]
      /\ \A i \in 1 .. Len(q) - 1 : Tail(q)[i] = q[i + 1]
  OBVIOUS
<1>2. Head(q) \in Contents(q) /\ Head(q) \in Writers
  BY <1>1 DEF Contents
<1>3. Distinct(Tail(q))
  BY <1>1 DEF Distinct
<1>4. Contents(Tail(q)) = Contents(q) \ {Head(q)}
  <2>1. ASSUME NEW x \in Contents(Tail(q)) PROVE x \in Contents(q) \ {Head(q)}
    BY <1>1, <2>1 DEF Contents, Distinct
  <2>2. ASSUME NEW x \in Contents(q) \ {Head(q)} PROVE x \in Contents(Tail(q))
    <3>1. PICK i \in 1 .. Len(q) : x = q[i] /\ i # 1
      BY <1>1, <2>2 DEF Contents
    <3>2. i - 1 \in DOMAIN Tail(q) /\ Tail(q)[i - 1] = x
      BY <1>1, <3>1
    <3> QED
      BY <3>2 DEF Contents
  <2> QED
    BY <2>1, <2>2
<1>5. Len(q) = 1 => Contents(Tail(q)) = {}
  BY <1>1 DEF Contents
<1> QED
  BY <1>1, <1>2, <1>3, <1>4, <1>5

(* What the socket still holds: bytes, and errors for callbacks. *)
Held(s) == Contents(s.unflushed) \cup s.aborted

BufferOK(s) == /\ Distinct(s.unflushed)
               /\ Contents(s.unflushed) \cap s.aborted = {}
               /\ s.stage = "up" => s.aborted = {}

LEMMA BufferTakes ==
  ASSUME NEW s \in Sockets, BufferOK(s), NEW w \in Writers, w \notin Held(s), NEW full
  PROVE  LET t == [s EXCEPT !.unflushed = Append(@, w), !.needDrain = full]
         IN  BufferOK(t) /\ Held(t) = Held(s) \cup {w} /\ t.stage = s.stage
<1> DEFINE t == [s EXCEPT !.unflushed = Append(@, w), !.needDrain = full]
<1>1. /\ t.unflushed = Append(s.unflushed, w) /\ t.aborted = s.aborted
      /\ t.stage = s.stage /\ s.unflushed \in Seq(Writers)
  BY DEF Sockets
<1> HIDE DEF t
<1>2. Contents(t.unflushed) = Contents(s.unflushed) \cup {w} /\ Distinct(t.unflushed)
  BY <1>1, ContentsFacts DEF BufferOK, Held
<1>3. BufferOK(t) /\ Held(t) = Held(s) \cup {w} /\ t.stage = s.stage
  BY <1>1, <1>2 DEF BufferOK, Held
<1> QED
  BY <1>3 DEF t

LEMMA BufferGives ==
  ASSUME NEW s \in Sockets, BufferOK(s), s.unflushed # <<>>, NEW full
  PROVE  LET t == [s EXCEPT !.unflushed = Tail(@), !.needDrain = full]
         IN  /\ BufferOK(t) /\ Held(t) = Held(s) \ {Head(s.unflushed)}
             /\ t.stage = s.stage /\ t.aborted = s.aborted
             /\ s.stage = "up" /\ Len(s.unflushed) = 1 => Held(t) = {}
<1> DEFINE t == [s EXCEPT !.unflushed = Tail(@), !.needDrain = full]
<1>1. /\ t.unflushed = Tail(s.unflushed) /\ t.aborted = s.aborted
      /\ t.stage = s.stage /\ s.unflushed \in Seq(Writers)
  BY DEF Sockets
<1> HIDE DEF t
<1>2. /\ Contents(t.unflushed) = Contents(s.unflushed) \ {Head(s.unflushed)}
      /\ Distinct(t.unflushed) /\ Head(s.unflushed) \in Contents(s.unflushed)
      /\ Len(s.unflushed) = 1 => Contents(t.unflushed) = {}
  BY <1>1, TailFacts DEF BufferOK
<1>3. /\ BufferOK(t) /\ Held(t) = Held(s) \ {Head(s.unflushed)}
      /\ t.stage = s.stage /\ t.aborted = s.aborted
      /\ s.stage = "up" /\ Len(s.unflushed) = 1 => Held(t) = {}
  BY <1>1, <1>2 DEF BufferOK, Held
<1> QED
  BY <1>3 DEF t

LEMMA BufferDestroyed ==
  ASSUME NEW s \in Sockets, BufferOK(s), NEW d \in Destroyed(s)
  PROVE  BufferOK(d) /\ Held(d) = Held(s) /\ d.stage = "failing"
<1>1. PICK kept \in {<<>>, InFlight(s)} :
        d = [s EXCEPT !.stage = "failing", !.unflushed = kept,
                      !.aborted = @ \cup (Contents(s.unflushed) \ Contents(kept))]
  BY DEF Destroyed
<1>2. /\ d.stage = "failing" /\ d.unflushed = kept
      /\ d.aborted = s.aborted \cup (Contents(s.unflushed) \ Contents(kept))
  BY <1>1 DEF Sockets
<1>3. Distinct(kept) /\ Contents(kept) \subseteq Contents(s.unflushed)
  <2>1. Distinct(<<>>) /\ Contents(<<>>) = {}
    BY DEF Distinct, Contents
  <2>2. Distinct(InFlight(s)) /\ Contents(InFlight(s)) \subseteq Contents(s.unflushed)
    <3>1. CASE s.unflushed = <<>>
      BY <2>1, <3>1 DEF InFlight
    <3>2. CASE s.unflushed # <<>>
      <4>1. Head(s.unflushed) \in Contents(s.unflushed) /\ Head(s.unflushed) \in Writers
        BY <3>2, TailFacts DEF Sockets, BufferOK
      <4>2. /\ Distinct(<<Head(s.unflushed)>>)
            /\ Contents(<<Head(s.unflushed)>>) = {Head(s.unflushed)}
        BY DEF Distinct, Contents
      <4> QED
        BY <3>2, <4>1, <4>2 DEF InFlight
    <3> QED
      BY <3>1, <3>2
  <2> HIDE DEF InFlight
  <2> QED
    BY <1>1, <2>1, <2>2
<1> HIDE DEF Contents
<1> QED
  BY <1>2, <1>3 DEF BufferOK, Held

LEMMA BufferAborts ==
  ASSUME NEW s \in Sockets, BufferOK(s), NEW w \in Writers
  PROVE  /\ w \notin Held(s) /\ s.stage # "up" =>
              LET t == [s EXCEPT !.aborted = @ \cup {w}]
              IN  BufferOK(t) /\ Held(t) = Held(s) \cup {w} /\ t.stage = s.stage
         /\ w \in s.aborted =>
              LET t == [s EXCEPT !.aborted = @ \ {w}]
              IN  BufferOK(t) /\ Held(t) = Held(s) \ {w} /\ t.stage = s.stage
<1>1. ASSUME NEW set
      PROVE  LET t == [s EXCEPT !.aborted = set]
             IN  t.aborted = set /\ t.unflushed = s.unflushed /\ t.stage = s.stage
  BY DEF Sockets
<1> QED
  BY <1>1 DEF BufferOK, Held

-----------------------------------------------------------------------------
(* What each turn does to the socket, the queue and the writes.            *)

(* "error" and "close": the handlers that call the queue's reject. *)
Rejects(stage) == /\ stage = "gone" => TaskTurn
                  /\ socket.stage \notin {"up", "gone"} /\ stage \in {"failed", "gone"}
                  /\ socket' = [socket EXCEPT !.stage = stage]
                  /\ Queue!Reject
                  /\ UNCHANGED write

OtherTurn == UNCHANGED <<socket, queueVars, write>>

LEMMA WritingTurns ==
  ASSUME [Next]_vars
  PROVE  \/ OtherTurn
         \/ PeerEnds /\ UNCHANGED <<queueVars, write>>
         \/ Rejects("failed") \/ Rejects("gone")
         \/ SocketFails \/ SocketFinishes \/ Flush
         \/ \E w \in Writers : \/ \E below \in BOOLEAN : Write(w, below)
                               \/ WriteRefused(w) \/ FlushFails(w)
                               \/ DrainArmed(w) \/ DrainAwaited(w)
  BY DEF Next, SocketEvent, Timeout, Job, Call, vars, OnData, OnDataReading, OnEnd,
         OnEndReading, OnError, OnClose, Read, OnReadTimeout, ClientClose, OnIdleTimeout,
         OtherTurn, Rejects

LEMMA Answers ==
  ASSUME Queue!TypeOK, NEW answer, Queue!AnswerWaiter(answer)
  PROVE  /\ waiter' = None /\ UNCHANGED <<chain, prev>>
         /\ waiter = None => promise' = promise
         /\ waiter \in Writers =>
              /\ promise'[waiter] = answer
              /\ \A v \in Writers : v # waiter => promise'[v] = promise[v]
         /\ waiter \in Writers \cup {None}
  BY SessionAssumption DEF Queue!AnswerWaiter, Queue!TypeOK

-----------------------------------------------------------------------------
(* What the socket holds of a write, and the stage of its promises.        *)

WriteInv ==
  /\ BufferOK(socket)
  /\ \A w \in Writers : /\ write[w] = "none" => w \notin Held(socket) /\ promise[w] = "none"
                        /\ promise[w] \in {"released", "resolved"} => w \notin Held(socket)
                        /\ write[w] = "resolved" => w \notin Held(socket)
                        /\ waiter = w => promise[w] = "armed"

LEMMA WriteInit == Init => WriteInv
  BY SessionAssumption DEF Init, Queue!Init, WriteInv, BufferOK, Held, Contents, Distinct

LEMMA WriteStep ==
  ASSUME TypeOK, WriteInv, [Next]_vars
  PROVE  WriteInv'
<1> USE DEF WriteInv
<1>0. /\ socket \in Sockets /\ Queue!TypeOK /\ BufferOK(socket)
      /\ write \in [Writers -> {"none", "flushing", "blocked", "resolved", "rejected"}]
      /\ promise \in [Writers -> Queue!Stage]
      /\ None \notin Writers
  BY SessionAssumption DEF TypeOK, Queue!TypeOK
<1>1. CASE OtherTurn
  BY <1>1 DEF OtherTurn, queueVars
<1>2. CASE PeerEnds /\ UNCHANGED <<queueVars, write>>
  <2>1. BufferOK(socket') /\ Held(socket') = Held(socket)
    BY <1>0, <1>2 DEF PeerEnds, Sockets, BufferOK, Held
  <2> QED
    BY <1>2, <2>1 DEF queueVars
<1>3. ASSUME NEW stage, Rejects(stage) PROVE WriteInv'
  <2>1. BufferOK(socket') /\ Held(socket') = Held(socket)
    BY <1>0, <1>3 DEF Rejects, Sockets, BufferOK, Held
  <2>2. Queue!AnswerWaiter("refused") /\ UNCHANGED write
    BY <1>3 DEF Rejects, Queue!Reject
  <2>3. \A v \in Writers : /\ promise[v] = "none" => promise'[v] = "none"
                           /\ promise'[v] \in {"released", "resolved"} => promise'[v] = promise[v]
                           /\ waiter' # v
    BY <1>0, <2>2, Answers
  <2> QED
    BY <2>1, <2>2, <2>3
<1>4. CASE SocketFails
  <2>1. BufferOK(socket') /\ Held(socket') = Held(socket)
    BY <1>0, <1>4, BufferDestroyed DEF SocketFails
  <2> QED
    BY <1>4, <2>1 DEF SocketFails, queueVars
<1>5. CASE SocketFinishes
  <2>1. BufferOK(socket') /\ Held(socket') = Held(socket)
    BY <1>0, <1>5 DEF SocketFinishes, Sockets, BufferOK, Held
  <2> QED
    BY <1>5, <2>1 DEF SocketFinishes, queueVars
<1>6. CASE Flush
  <2> DEFINE u == Head(socket.unflushed)
             drained == /\ socket.needDrain /\ Len(socket.unflushed) = 1
                        /\ socket.stage = "up" /\ ~ socket.ended /\ life.closing = None
  <2>1. /\ socket.unflushed # <<>>
        /\ socket' = [socket EXCEPT !.unflushed = Tail(@), !.needDrain = @ /\ ~ drained]
        /\ write' = [write EXCEPT ![u] = Flushed(u)]
        /\ IF drained THEN Queue!NotifyDrain ELSE UNCHANGED queueVars
    BY <1>6 DEF Flush
  <2>2. /\ BufferOK(socket') /\ Held(socket') = Held(socket) \ {u}
        /\ drained => Held(socket') = {}
    BY <1>0, <2>1, BufferGives
  <2>3. u \in Writers /\ u \in Held(socket)
    BY <1>0, <2>1, TailFacts DEF Held, BufferOK, Sockets
  <2>4. \A v \in Writers : write'[v] = "none" => write[v] = "none"
    BY <1>0, <2>1 DEF Flushed
  <2>5. \A v \in Writers : write'[v] = "resolved" => write[v] = "resolved" \/ v = u
    BY <1>0, <2>1
  <2>6. \A v \in Writers : promise[v] = "none" => promise'[v] = "none"
    BY <1>0, <2>1, Answers DEF Queue!NotifyDrain, queueVars
  <2>7. IF drained THEN waiter' = None ELSE promise' = promise /\ waiter' = waiter
    BY <1>0, <2>1, Answers DEF Queue!NotifyDrain, queueVars
  <2> HIDE DEF u, drained
  <2> QED
    BY <1>0, <2>2, <2>3, <2>4, <2>5, <2>6, <2>7
<1>7. ASSUME NEW w \in Writers, NEW below \in BOOLEAN, Write(w, below) PROVE WriteInv'
  <2>1. w \notin Held(socket) /\ promise[w] = "none" /\ write[w] = "none"
    BY <1>7 DEF Write, MayWrite
  <2>2. BufferOK(socket') /\ Held(socket') = Held(socket) \cup {w}
    BY <1>0, <1>7, <2>1, BufferTakes DEF Write
  <2>3. /\ write'[w] \in {"flushing", "blocked"}
        /\ \A v \in Writers : v # w => write'[v] = write[v]
    BY <1>0, <1>7 DEF Write
  <2>4. /\ promise'[w] \in {"none", "queued"}
        /\ \A v \in Writers : v # w => promise'[v] = promise[v]
        /\ waiter' = waiter
    BY <1>0, <1>7, <2>1 DEF Write, Queue!AwaitDrain, queueVars
  <2> QED
    BY <2>1, <2>2, <2>3, <2>4
<1>8. ASSUME NEW w \in Writers, WriteRefused(w) PROVE WriteInv'
  <2>1. w \notin Held(socket) /\ promise[w] = "none" /\ write[w] = "none"
    BY <1>8 DEF WriteRefused, MayWrite
  <2>2. PICK s \in (IF socket.stage = "up" THEN Destroyed(socket) ELSE {socket}) :
          socket' = [s EXCEPT !.aborted = @ \cup {w}]
    BY <1>8 DEF WriteRefused
  <2>3. s \in Sockets /\ BufferOK(s) /\ Held(s) = Held(socket) /\ s.stage # "up"
    BY <1>0, <2>2, DestroyedType, BufferDestroyed
  <2>4. BufferOK(socket') /\ Held(socket') = Held(socket) \cup {w}
    BY <2>1, <2>2, <2>3, BufferAborts
  <2>5. /\ write'[w] = "blocked"
        /\ \A v \in Writers : v # w => write'[v] = write[v]
    BY <1>0, <1>8 DEF WriteRefused
  <2>6. /\ promise'[w] = "queued" /\ waiter' = waiter
        /\ \A v \in Writers : v # w => promise'[v] = promise[v]
    BY <1>0, <1>8, <2>1 DEF WriteRefused, Queue!AwaitDrain
  <2> QED
    BY <2>1, <2>4, <2>5, <2>6
<1>9. ASSUME NEW w \in Writers, FlushFails(w) PROVE WriteInv'
  <2>1. BufferOK(socket') /\ Held(socket') = Held(socket) \ {w}
    BY <1>0, <1>9, BufferAborts DEF FlushFails
  <2>2. \A v \in Writers : /\ write'[v] = "none" => write[v] = "none"
                           /\ write'[v] = "resolved" => write[v] = "resolved"
    BY <1>0, <1>9 DEF FlushFails
  <2> QED
    BY <1>9, <2>1, <2>2 DEF FlushFails, queueVars
<1>10. ASSUME NEW w \in Writers, DrainArmed(w) PROVE WriteInv'
  <2>1. \A v \in Writers : promise'[v] = IF v = w THEN "armed" ELSE promise[v]
    BY <1>0, <1>10 DEF DrainArmed, Queue!ArmWaiter
  <2>2. promise[w] = "queued" /\ waiter' = w /\ UNCHANGED <<socket, write>>
    BY <1>10 DEF DrainArmed, Queue!ArmWaiter
  <2> QED
    BY <2>1, <2>2
<1>11. ASSUME NEW w \in Writers, DrainAwaited(w) PROVE WriteInv'
  <2>1. /\ promise[w] \in Queue!Answered /\ UNCHANGED <<socket, waiter>>
        /\ promise'[w] = IF promise[w] = "released" THEN "resolved" ELSE "rejected"
        /\ \A v \in Writers : v # w => promise'[v] = promise[v] /\ write'[v] = write[v]
        /\ write'[w] = IF write[w] = "blocked" THEN promise'[w] ELSE write[w]
    BY <1>0, <1>11 DEF DrainAwaited, Queue!SettleNext
  <2> QED
    BY <2>1 DEF Queue!Answered
<1> QED
  BY <1>1, <1>2, <1>3, <1>4, <1>5, <1>6, <1>7, <1>8, <1>9, <1>10, <1>11, WritingTurns

(* The invariant behind the two theorems on writes.                        *)
THEOREM WriteInvariant == Spec => []WriteInv
<1>1. TypeOK /\ WriteInv /\ [Next]_vars => WriteInv'
  BY WriteStep
<1> QED
  BY <1>1, WriteInit, TypeCorrect, PTL DEF Spec

(* A write is resolved only after its bytes have left the process and when *)
(* the socket owes its callback no error: in particular a "drain" never    *)
(* resolves a write whose bytes are still queued (write(), drain handler). *)
THEOREM ResolvedWritesSent == Spec => []ResolvedWritesLeft
<1>1. WriteInv => ResolvedWritesLeft
  BY DEF WriteInv, Held, ResolvedWritesLeft
<1> QED
  BY <1>1, WriteInvariant, PTL

-----------------------------------------------------------------------------
(* One write at a time: what a blocked write is waiting for.               *)

Queued(w) == promise[w] = "queued" /\ Queue!ChainSettled(w)

(* Its error, its promise jobs, or a signal: Owed, but for the question    *)
(* whether the socket still owes the signal.                               *)
Coming(w) == (waiter = w \/ Queued(w)) /\ socket.stage # "gone"
Pends(w)  == w \in socket.aborted \/ promise[w] \in Queue!Answered \/ Coming(w)

LEMMA OwedIs ==
  \A w : Owed(w) <=> \/ w \in socket.aborted \/ promise[w] \in Queue!Answered
                     \/ Coming(w) /\ (socket.stage = "up" => socket.needDrain)
  BY DEF Owed, Coming, Queued

LEMMA OwedIsNext ==
  \A w : Owed(w)' <=> \/ w \in socket'.aborted \/ promise'[w] \in Queue!Answered
                      \/ Coming(w)' /\ (socket'.stage = "up" => socket'.needDrain)
  BY DEF Owed, Coming, Queued, Queue!ChainSettled

(* While the socket is up only blocked writes are in the queue, so the     *)
(* next write finds the chain settled.                                     *)
BlockedInv ==
  /\ \A w \in Writers : /\ write[w] = "flushing" => w \in Held(socket)
                        /\ write[w] = "blocked" => Pends(w)
                        /\ socket.stage = "up" /\ promise[w] \notin Queue!Settled \cup {"none"}
                             => write[w] = "blocked"
  /\ chain \in Writers => promise[chain] # "none"

(* What a turn may do to a write that is owed something. *)
Kept(w) == Stranded(w)' => Stranded(w) \/ EarlyDrain(w)

LEMMA BlockedInit == Init => BlockedInv
  BY SessionAssumption DEF Init, Queue!Init, BlockedInv

LEMMA BlockedStep ==
  ASSUME ~ OverlappingWrites, TypeOK, WriteInv,
         Queue!WaiterNeverLost, Queue!WaiterNeverLost', BlockedInv, [Next]_vars
  PROVE  BlockedInv' /\ \A w \in Writers : Kept(w)
<1> DEFINE Good == BlockedInv' /\ \A v \in Writers : Kept(v)
<1> USE DEF BlockedInv, Kept, Stranded
<1>0. /\ socket \in Sockets /\ Queue!TypeOK /\ BufferOK(socket)
      /\ write \in [Writers -> {"none", "flushing", "blocked", "resolved", "rejected"}]
      /\ promise \in [Writers -> Queue!Stage] /\ chain \in Writers \cup {None}
      /\ prev \in [Writers -> Writers \cup {None}] /\ None \notin Writers
      /\ waiter \in Writers \cup {None}
      /\ \A v \in Writers : waiter = v <=> promise[v] = "armed"
  BY SessionAssumption DEF TypeOK, Queue!TypeOK, Queue!WaiterNeverLost, WriteInv
<1>a. TaskTurn => \A v \in Writers : promise[v] \notin Queue!Answered /\ ~ Queued(v)
  BY DEF TaskTurn, JobsPending, Queue!JobEnabled, Queued
<1>1. CASE OtherTurn
  BY <1>1 DEF OtherTurn, queueVars, Pends, Owed, Coming, Queued, Queue!ChainSettled
<1>2. ASSUME PeerEnds \/ SocketFinishes \/ SocketFails, UNCHANGED <<queueVars, write>>
      PROVE  Good
  <2>1. /\ Held(socket') = Held(socket) /\ socket.stage = "up"
        /\ socket.aborted \subseteq socket'.aborted
        /\ \/ socket'.stage = "up" /\ socket'.needDrain = socket.needDrain
           \/ socket'.stage \in {"failing", "finishing"}
    <3>1. CASE PeerEnds
      BY <1>0, <3>1 DEF PeerEnds, Sockets, Held
    <3>2. CASE SocketFinishes
      BY <1>0, <3>2 DEF SocketFinishes, Sockets, Held
    <3>3. CASE SocketFails
      <4>1. Held(socket') = Held(socket) /\ socket'.stage = "failing"
        BY <1>0, <3>3, BufferDestroyed DEF SocketFails
      <4>2. socket.stage = "up" /\ socket.aborted = {}
        BY <1>0, <3>3 DEF SocketFails, BufferOK
      <4> QED
        BY <4>1, <4>2
    <3> QED
      BY <1>2, <3>1, <3>2, <3>3
  <2>2. \A v \in Writers : Coming(v) => Coming(v)'
    BY <1>2, <2>1 DEF queueVars, Coming, Queued, Queue!ChainSettled
  <2>3. \A v \in Writers : (Pends(v) => Pends(v)') /\ (Owed(v) => Owed(v)')
    BY <1>2, <2>1, <2>2, OwedIs, OwedIsNext DEF Pends, queueVars
  <2> QED
    BY <1>2, <2>1, <2>3 DEF queueVars
<1>3. ASSUME NEW stage, Rejects(stage) PROVE Good
  <2>1. /\ socket'.aborted = socket.aborted /\ Held(socket') = Held(socket)
        /\ socket'.stage = stage /\ stage \in {"failed", "gone"} /\ socket.stage # "up"
    BY <1>0, <1>3 DEF Rejects, Sockets, Held
  <2>2. Queue!AnswerWaiter("refused") /\ UNCHANGED write /\ (stage = "gone" => TaskTurn)
    BY <1>3 DEF Rejects, Queue!Reject
  <2>3. /\ \A v \in Writers : waiter = v => promise'[v] = "refused"
        /\ \A v \in Writers : waiter # v => promise'[v] = promise[v]
        /\ UNCHANGED <<chain, prev>>
    BY <1>0, <2>2, Answers
  <2>4. \A v \in Writers : Queued(v) => Coming(v)'
    <3> SUFFICES ASSUME NEW v \in Writers, Queued(v) PROVE Coming(v)'
      OBVIOUS
    <3>1. stage = "failed"
      BY <1>a, <2>1, <2>2
    <3>2. promise'[v] = "queued"
      BY <1>0, <2>3 DEF Queued
    <3>3. prev[v] # None => promise'[prev[v]] \in Queue!Settled
      BY <1>0, <2>3 DEF Queued, Queue!ChainSettled, Queue!Settled
    <3> QED
      BY <2>1, <2>3, <3>1, <3>2, <3>3 DEF Coming, Queued, Queue!ChainSettled
  <2>5. \A v \in Writers : promise[v] \in Queue!Answered => promise'[v] \in Queue!Answered
    BY <1>0, <2>3 DEF Queue!Answered
  <2>6. \A v \in Writers : waiter = v => promise'[v] \in Queue!Answered
    BY <2>3 DEF Queue!Answered
  <2>7. \A v \in Writers : (Pends(v) => Pends(v)') /\ (Owed(v) => Owed(v)')
    BY <2>1, <2>4, <2>5, <2>6, OwedIs, OwedIsNext DEF Pends, Coming
  <2>8. chain' \in Writers => promise'[chain'] # "none"
    BY <1>0, <2>3
  <2> QED
    BY <2>1, <2>2, <2>7, <2>8
<1>6. CASE Flush
  <2> DEFINE u == Head(socket.unflushed)
             drained == /\ socket.needDrain /\ Len(socket.unflushed) = 1
                        /\ socket.stage = "up" /\ ~ socket.ended /\ life.closing = None
  <2>1. /\ socket.unflushed # <<>>
        /\ socket' = [socket EXCEPT !.unflushed = Tail(@), !.needDrain = @ /\ ~ drained]
        /\ write' = [write EXCEPT ![u] = Flushed(u)]
        /\ IF drained THEN Queue!NotifyDrain ELSE UNCHANGED queueVars
    BY <1>6 DEF Flush
  <2>2. /\ Held(socket') = Held(socket) \ {u} /\ socket'.stage = socket.stage
        /\ socket'.aborted = socket.aborted
    BY <1>0, <2>1, BufferGives
  <2>3. u \in Writers
    BY <1>0, <2>1, TailFacts DEF BufferOK, Sockets
  <2>4. \A v \in Writers : /\ write'[v] = "blocked" <=> write[v] = "blocked"
                           /\ write'[v] = "flushing" => write[v] = "flushing" /\ v # u
    BY <1>0, <2>1, <2>3 DEF Flushed
  <2>9. socket'.needDrain = (socket.needDrain /\ ~ drained) /\ socket.needDrain \in BOOLEAN
    BY <1>0, <2>1 DEF Sockets
  <2>5. CASE drained
    <3>1. /\ \A v \in Writers : waiter = v => promise'[v] = "released"
          /\ \A v \in Writers : waiter # v => promise'[v] = promise[v]
          /\ UNCHANGED <<chain, prev>>
      BY <1>0, <2>1, <2>5, Answers DEF Queue!NotifyDrain
    <3>2. \A v \in Writers : Queued(v) => Queued(v)' /\ EarlyDrain(v)
      <4> SUFFICES ASSUME NEW v \in Writers, Queued(v) PROVE Queued(v)' /\ EarlyDrain(v)
        OBVIOUS
      <4>1. promise[v] = "queued" /\ promise'[v] = "queued"
        BY <1>0, <3>1 DEF Queued
      <4>2. prev[v] # None => promise'[prev[v]] \in Queue!Settled
        BY <1>0, <3>1 DEF Queued, Queue!ChainSettled, Queue!Settled
      <4>3. Queued(v)'
        BY <3>1, <4>1, <4>2 DEF Queued, Queue!ChainSettled
      <4>4. EarlyDrain(v)
        BY <2>5, <2>9, <4>1 DEF EarlyDrain
      <4> QED
        BY <4>3, <4>4
    <3>3. \A v \in Writers : /\ promise[v] \in Queue!Answered => promise'[v] \in Queue!Answered
                             /\ waiter = v => promise'[v] \in Queue!Answered
      BY <1>0, <3>1 DEF Queue!Answered
    <3>4. \A v \in Writers : promise'[v] \notin Queue!Settled \cup {"none"}
                               => promise[v] \notin Queue!Settled \cup {"none"}
      BY <1>0, <3>1 DEF Queue!Settled
    <3>5. chain' \in Writers => promise'[chain'] # "none"
      BY <1>0, <3>1
    <3> HIDE DEF u, drained
    <3>6. \A v \in Writers : (Pends(v) => Pends(v)') /\ (Owed(v) => Owed(v)' \/ EarlyDrain(v))
      BY <2>2, <3>2, <3>3, OwedIs, OwedIsNext DEF Pends, Coming
    <3> QED
      BY <2>2, <2>4, <3>4, <3>5, <3>6
  <2>6. CASE ~ drained
    <3>1. UNCHANGED queueVars
      BY <2>1, <2>6
    <3>2. socket'.needDrain = socket.needDrain
      <4> HIDE DEF drained
      <4> QED
        BY <2>6, <2>9
    <3> HIDE DEF u, drained
    <3>3. \A v \in Writers : (Pends(v) => Pends(v)') /\ (Owed(v) => Owed(v)')
      BY <2>2, <3>1, <3>2 DEF Pends, Owed, Coming, Queued, Queue!ChainSettled, queueVars
    <3> QED
      BY <2>2, <2>4, <3>1, <3>3 DEF queueVars
  <2> QED
    BY <2>5, <2>6
<1>7. ASSUME NEW w \in Writers, NEW below \in BOOLEAN, Write(w, below) PROVE Good
  <2>1. /\ w \notin Held(socket) /\ promise[w] = "none" /\ write[w] = "none"
        /\ socket.stage = "up" /\ \A v \in Writers : write[v] \notin {"flushing", "blocked"}
    BY <1>7 DEF Write, MayWrite, Waiting, Refuses, WriteInv
  <2>2. Held(socket') = Held(socket) \cup {w} /\ socket'.stage = "up"
    <3>1. socket' = [socket EXCEPT !.unflushed = Append(@, w), !.needDrain = @ \/ ~ below]
      BY <1>7 DEF Write
    <3>2. PICK full : full = (socket.needDrain \/ ~ below)
      OBVIOUS
    <3>3. socket' = [socket EXCEPT !.unflushed = Append(@, w), !.needDrain = full]
      BY <3>1, <3>2
    <3> HIDE DEF BlockedInv
    <3> QED
      BY <1>0, <2>1, <3>3, BufferTakes
  <2>3. ~ below => socket'.needDrain
    BY <1>0, <1>7 DEF Write, Sockets
  <2>4. /\ write'[w] = IF below THEN "flushing" ELSE "blocked"
        /\ \A v \in Writers : v # w => write'[v] = write[v]
    BY <1>0, <1>7 DEF Write
  <2>5. CASE below
    <3>1. UNCHANGED queueVars
      BY <1>7, <2>5 DEF Write
    <3>2. promise'[w] = "none"
      BY <2>1, <3>1 DEF queueVars
    <3> QED
      BY <2>1, <2>2, <2>4, <2>5, <3>1, <3>2 DEF queueVars
  <2>6. CASE ~ below
    <3>1. Queue!AwaitDrain(w)
      BY <1>7, <2>6 DEF Write
    <3>2. /\ promise'[w] = "queued" /\ prev'[w] = chain /\ chain' = w
          /\ \A v \in Writers : v # w => promise'[v] = promise[v]
      BY <1>0, <3>1 DEF Queue!AwaitDrain
    <3>3. chain # None => chain # w /\ promise[chain] \in Queue!Settled
      BY <1>0, <2>1
    <3>4. Coming(w)'
      BY <1>0, <2>2, <3>2, <3>3 DEF Coming, Queued, Queue!ChainSettled
    <3>5. Pends(w)' /\ Owed(w)'
      BY <2>3, <2>6, <3>4, OwedIsNext DEF Pends
    <3> QED
      BY <2>1, <2>4, <2>6, <3>2, <3>5
  <2> QED
    BY <2>5, <2>6
<1>8. ASSUME NEW w \in Writers, WriteRefused(w) PROVE Good
  <2>1. /\ w \notin Held(socket) /\ promise[w] = "none" /\ write[w] = "none"
        /\ \A v \in Writers : write[v] \notin {"flushing", "blocked"}
    BY <1>8 DEF WriteRefused, MayWrite, Waiting, WriteInv
  <2>2. PICK s \in (IF socket.stage = "up" THEN Destroyed(socket) ELSE {socket}) :
          socket' = [s EXCEPT !.aborted = @ \cup {w}]
    BY <1>8 DEF WriteRefused
  <2>3. s \in Sockets /\ s.stage # "up"
    BY <1>0, <2>2, DestroyedType, BufferDestroyed
  <2>4. socket'.stage # "up" /\ w \in socket'.aborted
    BY <2>2, <2>3 DEF Sockets
  <2>5. /\ write'[w] = "blocked"
        /\ \A v \in Writers : v # w => write'[v] = write[v]
    BY <1>0, <1>8 DEF WriteRefused
  <2>6. promise'[w] = "queued" /\ chain' = w
    BY <1>0, <1>8 DEF WriteRefused, Queue!AwaitDrain
  <2> QED
    BY <2>1, <2>4, <2>5, <2>6, OwedIsNext DEF Pends
<1>9. ASSUME NEW w \in Writers, FlushFails(w) PROVE Good
  <2>1. Held(socket') = Held(socket) \ {w}
    BY <1>0, <1>9, BufferAborts DEF FlushFails
  <2>2. /\ socket'.stage = socket.stage /\ socket'.needDrain = socket.needDrain
        /\ socket'.aborted = socket.aborted \ {w} /\ socket.stage # "up"
    BY <1>0, <1>9 DEF FlushFails, Sockets, BufferOK
  <2>3. /\ write'[w] \notin {"flushing", "blocked"}
        /\ \A v \in Writers : v # w => write'[v] = write[v]
    BY <1>0, <1>9 DEF FlushFails
  <2>4. UNCHANGED queueVars
    BY <1>9 DEF FlushFails
  <2>5. \A v \in Writers : v # w => (Pends(v) => Pends(v)') /\ (Owed(v) => Owed(v)')
    BY <2>2, <2>4 DEF Pends, Owed, Coming, Queued, Queue!ChainSettled, queueVars
  <2> QED
    BY <2>1, <2>2, <2>3, <2>4, <2>5 DEF queueVars
<1>10. ASSUME NEW w \in Writers, DrainArmed(w) PROVE Good
  <2>1. \A v \in Writers : promise'[v] = IF v = w THEN "armed" ELSE promise[v]
    BY <1>0, <1>10 DEF DrainArmed, Queue!ArmWaiter
  <2>2. /\ promise[w] = "queued" /\ waiter' = w
        /\ UNCHANGED <<socket, write, chain, prev>> /\ Queued(w)
    BY <1>10 DEF DrainArmed, Queue!ArmWaiter, Queued
  <2>3. \A v \in Writers : v # w => promise[v] # "armed"
    BY <1>0, <2>1, <2>2 DEF Queue!WaiterNeverLost
  <2>4. \A v \in Writers : v # w /\ Queued(v) => Queued(v)'
    BY <1>0, <2>1, <2>2 DEF Queued, Queue!ChainSettled, Queue!Settled
  <2>5. \A v \in Writers : Coming(v) => Coming(v)'
    BY <1>0, <2>1, <2>2, <2>3, <2>4 DEF Coming
  <2>6. \A v \in Writers : promise[v] \in Queue!Answered => promise'[v] \in Queue!Answered
    BY <2>1, <2>2 DEF Queue!Answered
  <2>9. \A v \in Writers : (Pends(v) => Pends(v)') /\ (Owed(v) => Owed(v)')
    BY <2>2, <2>5, <2>6, OwedIs, OwedIsNext DEF Pends
  <2>7. \A v \in Writers : promise'[v] \notin Queue!Settled \cup {"none"}
                             => promise[v] \notin Queue!Settled \cup {"none"}
    BY <2>1, <2>2 DEF Queue!Settled
  <2>8. chain' \in Writers => promise'[chain'] # "none"
    BY <1>0, <2>1, <2>2
  <2> QED
    BY <2>2, <2>7, <2>8, <2>9
<1>11. ASSUME NEW w \in Writers, DrainAwaited(w) PROVE Good
  <2>1. /\ promise[w] \in Queue!Answered /\ UNCHANGED <<socket, chain, prev, waiter>>
        /\ promise'[w] \in Queue!Settled
        /\ \A v \in Writers : v # w => promise'[v] = promise[v] /\ write'[v] = write[v]
        /\ write'[w] = IF write[w] = "blocked" THEN promise'[w] ELSE write[w]
    BY <1>0, <1>11 DEF DrainAwaited, Queue!SettleNext, Queue!Settled
  <2>2. \A v \in Writers : v # w /\ Coming(v) => Coming(v)'
    BY <1>0, <2>1 DEF Coming, Queued, Queue!ChainSettled
  <2>3. \A v \in Writers : v # w => (Pends(v) => Pends(v)') /\ (Owed(v) => Owed(v)')
    BY <2>1, <2>2, OwedIs, OwedIsNext DEF Pends
  <2>4. write'[w] # "blocked"
    BY <2>1 DEF Queue!Settled
  <2>5. write'[w] = "flushing" => write[w] = "flushing"
    BY <2>1 DEF Queue!Settled
  <2>6. promise'[w] # "none"
    BY <2>1 DEF Queue!Settled
  <2> QED
    BY <1>0, <2>1, <2>3, <2>4, <2>5, <2>6
<1> QED
  BY <1>1, <1>2, <1>3, <1>6, <1>7, <1>8, <1>9, <1>10, <1>11, WritingTurns
  DEF SocketFails, SocketFinishes

(* When the socket owes nothing and no job is left, a write that still     *)
(* waits is stranded.                                                      *)
LEMMA LeftWaitingIsStranded ==
  TypeOK /\ BlockedInv /\ ~ NoStrandedWrite => \E w \in Writers : Stranded(w)
<1> SUFFICES ASSUME TypeOK, BlockedInv, SocketOwesNothing, ~ JobsPending,
                    NEW w \in Writers, write[w] \in {"flushing", "blocked"}
             PROVE  Stranded(w)
  BY DEF NoStrandedWrite, Waiting
<1>1. Held(socket) = {}
  BY DEF SocketOwesNothing, Held, Contents
<1>2. write[w] = "blocked"
  BY <1>1 DEF BlockedInv
<1>3. promise[w] \notin Queue!Answered /\ ~ Queued(w)
  BY DEF JobsPending, Queue!JobEnabled, Queued
<1> QED
  BY <1>1, <1>2, <1>3 DEF Stranded, Owed, Queued, SocketOwesNothing, Held

(* With one write at a time, and whatever overtakes its promise jobs, one  *)
(* thing alone can leave a write waiting for nothing: a "drain" emitted    *)
(* before the job that arms its waiter has run.  No flush callback, error, *)
(* end, close, timeout, listener or refused write can (write(), drain.ts). *)
THEOREM WritesNotStranded ==
  ~ OverlappingWrites => (Spec => StrandedOnlyByEarlyDrain)
<1> SUFFICES ASSUME ~ OverlappingWrites
             PROVE  Spec => StrandedOnlyByEarlyDrain
  OBVIOUS
<1> DEFINE AllKept == \A w \in Writers : Stranded(w)' => Stranded(w) \/ EarlyDrain(w)
<1>1. Spec => []Queue!WaiterNeverLost
  BY WritesServedInOrder, PTL
<1>2. TypeOK /\ WriteInv /\ Queue!WaiterNeverLost /\ Queue!WaiterNeverLost' /\ BlockedInv
        /\ [Next]_vars => BlockedInv' /\ [AllKept]_vars
  BY BlockedStep DEF Kept
<1> HIDE DEF AllKept
<1>3. Spec => [][AllKept]_vars
  BY <1>1, <1>2, BlockedInit, WriteInvariant, TypeCorrect, PTL DEF Spec
<1> QED
  BY <1>3 DEF AllKept, StrandedOnlyByEarlyDrain

(* A write that is left waiting when the socket owes nothing was stranded  *)
(* by such a "drain": NoStrandedWrite can fail for a lone write in no      *)
(* other way.                                                              *)
THEOREM LeftWaitingOnlyStranded ==
  ~ OverlappingWrites => (Spec => [](~ NoStrandedWrite => \E w \in Writers : Stranded(w)))
<1> SUFFICES ASSUME ~ OverlappingWrites
             PROVE  Spec => [](~ NoStrandedWrite => \E w \in Writers : Stranded(w))
  OBVIOUS
<1>1. Spec => []Queue!WaiterNeverLost
  BY WritesServedInOrder, PTL
<1>2. TypeOK /\ WriteInv /\ Queue!WaiterNeverLost /\ Queue!WaiterNeverLost' /\ BlockedInv
        /\ [Next]_vars => BlockedInv'
  BY BlockedStep
<1>3. TypeOK /\ BlockedInv => (~ NoStrandedWrite => \E w \in Writers : Stranded(w))
  BY LeftWaitingIsStranded
<1> QED
  BY <1>1, <1>2, <1>3, BlockedInit, WriteInvariant, TypeCorrect, PTL DEF Spec

=============================================================================
