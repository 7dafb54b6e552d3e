------------------------------ MODULE Transport ------------------------------
(***************************************************************************)
(* What a Transport promises the layer above (src/src/types.ts): a         *)
(* lifecycle, an ordered stream of chunks taken by read(), and write().    *)
(* How sockets, timers and queues bring it about is not said here;         *)
(* TransportSession and Connection implement it.                           *)
(***************************************************************************)
EXTENDS Naturals, Sequences, FiniteSets

CONSTANTS Writers,  \* the write() calls
          Reads,    \* the read() calls
          None      \* undefined

Reasons == {"client_close", "remote_close", "error", "timeout"}

VARIABLES
  state, reason,  \* TransportState
  closing,        \* the reason of the close() that has not yet resolved
  arrived,        \* chunks that have arrived
  taken,          \* the chunks reads have got, in the order they got them
  reads, writes   \* what each call has come to

vars == <<state, reason, closing, arrived, taken, reads, writes>>

(* A transport is connecting; who has it from connect() sees it open. *)
Init == /\ state \in {"connecting", "open"}
        /\ reason = None /\ closing = None
        /\ arrived = 0 /\ taken = <<>>
        /\ reads = [r \in Reads |-> "none"]
        /\ writes = [w \in Writers |-> "none"]

-----------------------------------------------------------------------------
(* The lifecycle: connecting, open, closing, closed.                       *)

Open == /\ state = "connecting" /\ state' = "open"
        /\ UNCHANGED <<reason, closing>>

(* close(why) is under way. *)
BeginClose(why) == /\ state = "open" /\ state' = "closing"
                   /\ closing' = why
                   /\ UNCHANGED reason

(* The end: with the reason of the close() under way, which resolves, or   *)
(* before it, with a reason of its own.                                    *)
Closed(why) == /\ state \in {"open", "closing"} /\ state' = "closed"
               /\ reason' = why
               /\ \/ UNCHANGED closing
                  \/ why = closing /\ closing' = None

(* close() resolves on a transport that something else has closed. *)
CloseLate == /\ state = "closed" /\ closing # None
             /\ reason' = closing /\ closing' = None
             /\ UNCHANGED state

Lifecycle == \/ Open
             \/ \E why \in Reasons : BeginClose(why) \/ Closed(why)
             \/ CloseLate
             \/ UNCHANGED <<state, reason, closing>>

-----------------------------------------------------------------------------
(* Reading and writing.                                                    *)

Begins(outcomes, c) == outcomes[c] = "none" /\ state = "open"
Waits(outcomes, c)  == outcomes[c] = "pending" \/ Begins(outcomes, c)

(* A read gets the next chunk, if it has arrived, and never on a transport *)
(* already closed.                                                         *)
ReadGets(r) == /\ Waits(reads, r) /\ state # "closed"
               /\ taken' = Append(taken, Len(taken) + 1)
               /\ Len(taken) < arrived'
               /\ reads' = [reads EXCEPT ![r] = "resolved"]

ReadFails(r) == /\ Waits(reads, r)
                /\ reads' = [reads EXCEPT ![r] = "rejected"]
                /\ UNCHANGED taken

ReadWaits(r) == /\ Begins(reads, r)
                /\ reads' = [reads EXCEPT ![r] = "pending"]
                /\ UNCHANGED taken

Reading == /\ arrived' \in {arrived, arrived + 1}
           /\ \/ \E r \in Reads : ReadGets(r) \/ ReadFails(r) \/ ReadWaits(r)
              \/ UNCHANGED <<reads, taken>>

WriteBegins(w) == Begins(writes, w) /\ writes' = [writes EXCEPT ![w] = "pending"]

WriteSettles(w) == /\ writes[w] = "pending"
                   /\ \E outcome \in {"resolved", "rejected"} :
                        writes' = [writes EXCEPT ![w] = outcome]

Writing == \/ \E w \in Writers : WriteBegins(w) \/ WriteSettles(w)
           \/ UNCHANGED writes

(* One turn may do something of each: a "data" listener that closes, a     *)
(* read that ends with the socket.                                         *)
Next == Lifecycle /\ Reading /\ Writing

Spec == Init /\ [][Next]_vars

-----------------------------------------------------------------------------
(* What the layer above may rely on.  The chunks taken are a prefix of     *)
(* those that arrived, none lost or taken twice, and each went to a read   *)
(* of its own.                                                             *)
Resolved == {r \in Reads : reads[r] = "resolved"}

StreamSound == /\ Len(taken) <= arrived
               /\ \A i \in 1 .. Len(taken) : taken[i] = i
               /\ Cardinality(Resolved) = Len(taken)

(* A transport that is closed has a reason, no other has one; a close() is *)
(* only under way from "closing" on, and before "open" nothing has begun.  *)
LifecycleSound == /\ IF state = "closed" THEN reason \in Reasons ELSE reason = None
                  /\ state = "closing" => closing \in Reasons
                  /\ state \in {"connecting", "open"} => closing = None
                  /\ state = "connecting" => /\ \A r \in Reads : reads[r] = "none"
                                             /\ \A w \in Writers : writes[w] = "none"

(* No promise settles twice, no read is resolved on a closed transport,    *)
(* and closed is for ever: only the close() under way may still put its    *)
(* reason over the one there is.                                           *)
Over == {"resolved", "rejected"}

Final == /\ \A r \in Reads : reads[r] \in Over => reads'[r] = reads[r]
         /\ \A w \in Writers : writes[w] \in Over => writes'[w] = writes[w]
         /\ state = "closed" => /\ state' = "closed" /\ Resolved' = Resolved
                                /\ reason' \in {reason, closing}

EndsAreFinal == [][Final]_vars
=============================================================================
