------------------------- MODULE BackpressureQueue -------------------------
(***************************************************************************)
(* What the backpressure queue of a transport promises to the writes that  *)
(* wait in it: they are served in the order in which they queued up, one   *)
(* per signal of the socket.  A "drain" grants the write at the head of    *)
(* the queue, an "error" or a "close" denies it, and only then is that     *)
(* write told.  Promise chains, waiters and jobs belong to DrainQueue,     *)
(* which implements this module.                                           *)
(***************************************************************************)
EXTENDS Naturals, Sequences

CONSTANT Writers        \* the writes that may have to wait for a drain

VARIABLES calls,        \* the writes, in the order in which they queued up
          outcome       \* what has become of each write

vars == <<calls, outcome>>

Told == {"resolved", "rejected"}

Init == /\ calls = <<>>
        /\ outcome = [w \in Writers |-> "none"]

Enqueue(w) == /\ outcome[w] = "none"
              /\ calls' = Append(calls, w)
              /\ outcome' = [outcome EXCEPT ![w] = "waiting"]

AtHead(i) == \A j \in 1 .. i - 1 : outcome[calls[j]] \in Told

(* One signal serves one write: the first that has not been told. *)
Signal(answer) == \E i \in DOMAIN calls :
                    /\ AtHead(i)
                    /\ outcome[calls[i]] = "waiting"
                    /\ outcome' = [outcome EXCEPT ![calls[i]] = answer]
                    /\ UNCHANGED calls

Tell(w) == /\ outcome[w] \in {"granted", "denied"}
           /\ outcome' = [outcome EXCEPT ![w] =
                            IF @ = "granted" THEN "resolved" ELSE "rejected"]
           /\ UNCHANGED calls

Next == \/ \E w \in Writers : Enqueue(w) \/ Tell(w)
        \/ \E answer \in {"granted", "denied"} : Signal(answer)

Spec == Init /\ [][Next]_vars
=============================================================================
