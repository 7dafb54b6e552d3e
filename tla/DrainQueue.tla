----------------------------- MODULE DrainQueue -----------------------------
(***************************************************************************)
(* createDrainQueue (src/src/drain.ts): the promise chain behind which     *)
(* backpressured writes wait for "drain".                                  *)
(*                                                                         *)
(* Each awaitDrain call makes one promise, `next', whose callback runs as  *)
(* a promise job once the promise it is chained on has settled; the        *)
(* callback arms the single waiter that notifyDrain and reject settle.     *)
(* Promise jobs are actions of their own: whatever the event loop puts     *)
(* between a call and its callback is an interleaving of this module.      *)
(***************************************************************************)
EXTENDS Naturals, Sequences

CONSTANTS Writers,      \* the awaitDrain calls: each write makes at most one
          None          \* `undefined', and the initial Promise.resolve()

ASSUME NoneAssumption == None \notin Writers

VARIABLES
  chain,    \* the call whose `next.catch()' the variable chain refers to
  prev,     \* the value of chain each call was chained on
  waiter,   \* the call whose deferred notifyDrain/reject would settle
  promise,  \* the stage of each call's `next' promise
  calls     \* history: the calls in the order in which they were made

vars == <<chain, prev, waiter, promise, calls>>

(* queued: callback not run; armed: its deferred is the waiter; released,  *)
(* refused: deferred settled, the jobs that settle `next' not run yet.     *)
Settled  == {"resolved", "rejected"}
Answered == {"released", "refused"}
Stage    == {"none", "queued", "armed"} \cup Answered \cup Settled

Init == /\ chain = None
        /\ prev = [w \in Writers |-> None]
        /\ waiter = None
        /\ promise = [w \in Writers |-> "none"]
        /\ calls = <<>>

AwaitDrain(w) == /\ promise[w] = "none"
                 /\ promise' = [promise EXCEPT ![w] = "queued"]
                 /\ prev' = [prev EXCEPT ![w] = chain]
                 /\ chain' = w
                 /\ calls' = Append(calls, w)
                 /\ UNCHANGED waiter

(* Mutations: chained on `next' without its .catch; not chained at all.    *)
ChainResolved(w) == prev[w] # None => promise[prev[w]] = "resolved"
Unchained(w) == TRUE

(* `chain' holds next.catch(() => {}): it settles with either outcome.     *)
ChainSettled(w) == prev[w] # None => promise[prev[w]] \in Settled

(* The promise job that runs the callback of chain.then(). *)
ArmWaiter(w) == /\ promise[w] = "queued"
                /\ ChainSettled(w)
                /\ waiter' = w
                /\ promise' = [promise EXCEPT ![w] = "armed"]
                /\ UNCHANGED <<chain, prev, calls>>

(* Mutations: the slot is emptied before it is read; the `if (w)' guard is *)
(* dropped.                                                                *)
AnswerForgotten(answer) == waiter' = None /\ UNCHANGED <<chain, prev, promise, calls>>
AnswerUnguarded(answer) ==
  /\ waiter' = None
  /\ promise' = [w \in Writers \cup {waiter} |->
                   IF w = waiter THEN answer ELSE promise[w]]
  /\ UNCHANGED <<chain, prev, calls>>

AnswerWaiter(answer) ==
  /\ waiter' = None
  /\ promise' = IF waiter = None THEN promise
                                 ELSE [promise EXCEPT ![waiter] = answer]
  /\ UNCHANGED <<chain, prev, calls>>

NotifyDrain == AnswerWaiter("released")

(* Mutation: reject settles the waiter like a drain. *)
RejectAsDrain == AnswerWaiter("released")

Reject == AnswerWaiter("refused")

(* The promise jobs that settle `next' and run the caller's handlers. *)
SettleNext(w) == /\ promise[w] \in Answered
                 /\ promise' = [promise EXCEPT ![w] =
                                  IF @ = "released" THEN "resolved" ELSE "rejected"]
                 /\ UNCHANGED <<chain, prev, waiter, calls>>

Job(w) == ArmWaiter(w) \/ SettleNext(w)

Next == \/ \E w \in Writers : AwaitDrain(w) \/ ArmWaiter(w) \/ SettleNext(w)
        \/ NotifyDrain
        \/ Reject

Spec == Init /\ [][Next]_vars

(* The event loop runs every promise job; no signal of the socket is owed. *)
FairSpec == Spec /\ \A w \in Writers : WF_vars(Job(w))

-----------------------------------------------------------------------------
TypeOK == /\ chain \in Writers \cup {None}
          /\ prev \in [Writers -> Writers \cup {None}]
          /\ waiter \in Writers \cup {None}
          /\ promise \in [Writers -> Stage]
          /\ calls \in Seq(Writers)

JobEnabled(w) == \/ promise[w] = "queued" /\ ChainSettled(w)
                 \/ promise[w] \in Answered

(* A deferred that stops being the waiter before it is answered can never  *)
(* be settled by anyone: the armed call and the waiter are the same.       *)
WaiterNeverLost == \A w \in Writers : promise[w] = "armed" <=> waiter = w

(* While a call is not settled the queue is not stuck: a promise job can   *)
(* run, or a waiter is in place for the next signal.  The .catch that      *)
(* keeps the chain alive behind a rejected call is what this rests on.     *)
NeverStuck == (\E w \in Writers : promise[w] \notin Settled \cup {"none"})
                => waiter # None \/ \E w \in Writers : JobEnabled(w)

(* Calls are served in the order of awaitDrain: no call goes past          *)
(* "queued" before every earlier call has settled.                         *)
FirstComeFirstServed ==
  \A i, j \in DOMAIN calls :
    i < j /\ promise[calls[j]] # "queued" => promise[calls[i]] \in Settled

(* The slot is always handed on: when nobody holds it, the queued calls    *)
(* get a waiter again by promise jobs alone, with no further signal.       *)
HandedOn == \A w \in Writers :
              promise[w] = "queued" ~> (waiter # None \/ promise[w] \in Settled)

(* The queue implements the one-signal-one-write queue it is documented    *)
(* to be (types.ts, DrainQueue; drain.ts, header).                         *)
Shown(stage) == IF stage \in {"queued", "armed"} THEN "waiting"
                ELSE IF stage = "released" THEN "granted"
                ELSE IF stage = "refused" THEN "denied"
                ELSE stage

Outcome == [w \in Writers |-> Shown(promise[w])]

Abstract == INSTANCE BackpressureQueue WITH outcome <- Outcome

ImplementsBackpressureQueue == Abstract!Spec

=============================================================================
