-------------------------- MODULE DrainQueueProofs --------------------------
(***************************************************************************)
(* What DrainQueue guarantees for any set of writers, proved from one      *)
(* inductive invariant: the calls made so far are a run of settled ones,   *)
(* at most one being served, and then calls whose callback has not run.    *)
(***************************************************************************)
EXTENDS DrainQueue, TLAPS

(* calls lists every call that was made, once. *)
CallsRecorded ==
  /\ \A i, j \in 1 .. Len(calls) : calls[i] = calls[j] => i = j
  /\ \A w \in Writers : promise[w] # "none" <=> \E i \in 1 .. Len(calls) : calls[i] = w

(* Each call is chained on the one before it, and chain is the last. *)
ChainedInOrder ==
  /\ chain = IF Len(calls) = 0 THEN None ELSE calls[Len(calls)]
  /\ \A i \in 1 .. Len(calls) : prev[calls[i]] = IF i = 1 THEN None ELSE calls[i-1]

(* The first k calls are settled, the next one is being served. *)
Frontier(k) ==
  /\ k \in 0 .. Len(calls)
  /\ \A i \in 1 .. k : promise[calls[i]] \in Settled
  /\ k < Len(calls) => promise[calls[k + 1]] \in {"queued", "armed"} \cup Answered
  /\ \A i \in k + 2 .. Len(calls) : promise[calls[i]] = "queued"

IInv == /\ TypeOK
        /\ WaiterNeverLost
        /\ CallsRecorded
        /\ ChainedInOrder
        /\ \E k \in Nat : Frontier(k)

LEMMA TypeStep == TypeOK /\ [Next]_vars => TypeOK'
<1> SUFFICES ASSUME TypeOK, [Next]_vars PROVE TypeOK'
  OBVIOUS
<1> USE DEF TypeOK, Stage, Answered, Settled
<1>1. ASSUME NEW w \in Writers, AwaitDrain(w) PROVE TypeOK'
  BY <1>1 DEF AwaitDrain
<1>2. ASSUME NEW w \in Writers, ArmWaiter(w) PROVE TypeOK'
  BY <1>2 DEF ArmWaiter
<1>3. ASSUME NEW w \in Writers, SettleNext(w) PROVE TypeOK'
  BY <1>3 DEF SettleNext
<1>4. ASSUME NEW answer \in Answered, AnswerWaiter(answer) PROVE TypeOK'
  BY <1>4 DEF AnswerWaiter
<1>5. CASE UNCHANGED vars
  BY <1>5 DEF vars
<1> QED
  BY <1>1, <1>2, <1>3, <1>4, <1>5 DEF Next, NotifyDrain, Reject

(* A call whose callback may run is the first unsettled one. *)
LEMMA ReadyCallIsFirst ==
  ASSUME IInv, NEW k \in Nat, Frontier(k), NEW w \in Writers,
         promise[w] = "queued", ChainSettled(w)
  PROVE  k < Len(calls) /\ w = calls[k + 1]
<1>1. PICK i \in 1 .. Len(calls) : calls[i] = w
  BY DEF IInv, CallsRecorded
<1>2. i > k
  BY <1>1 DEF Frontier, Settled
<1>3. CASE i > k + 1
  <2>1. prev[w] = calls[i - 1] /\ i - 1 \in 1 .. Len(calls)
    BY <1>1, <1>3 DEF IInv, ChainedInOrder
  <2>2. calls[i - 1] \in Writers
    BY <2>1 DEF IInv, TypeOK
  <2>3. promise[calls[i - 1]] \in Settled
    BY <2>1, <2>2, NoneAssumption DEF ChainSettled
  <2>4. promise[calls[i - 1]] \in {"queued", "armed"} \cup Answered
    <3>1. CASE i - 1 = k + 1
      BY <3>1, <2>1 DEF Frontier
    <3>2. CASE i - 1 \in k + 2 .. Len(calls)
      BY <3>2 DEF Frontier
    <3> QED
      BY <1>3, <2>1, <3>1, <3>2
  <2> QED
    BY <2>3, <2>4 DEF Settled, Answered
<1> QED
  BY <1>1, <1>2, <1>3

(* So is a call that is armed or answered. *)
LEMMA ServedCallIsFirst ==
  ASSUME IInv, NEW k \in Nat, Frontier(k), NEW w \in Writers,
         promise[w] \in {"armed"} \cup Answered
  PROVE  k < Len(calls) /\ w = calls[k + 1]
<1>1. PICK i \in 1 .. Len(calls) : calls[i] = w
  BY DEF IInv, CallsRecorded, Answered
<1>2. i > k
  BY <1>1 DEF Frontier, Settled, Answered
<1>3. ~ (i \in k + 2 .. Len(calls))
  BY <1>1 DEF Frontier, Answered
<1> QED
  BY <1>1, <1>2, <1>3

LEMMA InitIInv == Init => IInv
<1> SUFFICES ASSUME Init PROVE IInv
  OBVIOUS
<1>1. TypeOK /\ WaiterNeverLost
  BY NoneAssumption DEF Init, TypeOK, Stage, WaiterNeverLost
<1>2. Len(calls) = 0
  BY DEF Init
<1>3. CallsRecorded /\ ChainedInOrder /\ Frontier(0)
  BY <1>2 DEF Init, CallsRecorded, ChainedInOrder, Frontier
<1> QED
  BY <1>1, <1>3 DEF IInv

LEMMA AwaitDrainKeepsIInv ==
  ASSUME IInv, NEW w \in Writers, AwaitDrain(w), TypeOK'
  PROVE  IInv'
<1>1. /\ Len(calls') = Len(calls) + 1
      /\ \A i \in 1 .. Len(calls) : calls'[i] = calls[i]
      /\ calls'[Len(calls) + 1] = w
      /\ Len(calls) \in Nat
  BY DEF IInv, TypeOK, AwaitDrain
<1>2. \A i \in 1 .. Len(calls) : calls[i] \in Writers /\ calls[i] # w
  BY DEF IInv, TypeOK, CallsRecorded, AwaitDrain
<1>3. \A v \in Writers : promise'[v] = IF v = w THEN "queued" ELSE promise[v]
  BY DEF IInv, TypeOK, AwaitDrain
<1>4. \A v \in Writers : prev'[v] = IF v = w THEN chain ELSE prev[v]
  BY DEF IInv, TypeOK, AwaitDrain
<1>5. WaiterNeverLost'
  BY <1>3 DEF IInv, WaiterNeverLost, AwaitDrain
<1>6. CallsRecorded'
  <2>1. \A i, j \in 1 .. Len(calls)' : calls'[i] = calls'[j] => i = j
    BY <1>1, <1>2 DEF IInv, CallsRecorded
  <2>2. ASSUME NEW v \in Writers
        PROVE  promise'[v] # "none" <=> \E i \in 1 .. Len(calls)' : calls'[i] = v
    <3>1. CASE v = w
      BY <1>1, <1>3, <3>1
    <3>2. CASE v # w
      BY <1>1, <1>3, <3>2 DEF IInv, CallsRecorded
    <3> QED
      BY <3>1, <3>2
  <2> QED
    BY <2>1, <2>2 DEF CallsRecorded
<1>7. ChainedInOrder'
  <2>1. chain' = IF Len(calls)' = 0 THEN None ELSE calls'[Len(calls)']
    BY <1>1 DEF AwaitDrain
  <2>2. ASSUME NEW i \in 1 .. Len(calls)'
        PROVE  prev'[calls'[i]] = IF i = 1 THEN None ELSE calls'[i - 1]
    <3>1. CASE i = Len(calls) + 1
      BY <1>1, <1>4, <3>1 DEF IInv, ChainedInOrder
    <3>2. CASE i \in 1 .. Len(calls)
      <4>1. prev'[calls'[i]] = prev[calls[i]]
        BY <1>1, <1>2, <1>4, <3>2
      <4> QED
        BY <1>1, <3>2, <4>1 DEF IInv, ChainedInOrder
    <3> QED
      BY <1>1, <3>1, <3>2
  <2> QED
    BY <2>1, <2>2 DEF ChainedInOrder
<1>8. \E k \in Nat : Frontier(k)'
  <2>1. PICK k \in Nat : Frontier(k)
    BY DEF IInv
  <2>2. Frontier(k)'
    BY <1>1, <1>2, <1>3, <2>1 DEF Frontier
  <2> QED
    BY <2>2
<1> QED
  BY <1>5, <1>6, <1>7, <1>8 DEF IInv

(* A step that only moves the first unsettled call on keeps the invariant. *)
LEMMA ServingKeepsIInv ==
  ASSUME IInv, TypeOK', WaiterNeverLost', UNCHANGED <<chain, prev, calls>>,
         NEW k \in Nat, Frontier(k), k < Len(calls),
         NEW stage \in {"armed"} \cup Answered \cup Settled,
         promise' = [promise EXCEPT ![calls[k + 1]] = stage]
  PROVE  IInv'
<1> DEFINE w == calls[k + 1]
<1>1. w \in Writers /\ k + 1 \in 1 .. Len(calls)
  BY DEF IInv, TypeOK
<1>2. \A i \in 1 .. Len(calls) : calls[i] \in Writers /\ (calls[i] = w => i = k + 1)
  BY <1>1 DEF IInv, TypeOK, CallsRecorded
<1>3. \A v \in Writers : promise'[v] = IF v = w THEN stage ELSE promise[v]
  BY DEF IInv, TypeOK
<1>4. CallsRecorded'
  BY <1>1, <1>3 DEF IInv, CallsRecorded, Answered, Settled
<1>5. ChainedInOrder'
  BY DEF IInv, ChainedInOrder
<1>6. CASE stage \in Settled
  <2>1. Frontier(k + 1)'
    <3>1. \A i \in 1 .. k + 1 : promise'[calls[i]] \in Settled
      BY <1>1, <1>2, <1>3, <1>6 DEF Frontier
    <3>2. \A i \in k + 2 .. Len(calls) : promise'[calls[i]] = "queued"
      BY <1>2, <1>3 DEF Frontier
    <3> QED
      BY <1>1, <3>1, <3>2 DEF Frontier
  <2> QED
    BY <1>4, <1>5, <2>1 DEF IInv
<1>7. CASE stage \in {"armed"} \cup Answered
  <2>1. Frontier(k)'
    BY <1>1, <1>2, <1>3, <1>7 DEF Frontier
  <2> QED
    BY <1>4, <1>5, <2>1 DEF IInv
<1> QED
  BY <1>6, <1>7

LEMMA StepKeepsIInv == IInv /\ [Next]_vars => IInv'
<1> SUFFICES ASSUME IInv, [Next]_vars PROVE IInv'
  OBVIOUS
<1>0. TypeOK'
  BY TypeStep DEF IInv
<1>1. PICK k \in Nat : Frontier(k)
  BY DEF IInv
<1>2. ASSUME NEW w \in Writers, AwaitDrain(w) PROVE IInv'
  BY <1>0, <1>2, AwaitDrainKeepsIInv
<1>3. ASSUME NEW w \in Writers, ArmWaiter(w) PROVE IInv'
  <2>1. k < Len(calls) /\ w = calls[k + 1]
    BY <1>1, <1>3, ReadyCallIsFirst DEF ArmWaiter
  <2>2. \A v \in Writers : promise[v] # "armed"
    BY <1>1, <1>3, <2>1, ServedCallIsFirst DEF ArmWaiter
  <2>3. WaiterNeverLost'
    BY <1>3, <2>2 DEF ArmWaiter, WaiterNeverLost, IInv, TypeOK
  <2> QED
    BY <1>0, <1>1, <1>3, <2>1, <2>3, ServingKeepsIInv DEF ArmWaiter
<1>4. ASSUME NEW w \in Writers, SettleNext(w) PROVE IInv'
  <2>1. k < Len(calls) /\ w = calls[k + 1]
    BY <1>1, <1>4, ServedCallIsFirst DEF SettleNext
  <2>2. WaiterNeverLost'
    BY <1>4 DEF SettleNext, WaiterNeverLost, IInv, TypeOK, Answered
  <2> DEFINE stage == IF promise[w] = "released" THEN "resolved" ELSE "rejected"
  <2>3. stage \in Settled /\ promise' = [promise EXCEPT ![w] = stage]
    BY <1>4 DEF SettleNext, Settled
  <2> HIDE DEF stage
  <2> QED
    BY <1>0, <1>1, <1>4, <2>1, <2>2, <2>3, ServingKeepsIInv DEF SettleNext
<1>5. ASSUME NEW answer \in Answered, AnswerWaiter(answer) PROVE IInv'
  <2>1. WaiterNeverLost'
    BY <1>5, NoneAssumption DEF AnswerWaiter, WaiterNeverLost, IInv, TypeOK, Answered
  <2>2. CASE waiter = None
    <3>1. UNCHANGED vars
      BY <1>5, <2>2 DEF AnswerWaiter, vars
    <3> QED
      BY <3>1 DEF IInv, TypeOK, WaiterNeverLost, CallsRecorded, ChainedInOrder, Frontier, vars
  <2>3. CASE waiter # None
    <3>1. waiter \in Writers /\ promise[waiter] = "armed"
      BY <2>3 DEF IInv, TypeOK, WaiterNeverLost
    <3>2. k < Len(calls) /\ waiter = calls[k + 1]
      BY <1>1, <3>1, ServedCallIsFirst
    <3>3. promise' = [promise EXCEPT ![calls[k + 1]] = answer]
      BY <1>5, <2>3, <3>2 DEF AnswerWaiter
    <3> QED
      BY <1>0, <1>1, <1>5, <2>1, <3>2, <3>3, ServingKeepsIInv DEF AnswerWaiter
  <2> QED
    BY <2>2, <2>3
<1>6. CASE UNCHANGED vars
  BY <1>6 DEF IInv, TypeOK, WaiterNeverLost, CallsRecorded, ChainedInOrder, Frontier, vars
<1> QED
  BY <1>2, <1>3, <1>4, <1>5, <1>6 DEF Next, NotifyDrain, Reject, Answered

(* The invariant every other theorem of this module rests on: at any time  *)
(* the promise chain of drain.ts splits into settled calls, at most one    *)
(* call being served, and queued calls, each chained on the one before.    *)
THEOREM InductiveInvariant == Spec => []IInv
  BY InitIInv, StepKeepsIInv, PTL DEF Spec

(* The variables of createDrainQueue keep their types. *)
THEOREM TypeCorrect == Spec => []TypeOK
  BY InductiveInvariant, PTL DEF IInv

(* The deferred in `waiter' is never overwritten before it is answered, so *)
(* notifyDrain and reject can always reach the call that is being served.  *)
THEOREM WaiterSafe == Spec => []WaiterNeverLost
  BY InductiveInvariant, PTL DEF IInv

(* Calls go past "queued" in the order of awaitDrain, one at a time. *)
THEOREM Fifo == Spec => []FirstComeFirstServed
<1>1. IInv => FirstComeFirstServed
  <2> SUFFICES ASSUME IInv,
                      NEW i \in DOMAIN calls, NEW j \in DOMAIN calls,
                      i < j, promise[calls[j]] # "queued"
               PROVE  promise[calls[i]] \in Settled
    BY DEF FirstComeFirstServed
  <2>1. PICK k \in Nat : Frontier(k)
    BY DEF IInv
  <2>2. DOMAIN calls = 1 .. Len(calls) /\ Len(calls) \in Nat
    BY DEF IInv, TypeOK
  <2>3. ~ (j \in k + 2 .. Len(calls))
    BY <2>1 DEF Frontier
  <2> QED
    BY <2>1, <2>2, <2>3 DEF Frontier
<1> QED
  BY <1>1, InductiveInvariant, PTL

(* A call that is not settled never finds the queue without a waiter and   *)
(* without a promise job to run, whatever the outcome of the calls before. *)
THEOREM Unstuck == Spec => []NeverStuck
<1>1. IInv => NeverStuck
  <2> SUFFICES ASSUME IInv, NEW v \in Writers, promise[v] \notin Settled \cup {"none"}
               PROVE  waiter # None \/ \E w \in Writers : JobEnabled(w)
    BY DEF NeverStuck
  <2>1. PICK k \in Nat : Frontier(k)
    BY DEF IInv
  <2>2. PICK n \in 1 .. Len(calls) : calls[n] = v
    BY DEF IInv, CallsRecorded
  <2>3. k < Len(calls)
    BY <2>1, <2>2 DEF Frontier
  <2> DEFINE w == calls[k + 1]
  <2>4. w \in Writers
    BY <2>1, <2>3 DEF IInv, TypeOK
  <2>5. CASE promise[w] = "armed"
    BY <2>4, <2>5, NoneAssumption DEF IInv, WaiterNeverLost
  <2>6. CASE promise[w] \in Answered
    BY <2>4, <2>6 DEF JobEnabled
  <2>7. CASE promise[w] = "queued"
    <3>1. ChainSettled(w)
      <4>1. prev[w] = IF k + 1 = 1 THEN None ELSE calls[k]
        BY <2>1, <2>3 DEF IInv, ChainedInOrder
      <4>2. k # 0 => promise[calls[k]] \in Settled
        BY <2>1 DEF Frontier
      <4> QED
        BY <4>1, <4>2 DEF ChainSettled
    <3> QED
      BY <2>4, <2>7, <3>1 DEF JobEnabled
  <2> QED
    BY <2>1, <2>3, <2>5, <2>6, <2>7 DEF Frontier
<1> QED
  BY <1>1, InductiveInvariant, PTL

LEMMA OutcomeOf ==
  ASSUME TypeOK, NEW w \in Writers
  PROVE  /\ promise[w] \in {"queued", "armed"} => Outcome[w] = "waiting"
         /\ promise[w] = "released" => Outcome[w] = "granted"
         /\ promise[w] = "refused" => Outcome[w] = "denied"
         /\ promise[w] \in Settled \cup {"none"} => Outcome[w] = promise[w]
  BY DEF Outcome, Shown, Settled, TypeOK, Stage, Answered

LEMMA OutcomeMoves ==
  ASSUME TypeOK, NEW w \in Writers, NEW stage \in Stage,
         promise' = [promise EXCEPT ![w] = stage]
  PROVE  Outcome' = [Outcome EXCEPT ![w] = Shown(stage)]
<1>1. promise' = [v \in Writers |-> IF v = w THEN stage ELSE promise[v]]
  BY DEF TypeOK
<1> QED
  BY <1>1 DEF Outcome

(* Every signal serves the first call that has not been told. *)
LEMMA AnswerIsSignal ==
  ASSUME IInv, NEW answer \in Answered, AnswerWaiter(answer)
  PROVE  Abstract!Signal(Shown(answer)) \/ UNCHANGED Abstract!vars
<1>1. PICK k \in Nat : Frontier(k)
  BY DEF IInv
<1>2. CASE waiter = None
  BY <1>2 DEF AnswerWaiter, Abstract!vars, Outcome
<1>3. CASE waiter # None
  <2>1. waiter \in Writers /\ promise[waiter] = "armed"
    BY <1>3 DEF IInv, TypeOK, WaiterNeverLost
  <2>2. k < Len(calls) /\ waiter = calls[k + 1]
    BY <1>1, <2>1, ServedCallIsFirst
  <2>3. k + 1 \in DOMAIN calls /\ \A j \in 1 .. k : calls[j] \in Writers
    BY <1>1, <2>2 DEF IInv, TypeOK
  <2>4. \A j \in 1 .. (k + 1) - 1 : Outcome[calls[j]] \in Abstract!Told
    <3> SUFFICES ASSUME NEW j \in 1 .. k PROVE Outcome[calls[j]] \in Abstract!Told
      OBVIOUS
    <3>1. calls[j] \in Writers /\ promise[calls[j]] \in Settled
      BY <1>1, <2>3 DEF Frontier
    <3>2. Outcome[calls[j]] = promise[calls[j]]
      BY <3>1, OutcomeOf DEF IInv
    <3> QED
      BY <3>1, <3>2 DEF Settled, Abstract!Told
  <2>5. Outcome[calls[k + 1]] = "waiting"
    BY <2>1, <2>2, OutcomeOf DEF IInv
  <2>6. Outcome' = [Outcome EXCEPT ![calls[k + 1]] = Shown(answer)]
    <3>1. promise' = [promise EXCEPT ![waiter] = answer]
      BY <1>3 DEF AnswerWaiter
    <3> QED
      BY <2>1, <2>2, <3>1, OutcomeMoves DEF IInv, Stage
  <2>7. UNCHANGED calls
    BY DEF AnswerWaiter
  <2> QED
    BY <2>3, <2>4, <2>5, <2>6, <2>7 DEF Abstract!Signal, Abstract!AtHead
<1> QED
  BY <1>2, <1>3

LEMMA StepRefines == IInv /\ [Next]_vars => [Abstract!Next]_(Abstract!vars)
<1> SUFFICES ASSUME IInv, [Next]_vars PROVE [Abstract!Next]_(Abstract!vars)
  OBVIOUS
<1>0. TypeOK
  BY DEF IInv
<1>1. ASSUME NEW w \in Writers, AwaitDrain(w) PROVE Abstract!Enqueue(w)
  <2>1. Outcome[w] = "none"
    BY <1>0, <1>1, OutcomeOf DEF AwaitDrain
  <2>2. Outcome' = [Outcome EXCEPT ![w] = Shown("queued")]
    BY <1>0, <1>1, OutcomeMoves DEF AwaitDrain, Stage
  <2> QED
    BY <1>1, <2>1, <2>2 DEF AwaitDrain, Abstract!Enqueue, Shown
<1>2. ASSUME NEW w \in Writers, ArmWaiter(w) PROVE UNCHANGED Abstract!vars
  <2>1. Outcome[w] = "waiting"
    BY <1>0, <1>2, OutcomeOf DEF ArmWaiter
  <2>2. Outcome' = [Outcome EXCEPT ![w] = Shown("armed")]
    BY <1>0, <1>2, OutcomeMoves DEF ArmWaiter, Stage
  <2>3. Outcome' = Outcome
    BY <2>1, <2>2 DEF Shown, Outcome
  <2> QED
    BY <1>2, <2>3 DEF ArmWaiter, Abstract!vars
<1>3. ASSUME NEW w \in Writers, SettleNext(w) PROVE Abstract!Tell(w)
  <2> DEFINE stage == IF promise[w] = "released" THEN "resolved" ELSE "rejected"
             told  == IF Outcome[w] = "granted" THEN "resolved" ELSE "rejected"
  <2>1. Outcome[w] \in {"granted", "denied"} /\ told = stage
    BY <1>0, <1>3, OutcomeOf DEF SettleNext, Answered
  <2>2. promise' = [promise EXCEPT ![w] = stage] /\ stage \in Stage
    BY <1>3 DEF SettleNext, Stage, Settled
  <2>3. Shown(stage) = stage
    BY DEF Shown
  <2> HIDE DEF stage
  <2>4. Outcome' = [Outcome EXCEPT ![w] = stage]
    BY <1>0, <2>2, <2>3, OutcomeMoves
  <2>5. Outcome' = [Outcome EXCEPT ![w] = told]
    BY <2>1, <2>4
  <2> QED
    BY <1>3, <2>1, <2>5 DEF SettleNext, Abstract!Tell
<1>4. ASSUME NEW answer \in Answered, AnswerWaiter(answer)
      PROVE  [Abstract!Next]_(Abstract!vars)
  <2>1. Shown(answer) \in {"granted", "denied"}
    BY DEF Shown, Answered
  <2> QED
    BY <1>4, <2>1, AnswerIsSignal DEF Abstract!Next
<1>5. CASE UNCHANGED vars
  BY <1>5 DEF vars, Abstract!vars, Outcome
<1> QED
  BY <1>1, <1>2, <1>3, <1>4, <1>5
  DEF Next, NotifyDrain, Reject, Answered, Abstract!Next

(* The promise chain implements the queue it is documented to be: one      *)
(* signal of the socket serves one backpressured write, first come first   *)
(* served, and a write is told what its own signal was.                    *)
THEOREM Refinement == Spec => ImplementsBackpressureQueue
<1>1. Init => Abstract!Init
  BY DEF Init, Abstract!Init, Outcome, Shown
<1> QED
  BY <1>1, StepRefines, InductiveInvariant, PTL
  DEF Spec, ImplementsBackpressureQueue, Abstract!Spec
=============================================================================
