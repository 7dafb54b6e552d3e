--------------------------- MODULE TransportProofs ---------------------------
(***************************************************************************)
(* What follows from the Transport interface alone: whatever implements it *)
(* keeps these promises too (see TransportRefinementProofs for a session   *)
(* and ConnectionProofs for a connection).                                 *)
(***************************************************************************)
EXTENDS Transport, FiniteSetTheorems, SequenceTheorems, TLAPS

TypeOK == /\ state \in {"connecting", "open", "closing", "closed"}
          /\ closing \in Reasons \cup {None}
          /\ arrived \in Nat /\ taken \in Seq(Nat)
          /\ reads \in [Reads -> {"none", "pending", "resolved", "rejected"}]
          /\ writes \in [Writers -> {"none", "pending", "resolved", "rejected"}]

IInv == TypeOK /\ IsFiniteSet(Resolved) /\ StreamSound /\ LifecycleSound

LEMMA InitSound == Init => IInv
<1> SUFFICES ASSUME Init PROVE IInv
  OBVIOUS
<1>1. Resolved = {} /\ taken = <<>> /\ arrived = 0
  BY DEF Init, Resolved
<1>2. TypeOK /\ LifecycleSound
  BY DEF Init, TypeOK, LifecycleSound
<1> QED
  BY <1>1, <1>2, FS_EmptySet DEF IInv, StreamSound

(* A chunk more and a resolved read more, or neither. *)
LEMMA ReadingKeeps ==
  ASSUME IInv, Reading
  PROVE  /\ arrived' \in Nat /\ taken' \in Seq(Nat) /\ reads' \in [Reads -> {"none", "pending", "resolved", "rejected"}]
         /\ IsFiniteSet(Resolved') /\ StreamSound'
         /\ \A r \in Reads : reads[r] \in Over => reads'[r] = reads[r]
         /\ state = "closed" => Resolved' = Resolved
         /\ state = "connecting" => reads' = reads
<1>1. /\ arrived' \in Nat /\ arrived <= arrived' /\ taken \in Seq(Nat)
      /\ reads \in [Reads -> {"none", "pending", "resolved", "rejected"}]
  BY DEF IInv, TypeOK, Reading
<1>2. ASSUME taken' = taken, Resolved' = Resolved PROVE IsFiniteSet(Resolved') /\ StreamSound'
  BY <1>1, <1>2 DEF IInv, TypeOK, StreamSound
<1>3. ASSUME NEW r \in Reads, Waits(reads, r)
      PROVE  /\ reads[r] \in {"none", "pending"} /\ r \notin Resolved
             /\ state # "connecting"
  BY <1>3 DEF Waits, Begins, Resolved, IInv, LifecycleSound
<1>4. ASSUME NEW r \in Reads, NEW o \in {"pending", "rejected"}, reads[r] \in {"none", "pending"},
             reads' = [reads EXCEPT ![r] = o]
      PROVE  Resolved' = Resolved
  BY <1>1, <1>4 DEF Resolved
<1>5. ASSUME NEW r \in Reads, ReadGets(r)
      PROVE  /\ taken' \in Seq(Nat) /\ IsFiniteSet(Resolved') /\ StreamSound'
             /\ state # "closed" /\ state # "connecting" /\ reads[r] \in {"none", "pending"}
             /\ reads' = [reads EXCEPT ![r] = "resolved"]
  <2>1. /\ reads[r] \in {"none", "pending"} /\ r \notin Resolved /\ state # "connecting"
        /\ state # "closed" /\ reads' = [reads EXCEPT ![r] = "resolved"]
        /\ taken' = Append(taken, Len(taken) + 1) /\ Len(taken) < arrived'
    BY <1>3, <1>5 DEF ReadGets
  <2>2. Resolved' = Resolved \cup {r}
    BY <1>1, <2>1 DEF Resolved
  <2>3. IsFiniteSet(Resolved') /\ Cardinality(Resolved') = Cardinality(Resolved) + 1
    BY <2>1, <2>2, FS_AddElement DEF IInv
  <2> DEFINE n == Len(taken)
  <2>4. /\ n \in Nat /\ taken' \in Seq(Nat) /\ Len(taken') = n + 1
        /\ \A i \in 1 .. n : taken'[i] = taken[i]
        /\ taken'[n + 1] = n + 1
    BY <1>1, <2>1, AppendProperties
  <2>5. Cardinality(Resolved) = n /\ \A i \in 1 .. n : taken[i] = i
    BY DEF IInv, StreamSound
  <2> HIDE DEF n
  <2>6. \A i \in 1 .. n + 1 : taken'[i] = i
    BY <2>4, <2>5
  <2>7. n + 1 <= arrived'
    BY <1>1, <2>1, <2>4 DEF n
  <2> QED
    BY <2>1, <2>3, <2>4, <2>5, <2>6, <2>7 DEF StreamSound
<1>6. CASE UNCHANGED <<reads, taken>>
  <2>1. Resolved' = Resolved
    BY <1>6 DEF Resolved
  <2> QED
    BY <1>1, <1>2, <1>6, <2>1
<1>7. CASE \E r \in Reads : ReadGets(r)
  BY <1>1, <1>5, <1>7 DEF Over
<1>8. ASSUME NEW r \in Reads, ReadFails(r) \/ ReadWaits(r)
      PROVE  /\ taken' = taken /\ Resolved' = Resolved /\ state # "connecting"
             /\ reads[r] \in {"none", "pending"}
             /\ \E o \in {"pending", "rejected"} : reads' = [reads EXCEPT ![r] = o]
  <2>1. /\ taken' = taken /\ Waits(reads, r)
        /\ \E o \in {"pending", "rejected"} : reads' = [reads EXCEPT ![r] = o]
    BY <1>8 DEF ReadFails, ReadWaits, Waits
  <2> QED
    BY <1>3, <1>4, <2>1
<1>9. CASE \E r \in Reads : ReadFails(r) \/ ReadWaits(r)
  BY <1>1, <1>2, <1>8, <1>9 DEF Over
<1> QED
  BY <1>6, <1>7, <1>9 DEF Reading

LEMMA WritingKeeps ==
  ASSUME IInv, Writing
  PROVE  /\ writes' \in [Writers -> {"none", "pending", "resolved", "rejected"}]
         /\ \A w \in Writers : writes[w] \in Over => writes'[w] = writes[w]
         /\ state = "connecting" => writes' = writes
  BY DEF IInv, TypeOK, LifecycleSound, Writing, WriteBegins, WriteSettles, Begins, Over

LEMMA LifecycleKeeps ==
  ASSUME IInv, Lifecycle
  PROVE  /\ state' \in {"connecting", "open", "closing", "closed"}
         /\ closing' \in Reasons \cup {None}
         /\ IF state' = "closed" THEN reason' \in Reasons ELSE reason' = None
         /\ state' = "closing" => closing' \in Reasons
         /\ state' \in {"connecting", "open"} => closing' = None
         /\ state' = "connecting" => state = "connecting"
         /\ state = "closed" => state' = "closed" /\ reason' \in {reason, closing}
  BY DEF IInv, TypeOK, LifecycleSound, Lifecycle, Open, BeginClose, Closed, CloseLate

LEMMA StepSound == IInv /\ [Next]_vars => IInv' /\ [Final]_vars
<1> SUFFICES ASSUME IInv, [Next]_vars PROVE IInv' /\ [Final]_vars
  OBVIOUS
<1>1. CASE Next
  <2>1. Lifecycle /\ Reading /\ Writing
    BY <1>1 DEF Next
  <2>2. TypeOK'
    BY <2>1, ReadingKeeps, WritingKeeps, LifecycleKeeps DEF TypeOK
  <2>3. LifecycleSound'
    <3>1. state' = "connecting" => /\ \A r \in Reads : reads'[r] = "none"
                                   /\ \A w \in Writers : writes'[w] = "none"
      BY <2>1, ReadingKeeps, WritingKeeps, LifecycleKeeps DEF IInv, LifecycleSound
    <3> QED
      BY <2>1, <3>1, LifecycleKeeps DEF LifecycleSound
  <2>4. Final
    BY <2>1, ReadingKeeps, WritingKeeps, LifecycleKeeps DEF Final
  <2> QED
    BY <2>1, <2>2, <2>3, <2>4, ReadingKeeps DEF IInv
<1>2. CASE UNCHANGED vars
  BY <1>2 DEF vars, IInv, TypeOK, StreamSound, LifecycleSound, Resolved
<1> QED
  BY <1>1, <1>2

(* Whatever is a Transport delivers a prefix of the stream, each chunk to  *)
(* a read of its own, and has a reason exactly when it is closed           *)
(* (types.ts, read() and TransportState).                                  *)
THEOREM InterfaceSound == Spec => [](StreamSound /\ LifecycleSound)
<1>1. IInv => StreamSound /\ LifecycleSound
  BY DEF IInv
<1> QED
  BY <1>1, InitSound, StepSound, PTL DEF Spec

(* It settles no promise twice, and after "closed" resolves no read and    *)
(* opens no more (types.ts, Transport).                                    *)
THEOREM InterfaceFinal == Spec => EndsAreFinal
  BY InitSound, StepSound, PTL DEF Spec, EndsAreFinal
=============================================================================
