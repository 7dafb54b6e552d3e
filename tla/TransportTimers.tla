-------------------------- MODULE TransportTimers --------------------------
(***************************************************************************)
(* createTransportTimers (src/src/timers.ts) as functions on its state, a  *)
(* record t of two handles and of the timeouts behind them that may still  *)
(* fire.  A handle keeps its value when its timeout fires.                 *)
(*                                                                         *)
(* A read timeout is named by the read() that set it.  Two names suffice   *)
(* for idle timeouts: one is live at most when the next is set.            *)
(***************************************************************************)
CONSTANTS IdleEnabled,  \* options.idleTimeoutMs is set
          ReadEnabled,  \* options.readTimeoutMs is set
          None          \* undefined

NoTimers == [idleTimer |-> None, idleLive |-> {}, readTimer |-> None, readLive |-> {}]

TimersOf(reads) ==
  [idleTimer : {1, 2, None}, idleLive : SUBSET {1, 2},
   readTimer : reads \cup {None}, readLive : SUBSET reads]

FreshIdle(t) == IF t.idleTimer = 1 THEN 2 ELSE 1

(* Mutation: setTimeout without the clearTimeout before it. *)
ResetIdleUncleared(t) ==
  IF IdleEnabled
  THEN [t EXCEPT !.idleTimer = FreshIdle(t), !.idleLive = @ \cup {FreshIdle(t)}]
  ELSE t

ResetIdle(t) ==
  IF IdleEnabled
  THEN [t EXCEPT !.idleTimer = FreshIdle(t),
                 !.idleLive = (@ \ {t.idleTimer}) \cup {FreshIdle(t)}]
  ELSE t

(* Mutation: as for the idle timer. *)
ResetReadUncleared(t, r) ==
  IF ReadEnabled THEN [t EXCEPT !.readTimer = r, !.readLive = @ \cup {r}] ELSE t

ResetRead(t, r) ==
  IF ReadEnabled
  THEN [t EXCEPT !.readTimer = r, !.readLive = (@ \ {t.readTimer}) \cup {r}]
  ELSE t

ClearIdle(t) == [t EXCEPT !.idleTimer = None, !.idleLive = @ \ {t.idleTimer}]
ClearRead(t) == [t EXCEPT !.readTimer = None, !.readLive = @ \ {t.readTimer}]

(* Mutation: the read timer is forgotten. *)
ClearIdleOnly(t) == ClearIdle(t)

ClearAll(t)  == ClearRead(ClearIdle(t))

IdleFires(t, n) == [t EXCEPT !.idleLive = @ \ {n}]
ReadFires(t, r) == [t EXCEPT !.readLive = @ \ {r}]

(* No timeout survives that the handles do not refer to: such a timeout    *)
(* can never be cleared again and would fire on a session that moved on.   *)
NoOrphanTimeout(t) == /\ t.idleLive \subseteq {t.idleTimer}
                      /\ t.readLive \subseteq {t.readTimer}
============================================================================
