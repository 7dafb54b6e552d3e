# A verification of @browsercore/transport

TLA+ modules of the TCP transport in `src/src/`, TLC configurations that check
them on small instances, and theorems about them proved with TLAPS. Line
numbers refer to the repository's files under `src/src/`.

Parse with `tlasany M.tla`, check with `tlc -workers 2 -config X.cfg M`, prove
with `tlapm M.tla`; the runs are listed under [Runs](#runs).

## The system

The package opens a TCP connection and turns a callback-style socket into
promises. Everything runs on one JavaScript thread; what interleaves is turns:
socket events, timers, promise jobs and the calls of the application, including
the calls that listeners make in the middle of a handler.

| Component | State | Operations | Interacts with |
|---|---|---|---|
| transport session, `transport.ts` 279-523 | `_state`, `pendingRead`, `readBuffer`, the `settled` flag of each `write()`, the `once("close")` callback of `close()` | `read`, `write`, `close`; handlers of `data`, `drain`, `end`, `error`, `close`; `onIdleTimeout`, `onReadTimeout` | the socket (calls and events), the queue and the timers (calls, callbacks), the application's listeners (synchronous callbacks) |
| backpressure queue, `drain.ts` (with `deferred.ts`) | `chain`, `waiter`, the promise of each call | `awaitDrain`, `notifyDrain`, `reject`; the promise jobs of the chain | blocked writes, socket events `drain`, `error`, `close` |
| timers, `timers.ts` | two handles and the timeouts behind them | `resetIdle`, `clearIdle`, `resetRead`, `clearRead`, `clearAll`; two callbacks | the session |
| connection establishment, `transport.ts` 135-346, `connect.ts` | the candidates, the deadline, the last error; for each attempt `settled`, `connected`, its timer, its socket | `connect`, `_establish`, `_openSocket`, `fail`; handlers of `connect`, `error`, `close` before the connection; the connect timer | the resolver, `net.connect`, the clock; hands a socket over to the session |
| DNS resolution, `resolve.ts` | none after it returns | `resolveHost`, `resolveHostCandidates` | the injected resolver |
| random sources, `random-source.ts` | one 32-bit integer | `DeterministicRandom.randomBytes`, `createRandomSource` | Web Crypto |
| event emitter, `events.ts`; errors, `errors.ts`; types, `types.ts`; `utils.ts`; `index.ts` | none | delegation, construction, re-exports | |

What is hard, and what makes each part correct:

* **Backpressure queue.** One slot, filled from a promise job and emptied from a
  socket event. It has to be filled by one call at a time, in order, also after
  a rejected call, and never be left empty while calls queue.
* **Session, reading.** A chunk may meet a pending read, a buffer, a listener
  that reads or closes at that moment, and a read timeout about to fire. Every
  chunk goes to one read, in order; a pending read has its own timeout and no
  other; every read is answered.
* **Session, writing.** The flush callback, `drain`, `error` and `close` all may
  settle a write. None is resolved while its bytes are in the process. None
  should wait on a socket that owes nothing; two findings are about the ways it
  can.
* **Session, lifecycle.** Three handlers and two callbacks write the final
  state. `closing` always ends, `closed` is final with its reason, nothing stays
  behind on a closed socket, an idle session is closed.
* **Hand-over.** The sockets of failed attempts, the socket of the session and the
  promise job of `connect()` run side by side. Only the session's own socket
  closes the transport, no timer or socket is left behind, no gap opens between
  the connect timer and the idle timer.
* **Connecting.** Lookups in either order, attempts that fail early, late or
  never, timers that run late, and dead sockets that still emit events on a
  transport that has moved on. The right candidates, within the budget, nothing
  leaked, and `connect()` settles.

`PROJECT.json` lists the hazards one by one, each at its line with the
properties that cover it or the reason why none does.

## Modules

| Module | Models |
|---|---|
| `Transport` | what a transport promises the layer above (`types.ts`): the lifecycle, the stream of chunks, calls settled once |
| `OrderedFallback` | what `connect()` promises about a host with several addresses |
| `BackpressureQueue` | what the queue promises: one signal serves the first write that has not been told |
| `DrainQueue` | `createDrainQueue`; refines `BackpressureQueue` |
| `TransportTimers` | `createTransportTimers` as functions on its two handles and live timeouts |
| `TransportSession` | a connected `TcpTransport`, composed with `DrainQueue` and `TransportTimers` by INSTANCE; refines `Transport` |
| `ResolveHost` | `resolveHost`, `resolveHostCandidates` as functions of the lookups' answers |
| `Connect` | `connect`, `_establish` and `_openSocket` up to `connect`, composed with `ResolveHost`; refines `OrderedFallback` |
| `Connection` | a transport from `connect()` to its end: `Connect` and `TransportSession` on one state; refines `Transport` |
| `Xorshift32` | the arithmetic of the seeded generator on 32-bit states |
| `DeterministicRandom` | the seeded generator |
| `RandomSource` | the loop of `createRandomSource` |
| `MCDrainQueue`, `MCConnect`, `MCConnection`, `MCDeterministicRandom` | the constants of the runs |
| `DrainQueueProofs`, `TransportSessionProofs`, `TransportWriteProofs`, `TransportRefinementProofs`, `TransportProofs`, `ConnectProofs`, `ConnectionProofs`, `RandomProofs` | theorems and proofs |

### Transport

The interface without sockets, timers or queues. A step makes at most one move
of the lifecycle, one of the reading side and one of the writing side, as one
turn of the code may: a chunk that meets a listener that closes, an error that
rejects a read. `Closed` and `CloseLate` keep the latitude the code needs: a
transport may be closed with another reason before the `close()` under way
resolves, and that `close()` then records its own (the finding of `closed_twice`).
What it excludes: a second outcome of any promise, a chunk out of order or after
`closed`, a call begun on a transport that is not open, a way back to `open`. What a user of the interface concludes from it is stated
there too: `StreamSound` (the chunks taken are a prefix of those that arrived,
as many as there are resolved reads), `LifecycleSound` and `EndsAreFinal`.

### DrainQueue

`chain.then(cb)` is `AwaitDrain(w)`: `prev[w]` is what `chain` referred to, the
new `chain` is the `.catch` of `w`'s promise. `cb` runs as the job `ArmWaiter(w)`
once `prev[w]` has settled either way (`ChainSettled`), `SettleNext(w)` stands
for the jobs between the deferred and the handlers of `next`. `notifyDrain` and
`reject` answer the waiter. `Stage` follows one call: queued, armed, released or
refused (the deferred is settled, the jobs have not run), resolved or rejected.

### TransportSession

One action is one turn. A turn goes through several calls, so the parts of the
state are records and the calls functions on them, composed in the code's
order: the data handler is `DataTimers`, then the listener (`ListenerCloses`,
or `TakeRead` by the listener), then `Deliver`.

* `life`: `_state`, its reason, and in `closing` the reason the registered
  `once("close")` callback will record (`None` when none is registered). That
  callback runs at the end of the turn of `OnClose`, after the handler.
* `reading`: `readBuffer`, `pendingRead`, what each `read()` came to. Chunks
  are numbered as they arrive; `delivered` is the history of what reads got.
* `timers`: the record of `TransportTimers`. A read timeout is named by the
  read that set it, so the property that a late timeout cannot hit another read
  can be stated. `clearTimeout` removes from the live set only the timeout the
  handle refers to, as in the code.
* `write`: what each `write()` came to; `flushing` when `socket.write` returned
  true, `blocked` when it waits in the queue. The test of `settled` is the test
  that the write is still waiting.
* `socket`: the `net.Socket`, external: buffered writes, callbacks owed an
  error, whether a `drain` is due, and how far it has come on its way from `up`
  to `gone`. It behaves as Node's does: a destroyed socket emits `error` (if any)
  and then `close` (some adapters emit `close` alone, which is then the handler's
  only news of the error); `drain` comes once, when a full buffer has become empty and
  the socket is not ending, before the callback of the last write; a write to a
  socket that has ended is refused and destroys it.

`ErrorReactions` and `DataReactions` (of `data` and `end` listeners) say what
listeners do: nothing, `read()`, `close()`, or `absent`, nobody listening, where
`emit("error")` throws. Listeners of `state` and `close` are left out: when they
run the transport is not open, but for `state` with `open` before anyone has the
transport, so `close()` does nothing and `read()` and `write()` throw.
`OverlappingReads` and `OverlappingWrites` say whether the application issues
a call while one is pending. Durations are left out: a live timeout may fire in
any turn of its own.

Turns are ordered as Node orders them. Promise jobs run before the next task, a
timer or the `close` that a handle reports (`TaskTurn`). Other socket events may
overtake queued promise jobs (`SocketTurn`): what the socket emits from
`process.nextTick`, as the `drain` of a large write that the kernel takes at
once, goes before them. Every run but one has `EarlySocketEvents` TRUE;
`overlapping_writes` leaves early events out, so that its finding does not rest
on one. `StrandedOnlyByEarlyDrain` says what they can do to a lone write:
`Owed(w)` is what will still settle it (an error for its callback, its answered
waiter, or a waiter in place for a signal to come), and only a `drain` emitted
while `w` is still `queued` may take the last of that away.

### Connect

`lookups` holds the answers of the two lookups, `establish` the local variables
of `_establish` and where it is, `attempts` one record per `_openSocket`: its
flags, its promise, its timer and its socket. The handlers of dead attempts stay
enabled until their socket is `gone`, which is what `fail()` and its flags are
about. `TryCandidate` is the body of the loop, `net.connect` throwing included.

`now` is `Date.now()`. Promise jobs run at once (the clock stands still while
one is queued) and a timer runs at most `Lag` late. `_establish` reads the clock
twice in a turn, at the deadline test (214) and for the next attempt's timer
(204): between the two it may move on by `Drift`, so the budget may have run out
in between and `Math.max(remaining, 1)` matters. The budget may be 0. The promise
of an attempt settles once (`SettleOnce`), whatever is called after that. A
lookup may be rejected with an error or with `undefined`, which `??` passes over
(`Failed`).

`OrderedFallback` leaves out sockets, timers and the budget: addresses are
dialled in order, each after the one before has failed, the first that answers is
taken, and the rejection is the failure of the last one dialled. When to stop
before the last address is left open, the budget being `Connect`'s. A dead
attempt is in it once: what its socket emits later is a stutter.

### Connection

`Connect` and `TransportSession` share `_state` and the timers. Until the
connect handler (`OnConnect`) the variables of the session are those of a new
object; the handler opens the transport and sets the idle timer, and from then
on the session's events interleave with those of the failed attempts' sockets,
told apart by `connected`. `connect()` resolves a promise job later: socket
events may come before that job, calls of the application only after it.
The idle timeout is set; the read timeout, the overlap of reads and what listeners
do are constants as in `TransportSession`, except that listeners act on the
transport only once `connect()` has resolved, nobody having it before.

### DeterministicRandom

A state is the set of its one bits (`Xorshift32`), so the shifts and the exclusive or are set
operations and the width is exact; `>>` copies the sign.

### RandomSource

The loop over subarrays; `drawn` counts how often each byte was filled. There is
no run: the state is one loop variable and the theorem covers every length.

## Runs

All bounds are constants of the configurations.

| Run | Bounds | Checks |
|---|---|---|
| `drain_queue` | 4 writes | the queue: types, waiter, order, never stuck, handed on, refinement of `BackpressureQueue` |
| `session_reads` | 3 reads, 1 write, 3 chunks, overlapping reads, listeners that read and close, both timeouts | stream order, timers, lifecycle, refinement of `Transport` |
| `session_settles` | 2 reads, 2 writes, 2 chunks, one call of each kind at a time, `data` listeners that close; fair | promises settle, `close()` completes, idle closes, only an early `drain` strands a write, no write resolved too early |
| `connect` | 9 answers per lookup, both preferences, budget 6, cap 3, lag 1, drift 1, lookups up to 2; fair | candidates, DNS error, budget, fallback, release, hand-over, settling, refinement of `OrderedFallback` |
| `connection` | an IPv4 and an IPv6 address, either answered to either lookup, budget 2, cap 1, no lag; 1 read, 1 write, 2 chunks, listeners that read and close, idle timeout; fair | chunks in order, those that arrive before `connect()` has resolved included, closed by its own socket only, nothing left behind, never unwatched, no write resolved too early, refinement of `Transport`, and it ends |

These pass. Why the bounds suffice: four writes are a settled, a served and two
queued calls, so that a call is chained on one that is itself chained. Three
reads are one answered, one pending and one overlapping or issued by a listener;
three chunks leave two in the buffer with one delivered. Two writes give one
in the buffer or owed an error with another behind it; more writes, overlapping,
are covered by the theorem `ResolvedWritesSent`. `connection` has what its
questions need, two attempts of which the first can fail by its timer, an error
or a close, one call of each kind, and two chunks that may come before the
hand-over, after it or one on each side; read timers and several reads are the
matter of `session_reads`, and all of its safety properties are proved without
bounds, in `Connection` too. The code tries at most two candidates, so no more
attempts exist; the nine answers are a failure with and without a reason, none,
each family with and without the family reported, and two addresses in either
order; as either lookup may give each of them, addresses of the wrong family and
the same address twice are among them. Budget 6, cap 3, lag 1 and drift 1 let the
first attempt end before, at and after its cap with time left for the second,
which can end before, at or after the deadline; the clock can reach the deadline
between its two readings. The proofs cover the other values, a budget of 0 among
them.

The rest find a disagreement between the code and what the repository says:

| Run | Violated | What happens |
|---|---|---|
| `overlapping_reads` | `ReadsAnsweredWhenGone` | a second `read()` replaces the pending one, whose promise nobody settles (434) |
| `overlapping_writes` | `NoStrandedWrite` | one `drain` for two blocked writes releases one; the other waits for a socket that owes nothing (294) |
| `early_drain` | `NoStrandedWrite` | one blocked write; its `drain` is emitted before the promise job that arms the waiter and is dropped; the write waits although its bytes were flushed (`drain.ts` 60) |
| `closed_twice` | `ClosedIsFinal` | an error during `close()` gives `closed`/`error`, then the callback of `close()` gives `closed` with the reason it was called with, `client_close` or `timeout` (464) |
| `idle_reason` | `IdleClosesWithTimeout` | an error listener that closes is quicker than `close({kind: "timeout"})` (187) |
| `short_budget` | `FallbackAlwaysTried` | a budget not above 300 ms is used up by a silent first candidate (205) |
| `seeds` | `DifferentSeedsDiffer` | the signed shift makes the generator two-to-one: seeds 1 and 0xFC001FFE agree on every byte (`random-source.ts` 36) |

`ReadsAnsweredWhenGone` is checked to hold in `session_settles`, with one read at
a time; `StrandedOnlyByEarlyDrain`, there too, is what holds of a write when
writes do not overlap, and the two runs that violate `NoStrandedWrite` are the two
ways around it. `IdleClosesWithTimeout` is checked there with listeners that leave
the transport alone; `FallbackTried` in `connect` is the fallback with the
condition on the budget that the code needs; `ClosedReasonKept` in
`session_reads` is what remains of the finality of `closed`.

One more disagreement needs no run, since a property that holds states it:
`HandsOverSession` says that a transport is `connecting` until an attempt has
connected, also when the last has failed, where the comment at 310-313 speaks of
a transition that reports a failed `connect()`.

`seeds` stops at `MaxBytes`, so it alone turns the deadlock check off.

### Fairness

`DrainQueue!FairSpec`: promise jobs run; no signal is owed. `TransportSession!FairSpec`:
promise jobs run, timers that are set expire, a destroyed socket emits its
`error` and `close`, answers the callbacks it holds and reports a write in
flight, a socket that ended on both sides finishes. Nothing is owed by the peer,
by the kernel or by the application: a full buffer may stay full and a silent
peer silent, so `Settles` starts from a destroyed socket, and the answers to
reads come from their timeouts. `Connect!FairSpec`: promise jobs and timers run
and the clock goes on; no lookup has to settle (`ConnectSettles` starts once
both have) and no socket has to emit anything. `Connection!FairSpec` takes the
fairness of `Connect` while connecting, the promise jobs and the idle timer,
whatever the error listeners do when it expires;
the peer owes nothing, so `ConnectionEnds` says that the connect timer, the
budget and the idle timer together leave a silent peer no gap. `AlwaysWatched`
is the safety side of it: at no moment is there neither a job nor a timer that
would act on the silence. `closing` is
where it stops: a peer that never ends its side holds up a `close()` for ever,
and `CloseCompletes` (in `session_settles`) starts from a socket that has ended.

## Proofs

**DrainQueue**, for any set of writers. `WaiterNeverLost` is not inductive: that
`ArmWaiter` finds the slot empty depends on the shape of the chain. The
invariant `IInv` says that the calls, in order, are k settled ones, one being
served or to be served next, and queued ones, each chained on the one before.
From it: `TypeCorrect`, `WaiterSafe`, `Fifo`, `Unstuck`, and `Refinement`, that
`DrainQueue` implements `BackpressureQueue` under the mapping `Outcome`.

**TransportSession**, for any sets of reads and writes, number of chunks, kinds
of listeners. `SessionInv` joins types, the reading side, the timers and the
lifecycle. The parts need each other: a chunk may clear the read timer because
after it no read is pending, `clearAll` silences the session because no timeout
is orphaned, and `OnClose` ends in `closed` because a `closing` transport has
its callback registered. From it: `ChunksDelivered`, `ReadsDoNotMiss`,
`ReadsTimed`, `NoTimerLost`, `LifecycleSound`, `QuietAfterClose`, `ReasonKept`;
and, each under a hypothesis the violated runs and the hazards show necessary,
`EveryReadAnswered` (reads do not overlap), `IdleReasonRecorded` (error
listeners leave the transport alone) and `IdleAlwaysArmed` (there is an error
listener, otherwise the timer expires and the transport stays open).
`UsesDrainQueue` shows that a session runs the queue as `DrainQueue` specifies
it, and `WritesServedInOrder` takes the queue's theorems over to the session.

**Writes** (`TransportWriteProofs`). `ResolvedWritesLeft` is not inductive: it
needs what the socket still holds of a write that the queue has released.
`WriteInv` says that a write is held at most once, in the buffer or owed an
error, and that a write not yet issued, released or resolved is not held; hence
`ResolvedWritesSent`, for overlapping writes and any order of socket events and
promise jobs. `WritesNotStranded` is the converse for one write at a time, in any
order of socket events and promise jobs: a write loses what would settle it
(`Owed`) in one kind of step only, a `drain` emitted while its waiter is not yet
armed. `BlockedInv` says that a flushing write is held by the socket, that a
blocked one is owed an error, is answered, or has its waiter in place or next to
be armed (`Pends`), and that on a live socket the queue serves blocked writes
only. `LeftWaitingOnlyStranded` closes the circle: a write that waits when the
socket owes nothing has lost it. That such a `drain` does come is the run
`early_drain`.

**Refinement** (`TransportRefinementProofs`). `SessionIsTransport`: every turn
is, under the mapping in `TransportSession`, a step of `Transport`. The lifecycle
part needs that `Close` composed with a listener's `Close` moves once, the
reading part that a pending read is the one marked pending (`PendingMarked`)
and that chunks are in order.

**Interface** (`TransportProofs`), for any finite or infinite sets of calls.
`InterfaceSound` and `InterfaceFinal` are what the abstract `Transport` is good
for. That each chunk goes to a read of its own is `Cardinality(Resolved) =
Len(taken)`, which needs that the resolved reads are a finite set and that a
read becomes resolved in the step that takes a chunk. The refinement carries
both theorems to the code: `SessionKeepsInterface`, `ConnectionKeepsInterface`.

**Connect**, for any answers, budget, cap, lag and drift, from `ConnectAssumption`
(an answer is a rejection or a sequence of addresses, families are 0, 4 or 6, the
cap is positive). `IInv` says that the flags, the timer and the
socket of each attempt agree with its promise, that every attempt but the last
has failed, what each phase of `_establish` has come to, and how much time the
first attempt may have used (`InTime`). `Budget` bounds `connect()` by
`LatestTimer + Lag`: the budget, but 1 ms at least, counted from the deadline, and
one drift of the clock. From the invariant: `ResolutionSound`, `DnsErrorsSound`, `Budget`,
`Fallback`, `AttemptsReleased`, `Handover`, and `FallsBackInOrder`,
that `Connect` implements `OrderedFallback`. The abstract failures are the errors
of the rejected attempts, which are a sequence because `IInv` makes every attempt
but the last a rejected one (`FailuresShape`): dialling appends a pending or a
failed attempt, a failure of the last appends its cause, and an event of a dead
socket changes no error (`AttemptSound`), so it stutters.

**Connection**, from `ConnectionAssumption` (those of `Connect`, and `None` is no
call). `CInv` puts the two invariants together: the establishment is sound with
`open` standing for every state after `connecting`, and either the session's
variables are untouched or the session's invariants hold. A turn of the session
cannot happen before the connection, the connect handler can run only once
(`OneConnection`) and leads to the initial state of a session, and every other
step is one of the two parts with the other standing still. From it:
`EstablishesAsConnect`, which carries the theorems on `Connect` over,
`OwnSocket`, `NothingLeft`, `WritesSent`, `ReadsSound` (the session's promises on
reads hold from `connect()` on), `ChunksKept` (bytes that arrive before the
hand-over included), `FallsBackAsPromised` and `ConnectionIsTransport`.
`NoUnwatchedMoment` joins three parts: while an attempt is pending its timer is
due within the budget, a settled one has its promise job, and an open transport
has its idle timer (`IdleArmedStep`, for error listeners that may close but not
be absent). The long
lists of definitions at its beginning identify the instances of one module that
`Connection` and the proof modules make.

**Random sources** (`RandomProofs`). For every length, with the real limit of 65536: `LoopInv` says
that the bytes below `offset` have been drawn once and no others, from which
`EveryByteDrawnOnce`. For every state, one step of the generator is linear over
exclusive or (`XorshiftLinear`), and its kernel is the empty state and `Lost`,
the 19 bits of 0xFC001FFF. So `StatesMerge`: two states have the same successor
exactly when they are equal or differ in those bits, and every seed has one
twin; `OnlyZeros` names the one seed that leads to zeros. That twins agree on
every byte, for every length, is induction over the sequence and stays with the
run `seeds`.

Only model-checked: the liveness properties (`HandedOn`, `Settles`,
`ReadsAnswered`, `IdleCloses`, `CloseCompletes`, `ConnectSettles`,
`ConnectionEnds`), which the prover does not handle. Every other property of the
passing runs is a theorem. `ENABLED` and so deadlock freedom are TLC's too.

## Not modelled

* `events.ts`: every method delegates to the injected provider. What `emit`
  does when a listener throws or is missing is the provider's; the session has
  the case of a missing error listener.
* `errors.ts`: immutable data and wording; errors appear by their kind.
* `createId`, `assertNever`, `index.ts`: no state. The id `connect` mints is a
  label nobody compares.
* The datagram interfaces of `types.ts` have no implementation here.
* Of the promises of `close()` the one that waits is `life.closing`; the others
  resolve at once. Chunks' contents, `noDelay`, `localAddress`.
* Two transports on one `EventProvider`, and a listener that throws: both are
  the injected provider's and the application's matter.
* A socket that emits `connect` after `destroy()`, and one that calls back
  before `socket.write` returns: Node's does neither.
* A `close()` whose peer never ends: nothing in the code bounds it, no document
  says it is bounded, and no property is about it.

## Plan

Done, in this order: the queue and its abstract specification, the timers, the
session, its proofs, resolution, connecting, its proofs, the random sources; the
interface and the proof that a session implements it, the proofs about writes,
the composition of connecting and session with its proofs; listeners that act
during `Connection`, the ordered fallback and its refinement, the theorems about
the interface and their transfer to the code, the algebra of the generator.

Left: the contract of the socket adapter, stated on its own, so that the cases Node's
sockets rule out (a callback before `write` returns, a `connect` after `destroy`)
become assumptions of a module.
