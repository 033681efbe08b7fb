--------------------------- MODULE SnapshotEngine ---------------------------
(***************************************************************************)
(* One symbol's SnapshotEngine (internal/engine/snapshot.go): the Run loop *)
(* that consumes normalized events and the one-second ticker, and the      *)
(* goroutines, one per second, that wait for the late-arrival grace and    *)
(* finalize the snapshot of that second.                                   *)
(*                                                                         *)
(* updateVenueState runs under e.mu from its first line to its last, so it *)
(* is one step.  finalizeSnapshot takes e.mu twice, first shared to read   *)
(* and then exclusive to write, and publishes after the second unlock: it  *)
(* is three steps (FinalizeRead, FinalizeWrite, FinalizePublish) and other *)
(* goroutines run between them.                                            *)
(*                                                                         *)
(* Time is a clock of whole units, Second of them to a second.  How late   *)
(* the loop and a finalizer may run is a constant (LoopLag, FinalizeLag):  *)
(* the clock does not pass a deadline nobody has met.                      *)
(*                                                                         *)
(* A price of zero is not refused: it is a canonical price like any other, *)
(* except that the zero test of finalizeSnapshot takes it for no price,    *)
(* and that a median of zero panics.  The loop recovers from a panic and   *)
(* ends with its context; a finalizer does not, and the process ends.      *)
(***************************************************************************)
EXTENDS Pricing, Sequences

CONSTANTS
    TradePrices,      \* prices the trades of the model carry
    QuotePairs,       \* <<bid, ask>> pairs the quotes of the model carry
    Second,           \* clock units in a second
    Grace,            \* pricing.late_arrival_grace_ms
    CarryForwardMax,  \* pricing.carry_forward_max_seconds
    SourceThrottle,   \* sourceThrottleInterval
    MaxFinalizers,    \* capacity of finalizeSem
    LoopLag,          \* the ticker is served at most so late
    FinalizeLag,      \* a finalizer is done at most so late after it wakes
    MaxDelay,         \* an event arrives at most so long after its exchange time
    MaxEvents,        \* bound: events the loop consumes
    MaxSecond,        \* bound: the last second the ticker serves
    MaxTime           \* bound: the last instant of the clock

Seconds == 0..MaxSecond
EndOf(s) == (s + 1) * Second

Tick == [ts : Nat, price : Nat, basis : CanonicalBases, stale : BOOLEAN,
         degraded : BOOLEAN, sources : SUBSET Venues]

Snapshot == [second : Seconds, refs : Refs, price : Nat,
             basis : CanonicalBases \cup {"carry_forward"}, stale : BOOLEAN, degraded : BOOLEAN,
             carryStart : Nat \cup {None}, finalizedAt : Nat]

ASSUME EngineAssumption ==
    /\ TradePrices \subseteq 0..MaxPrice
    /\ QuotePairs \subseteq (0..MaxPrice) \X (0..MaxPrice)
    /\ Second \in Nat \ {0} /\ Grace \in Nat /\ CarryForwardMax \in Nat
    /\ SourceThrottle \in Nat /\ MaxFinalizers \in Nat \ {0}
    /\ LoopLag \in Nat /\ FinalizeLag \in Nat /\ MaxDelay \in Nat
    /\ None \notin Tick \cup Snapshot
    /\ MaxEvents \in Nat /\ MaxSecond \in Nat /\ MaxTime \in Nat

VARIABLES
    now,             \* time.Now()
    running,         \* the Run loop has not seen ctx.Done
    nextSecond,      \* the second at whose end the ticker fires next
    events,          \* how many events the loop has consumed
    venueStates,     \* e.venueStates
    lastCanonical,   \* e.lastCanonical, 0 before the first price and when it is 0
    carryStart,      \* e.carryStart, None when not carrying
    latestState,     \* e.latestState: the last tick, None before it
    sourceLastEmit,  \* e.sourceLastEmit
    sem,             \* slots taken in e.finalizeSem
    fin,             \* the finalizer goroutine of each second
    snapshotCh       \* the snapshots handed to the output channels, in order

engineVars == <<venueStates, lastCanonical, latestState, sourceLastEmit>>
vars == <<now, running, nextSecond, events, venueStates, lastCanonical, carryStart,
          latestState, sourceLastEmit, sem, fin, snapshotCh>>

Active == {"sleep", "write", "publish"}

Idle == [pc |-> "idle", wakeAt |-> 0, snap |-> None]

\* A finalizer is "gone" when the process ended under it.
Finalizer == [pc : Active \cup {"idle", "done", "gone"}, wakeAt : Nat,
              snap : Snapshot \cup {None}]

NoVenues == [v \in Venues |-> [lastTrade |-> None, lastQuote |-> None]]

Init ==
    /\ now = 0 /\ running = TRUE /\ nextSecond = 0 /\ events = 0
    /\ venueStates = NoVenues
    /\ lastCanonical = 0 /\ carryStart = None /\ latestState = None
    /\ sourceLastEmit = [v \in Venues |-> None]
    /\ sem = 0 /\ fin = [s \in Seconds |-> Idle]
    /\ snapshotCh = <<>>

-----------------------------------------------------------------------------
\* Time passes, unless the loop or a finalizer is at its latest.
AdvanceClock ==
    /\ now < MaxTime
    /\ running => now < EndOf(nextSecond) + LoopLag
    /\ \A s \in Seconds : fin[s].pc \in Active => now < fin[s].wakeAt + FinalizeLag
    /\ now' = now + 1
    /\ UNCHANGED <<running, nextSecond, events, engineVars, carryStart, sem, fin, snapshotCh>>

\* Mutant: the latest state is not replaced.
KeepLatestState(tick) == UNCHANGED latestState

UpdateLatestState(tick) == latestState' = tick

\* A tick when the price of the venues known so far differs from the last one.
EmitTick(venues, ts) ==
    LET refs      == ComputeVenueRefs(venues, now)
        canonical == ComputeCanonical(refs)
    IN  IF Sources(refs) = {} \/ canonical.price = lastCanonical
        THEN UNCHANGED <<lastCanonical, latestState>>
        ELSE /\ lastCanonical' = canonical.price
             /\ UpdateLatestState(
                   [ts |-> ts, price |-> canonical.price, basis |-> canonical.basis,
                    stale |-> FALSE,
                    degraded |-> Cardinality(Sources(refs)) < MinimumHealthySources,
                    sources |-> Sources(refs)])

\* At most one source price per venue and throttle interval.
EmitSourcePrice(v) ==
    IF sourceLastEmit[v] # None /\ now - sourceLastEmit[v] < SourceThrottle
    THEN UNCHANGED sourceLastEmit
    ELSE sourceLastEmit' = [sourceLastEmit EXCEPT ![v] = now]

WithTrade(v, price, ts) ==
    [venueStates EXCEPT ![v].lastTrade = [price |-> price, ts |-> ts]]

\* The loop takes a trade: it replaces the venue's last one whatever their
\* timestamps are.
TakeTrade(venues) ==
    /\ running /\ events < MaxEvents
    /\ events' = events + 1
    /\ venueStates' = venues
    /\ UNCHANGED <<now, nextSecond, carryStart, sem, fin, snapshotCh>>

\* updateVenueState of a trade.
ProcessTrade(v, price, ts) ==
    LET venues == WithTrade(v, price, ts)
    IN  /\ TakeTrade(venues)
        /\ ~Panics(ComputeVenueRefs(venues, now))
        /\ EmitTick(venues, ts)
        /\ EmitSourcePrice(v)
        /\ UNCHANGED running

\* emitTick panics: Run unwinds, the deferred calls wait for the finalizers, and
\* safeGo recovers and cancels the context of every goroutine.
TradePanics(v, price, ts) ==
    LET venues == WithTrade(v, price, ts)
    IN  /\ TakeTrade(venues)
        /\ Panics(ComputeVenueRefs(venues, now))
        /\ running' = FALSE
        /\ UNCHANGED <<lastCanonical, latestState, sourceLastEmit>>

\* updateVenueState of a ticker event: no tick is emitted.
ProcessTicker(v, bid, ask, ts) ==
    /\ running /\ events < MaxEvents
    /\ events' = events + 1
    /\ venueStates' = [venueStates EXCEPT ![v].lastQuote =
                          [bid |-> bid, ask |-> ask, ts |-> ts]]
    /\ UNCHANGED <<now, running, nextSecond, lastCanonical, carryStart, latestState,
                   sourceLastEmit, sem, fin, snapshotCh>>

ExchangeTimes == {t \in 0..now : now - t <= MaxDelay}

ConsumeEvent ==
    \E v \in Venues, ts \in ExchangeTimes :
        \/ \E p \in TradePrices : ProcessTrade(v, p, ts) \/ TradePanics(v, p, ts)
        \/ \E q \in QuotePairs : ProcessTicker(v, q[1], q[2], ts)

-----------------------------------------------------------------------------
\* The ticker fires at the end of nextSecond.  A tick served late still carries
\* the time it was due; the ones due meanwhile are lost.
ServeTicker ==
    /\ running /\ nextSecond \in Seconds /\ now >= EndOf(nextSecond)
    /\ nextSecond' = now \div Second

SpawnFinalizer ==
    /\ ServeTicker
    /\ sem < MaxFinalizers
    /\ sem' = sem + 1
    /\ fin' = [fin EXCEPT ![nextSecond] =
                  [pc |-> "sleep", wakeAt |-> now + Grace, snap |-> None]]
    /\ UNCHANGED <<now, running, events, engineVars, carryStart, snapshotCh>>

\* The semaphore is full: the second gets no snapshot.
SkipSecond ==
    /\ ServeTicker
    /\ sem >= MaxFinalizers
    /\ UNCHANGED <<now, running, events, engineVars, carryStart, sem, fin, snapshotCh>>

\* Mutant: the watermark is not waited for.
AwakeAtOnce(s) == fin[s].pc = "sleep"

Awake(s) == fin[s].pc = "sleep" /\ now >= fin[s].wakeAt

\* Mutant: nothing is carried.
NothingFresh(refs) == Sources(refs) = {}

\* No usable venue and nowhere to carry from yet.
NothingToPublish(refs) == Sources(refs) = {} /\ lastCanonical = 0

\* What the finalizer of second s makes of the state it reads.
FreshSnapshot(s, refs) ==
    LET canonical == ComputeCanonical(refs)
    IN  [second |-> s, refs |-> refs, price |-> canonical.price,
         basis |-> canonical.basis, stale |-> FALSE, degraded |-> canonical.degraded,
         carryStart |-> None, finalizedAt |-> now]

CarriedSnapshot(s, refs) ==
    [second |-> s, refs |-> refs, price |-> lastCanonical, basis |-> "carry_forward",
     stale |-> TRUE, degraded |-> TRUE, carryStart |-> carryStart, finalizedAt |-> now]

\* Mutant: the early return forgets the slot.
GiveUpKeepingSlot(s) == fin' = [fin EXCEPT ![s].pc = "done"] /\ UNCHANGED sem

\* The early return; the deferred function frees the slot.
GiveUp(s) == fin' = [fin EXCEPT ![s].pc = "done"] /\ sem' = sem - 1

\* The goroutine of second s goes on to stage pc with the snapshot it holds.
HoldAt(s, pc, snap) ==
    fin' = [fin EXCEPT ![s] = [pc |-> pc, wakeAt |-> fin[s].wakeAt, snap |-> snap]]

Prepare(s, snap) ==
    /\ HoldAt(s, "write", snap)
    /\ UNCHANGED sem

\* Under RLock, once the grace is over.
FinalizeRead(s) ==
    LET refs == ComputeVenueRefs(venueStates, EndOf(s))
    IN  /\ Awake(s) /\ ~Panics(refs)
        /\ IF NothingToPublish(refs)
           THEN GiveUp(s)
           ELSE Prepare(s, IF Sources(refs) = {} THEN CarriedSnapshot(s, refs)
                                                 ELSE FreshSnapshot(s, refs))
        /\ UNCHANGED <<now, running, nextSecond, events, engineVars, carryStart, snapshotCh>>

\* computeCanonical panics in a goroutine that nothing recovers: the process ends,
\* and with it every goroutine and what the engine knew.
FinalizePanics(s) ==
    /\ Awake(s) /\ Panics(ComputeVenueRefs(venueStates, EndOf(s)))
    /\ running' = FALSE /\ venueStates' = NoVenues
    /\ lastCanonical' = 0 /\ carryStart' = None /\ latestState' = None
    /\ sourceLastEmit' = [v \in Venues |-> None] /\ sem' = 0
    /\ fin' = [t \in Seconds |-> IF fin[t].pc \in Active THEN [fin[t] EXCEPT !.pc = "gone"]
                                                        ELSE fin[t]]
    /\ UNCHANGED <<now, nextSecond, events, snapshotCh>>

\* Mutant: every carried snapshot restarts the carry.
CarryRestart(snap) == snap.finalizedAt

CarryFrom(snap) == IF carryStart = None THEN snap.finalizedAt ELSE carryStart

\* Mutant: the price to carry is that of the second critical section.
CarriedPriceReread(snap) == lastCanonical

CarriedPrice(snap) == snap.price

\* Under Lock: a carried snapshot starts the carry unless one is running, a
\* fresh one ends it and becomes the canonical price, whatever was written
\* since the read.
FinalizeWrite(s) ==
    LET snap == fin[s].snap
    IN  /\ fin[s].pc = "write"
        /\ IF snap.stale
           THEN /\ carryStart' = CarryFrom(snap)
                /\ HoldAt(s, "publish", [snap EXCEPT !.carryStart = CarryFrom(snap),
                                                     !.price = CarriedPrice(snap)])
                /\ UNCHANGED lastCanonical
           ELSE /\ lastCanonical' = snap.price
                /\ carryStart' = None
                /\ HoldAt(s, "publish", snap)
        /\ UNCHANGED <<now, running, nextSecond, events, venueStates, latestState,
                       sourceLastEmit, sem, snapshotCh>>

\* The snapshot goes to the writer's and the broadcaster's queues.
FinalizePublish(s) ==
    /\ fin[s].pc = "publish"
    /\ snapshotCh' = Append(snapshotCh, fin[s].snap)
    /\ fin' = [fin EXCEPT ![s].pc = "done"]
    /\ sem' = sem - 1
    /\ UNCHANGED <<now, running, nextSecond, events, engineVars, carryStart>>

\* ctx is cancelled; finalizers that have started run to their end.
Stop ==
    /\ running
    /\ running' = FALSE
    /\ UNCHANGED <<now, nextSecond, events, engineVars, carryStart, sem, fin, snapshotCh>>

\* finalizeWg.Wait has returned: Run is over.
Stopped ==
    /\ ~running /\ sem = 0
    /\ UNCHANGED vars

Finalize(s) ==
    FinalizeRead(s) \/ FinalizePanics(s) \/ FinalizeWrite(s) \/ FinalizePublish(s)

Next ==
    \/ AdvanceClock \/ ConsumeEvent \/ SpawnFinalizer \/ SkipSecond
    \/ \E s \in Seconds : Finalize(s)
    \/ Stop \/ Stopped

Spec == Init /\ [][Next]_vars

\* The runtime schedules every runnable goroutine, the loop serves a fired
\* ticker and time goes on.
Fairness ==
    /\ WF_vars(AdvanceClock)
    /\ WF_vars(SpawnFinalizer \/ SkipSecond)
    /\ \A s \in Seconds : WF_vars(Finalize(s))

FairSpec == Spec /\ Fairness

-----------------------------------------------------------------------------
(* Properties. *)

\* Every variable has its type: the run loop's, the finalizers' and what they
\* share under e.mu and e.latestMu.
TypeOK ==
    /\ now \in Nat /\ running \in BOOLEAN /\ nextSecond \in Nat /\ events \in Nat
    /\ venueStates \in [Venues -> VenueState]
    /\ lastCanonical \in Nat /\ carryStart \in Nat \cup {None}
    /\ latestState \in Tick \cup {None}
    /\ sourceLastEmit \in [Venues -> Nat \cup {None}]
    /\ sem \in Nat /\ fin \in [Seconds -> Finalizer]
    /\ snapshotCh \in Seq(Snapshot)

Published == {snapshotCh[i] : i \in DOMAIN snapshotCh}
Announcing == {fin[s].snap : s \in {t \in Seconds : fin[t].pc = "publish"}}
InFlight == {fin[s].snap : s \in {t \in Seconds : fin[t].pc \in {"write", "publish"}}}

\* A slot of finalizeSem is taken exactly while its goroutine lives, on the
\* early return without a price too, and the capacity is never exceeded: a
\* leaked slot would, ten seconds on, skip every second for good.
SemaphoreMatches ==
    /\ sem = Cardinality({s \in Seconds : fin[s].pc \in Active})
    /\ sem <= MaxFinalizers

Carried(snap) == snap.stale /\ snap.price # 0 /\ Sources(snap.refs) = {}

\* The engine carries only a price it had: a snapshot that is stale has no source
\* and a price other than zero, and a carry that is running started with one that
\* was published or is about to be. finalizeSnapshot tests lastCanonical under
\* RLock and starts the carry under another lock, after which trades may have made
\* the price anything, zero too.
CarryNeedsPrice ==
    /\ \A snap \in Published \cup InFlight : snap.stale => Carried(snap)
    /\ carryStart # None =>
          \E snap \in Published \cup Announcing : Carried(snap) /\ snap.finalizedAt = carryStart

\* The reference lies in the window that ends with the second: nothing from
\* after it, although it is read a grace later, and nothing older than the
\* freshness of its kind.
InWindow(ref, s) ==
    /\ ref.ts <= EndOf(s)
    /\ EndOf(s) - ref.ts <= IF ref.basis = "trade" THEN TradeFreshness ELSE QuoteFreshness

\* A snapshot that is not stale is a price of its own second: every reference
\* in it is in the second's window, and its price is between the lowest and
\* the highest of them.
SnapshotGrounded ==
    \A snap \in Published \cup InFlight : ~snap.stale =>
        /\ \A v \in Sources(snap.refs) : InWindow(snap.refs[v], snap.second)
        /\ \E v, w \in Sources(snap.refs) :
              snap.refs[v].price <= snap.price /\ snap.price <= snap.refs[w].price

\* The canonical price the next tick is compared with was announced: it is
\* the price of the last tick, or of a fresh snapshot published or about to be.
CanonicalAnnounced ==
    lastCanonical # 0 =>
        \/ latestState # None /\ latestState.price = lastCanonical
        \/ \E snap \in Published \cup Announcing :
              ~snap.stale /\ snap.price = lastCanonical

\* However late the loop serves a tick and a finalizer runs, the finalizer of a
\* second is done before the next second ends.
Timely == LoopLag + Grace + FinalizeLag < Second

\* When finalizers are timely and no trade has price zero, the snapshots published
\* are those of consecutive seconds, in order, each once: once there is a price no
\* second is left out. A price of zero leaves out every second nobody trades in.
NoGap ==
    \A i \in 1..(Len(snapshotCh) - 1) :
        snapshotCh[i + 1].second = snapshotCh[i].second + 1

\* Seconds of carry forward, truncated towards zero as int() does.
CarryDuration(snap) ==
    IF snap.finalizedAt >= snap.carryStart
    THEN (snap.finalizedAt - snap.carryStart) \div Second
    ELSE -((snap.carryStart - snap.finalizedAt) \div Second)

\* computeQuality of a stale snapshot, times 10 * CarryForwardMax.
StaleQuality(snap) ==
    IF CarryDuration(snap) >= CarryForwardMax THEN 0
    ELSE 3 * (CarryForwardMax - CarryDuration(snap))

\* While timely finalizers go on carrying, the quality they report never rises, and
\* falls within two snapshots until it is zero: the snapshots of one carry count from
\* the same start, which only a fresh snapshot clears. One snapshot may not lower it:
\* the seconds are truncated, and finalizers wake a little late.
QualityDecays ==
    LET stale(i) == snapshotCh[i].stale
        quality(i) == StaleQuality(snapshotCh[i])
    IN  /\ \A i \in 1..(Len(snapshotCh) - 1) :
              stale(i) /\ stale(i + 1) => quality(i + 1) <= quality(i)
        /\ \A i \in 1..(Len(snapshotCh) - 2) :
              stale(i) /\ stale(i + 1) /\ stale(i + 2) =>
                  quality(i + 2) < quality(i) \/ quality(i + 2) = 0

\* A second whose finalizer starts when there is a price gets its snapshot, be
\* the loop cancelled meanwhile or not, unless the price becomes zero again (at the
\* latest when the process ends).
EverySecondPublished ==
    \A s \in Seconds :
        (fin[s].pc = "sleep" /\ lastCanonical # 0) ~>
            ((\E snap \in Published : snap.second = s) \/ lastCanonical = 0)

\* After cancellation the finalizers drain and Run returns.
RunReturns == ~running ~> sem = 0

\* The snapshots form the log of SnapshotLog.
Log == INSTANCE SnapshotLog WITH log <- snapshotCh

LogSpec == Log!Spec
=============================================================================
