----------------------- MODULE SnapshotEngine_proofs -----------------------
(***************************************************************************)
(* The safety invariants of SnapshotEngine for every number of venues, of  *)
(* seconds and of finalizers, every grace, freshness and outlier setting,  *)
(* and every lateness of the loop and of the finalizers.                   *)
(***************************************************************************)
EXTENDS SnapshotEngine, Pricing_proofs, SequencesExt

\* Serving a ticker moves nextSecond forward.
LEMMA DivLower ==
    ASSUME NEW a \in Nat, NEW b \in Nat \ {0}, NEW n \in Nat, a >= n * b
    PROVE  a \div b \in Nat /\ a \div b >= n
<1> DEFINE q == a \div b
<1>1. q \in Nat /\ a < (q + 1) * b
  OBVIOUS
<1> HIDE DEF q
<1>2. SUFFICES ASSUME q < n PROVE FALSE
  BY <1>1 DEF q
<1>3. (q + 1) * b <= n * b
  BY <1>1, <1>2
<1> QED BY <1>1, <1>3

LEMMA EndOfType ==
    ASSUME NEW s \in Nat
    PROVE  EndOf(s) \in Nat
BY EngineAssumption DEF EndOf

-----------------------------------------------------------------------------
(***************************************************************************)
(* The first inductive invariant: types, the semaphore, and the fact that  *)
(* the ticker is past every second that has a finalizer, so that a spawned *)
(* finalizer is a new one.                                                 *)
(***************************************************************************)
TickerPast == \A s \in Seconds : fin[s].pc # "idle" => s < nextSecond

LifeInv == TypeOK /\ SemaphoreMatches /\ TickerPast

Holders == {s \in Seconds : fin[s].pc \in Active}

LEMMA HoldersFinite ==
    /\ IsFiniteSet(Holders) /\ Cardinality(Holders) \in Nat
    /\ Cardinality(Holders) = 0 => Holders = {}
<1>1. IsFiniteSet(Seconds)
  BY FS_Interval, EngineAssumption DEF Seconds
<1>2. Holders \in SUBSET Seconds
  BY DEF Holders
<1> QED BY <1>1, <1>2, FS_Subset, FS_CardinalityType, FS_EmptySet

\* Serving the ticker leaves it past the second it served.
LEMMA TickerAdvances ==
    ASSUME TypeOK, ServeTicker
    PROVE  nextSecond' \in Nat /\ nextSecond' > nextSecond
<1>1. /\ now \in Nat /\ nextSecond \in Nat /\ nextSecond + 1 \in Nat
      /\ Second \in Nat \ {0} /\ now >= (nextSecond + 1) * Second
  BY EngineAssumption DEF TypeOK, ServeTicker, EndOf
<1>2. now \div Second \in Nat /\ now \div Second >= nextSecond + 1
  BY <1>1, DivLower
<1> QED BY <1>1, <1>2 DEF ServeTicker

\* A step that leaves the finalizers, the semaphore and the ticker alone.
LEMMA LifeUnchanged ==
    ASSUME LifeInv, UNCHANGED <<nextSecond, sem, fin>>
    PROVE  SemaphoreMatches' /\ TickerPast'
BY DEF LifeInv, SemaphoreMatches, TickerPast

\* A new finalizer takes one slot.
LEMMA SpawnLife ==
    ASSUME LifeInv, SpawnFinalizer
    PROVE  /\ fin' \in [Seconds -> Finalizer] /\ sem' \in Nat
           /\ SemaphoreMatches' /\ TickerPast'
<1> USE DEF LifeInv, TypeOK
<1>1. nextSecond \in Seconds /\ nextSecond' \in Nat /\ nextSecond' > nextSecond
  BY TickerAdvances DEF SpawnFinalizer, ServeTicker
<1>2. [pc |-> "sleep", wakeAt |-> now + Grace, snap |-> None] \in Finalizer
  BY EngineAssumption DEF Finalizer, Active
<1>3. fin' = [fin EXCEPT ![nextSecond] =
                 [pc |-> "sleep", wakeAt |-> now + Grace, snap |-> None]]
  BY DEF SpawnFinalizer
<1>4. fin' \in [Seconds -> Finalizer]
  BY <1>2, <1>3
<1>5. nextSecond \notin Holders
  BY DEF Holders, TickerPast, Active
<1>6. Holders' = Holders \cup {nextSecond}
  BY <1>1, <1>3 DEF Holders, Active
<1>7. Cardinality(Holders') = Cardinality(Holders) + 1
  BY <1>5, <1>6, HoldersFinite, FS_AddElement
<1>8. SemaphoreMatches'
  <2>1. sem = Cardinality(Holders)
    BY DEF SemaphoreMatches, Holders
  <2>2. sem' = Cardinality(Holders') /\ sem' <= MaxFinalizers
    BY <1>7, <2>1, EngineAssumption DEF SpawnFinalizer
  <2> QED BY <2>2 DEF SemaphoreMatches, Holders
<1>9. TickerPast'
  BY <1>1, <1>3 DEF TickerPast, Seconds
<1> QED BY <1>4, <1>8, <1>9 DEF SpawnFinalizer

\* A step of a finalizer that stays active keeps its slot.
LEMMA KeepLife ==
    ASSUME LifeInv, NEW s \in Seconds, fin[s].pc \in Active, NEW f \in Finalizer,
           f.pc \in Active, fin' = [fin EXCEPT ![s] = f], UNCHANGED <<nextSecond, sem>>
    PROVE  /\ fin' \in [Seconds -> Finalizer] /\ sem' \in Nat
           /\ SemaphoreMatches' /\ TickerPast'
<1> USE DEF LifeInv, TypeOK
<1>1. Holders' = Holders
  BY DEF Holders
<1>2. SemaphoreMatches'
  BY <1>1 DEF SemaphoreMatches, Holders
<1>3. TickerPast'
  BY DEF TickerPast, Active
<1> QED BY <1>2, <1>3

\* A finalizer that ends gives its slot back.
LEMMA DoneLife ==
    ASSUME LifeInv, NEW s \in Seconds, fin[s].pc \in Active,
           fin' = [fin EXCEPT ![s].pc = "done"], sem' = sem - 1, UNCHANGED nextSecond
    PROVE  /\ fin' \in [Seconds -> Finalizer] /\ sem' \in Nat
           /\ SemaphoreMatches' /\ TickerPast'
<1> USE DEF LifeInv, TypeOK
<1>1. fin' \in [Seconds -> Finalizer]
  BY DEF Finalizer
<1>2. s \in Holders /\ Holders' = Holders \ {s}
  BY DEF Holders, Active
<1>3. Cardinality(Holders') = Cardinality(Holders) - 1 /\ Cardinality(Holders) # 0
  BY <1>2, HoldersFinite, FS_RemoveElement
<1>4. sem = Cardinality(Holders) /\ sem <= MaxFinalizers
  BY DEF SemaphoreMatches, Holders
<1>5. sem' \in Nat /\ SemaphoreMatches'
  <2>1. Cardinality(Holders) \in Nat /\ MaxFinalizers \in Nat
    BY HoldersFinite, EngineAssumption
  <2>2. sem' \in Nat /\ sem' = Cardinality(Holders') /\ sem' <= MaxFinalizers
    BY <1>3, <1>4, <2>1
  <2> QED BY <2>2 DEF SemaphoreMatches, Holders
<1>6. TickerPast'
  BY DEF TickerPast, Active
<1> QED BY <1>1, <1>5, <1>6

-----------------------------------------------------------------------------
\* The snapshots a finalizer prepares have their type and, when fresh, are
\* grounded in references of their second's window.
Grounded(snap) ==
    ~snap.stale =>
        /\ \A v \in Sources(snap.refs) : InWindow(snap.refs[v], snap.second)
        /\ \E v, w \in Sources(snap.refs) :
              snap.refs[v].price <= snap.price /\ snap.price <= snap.refs[w].price

LEMMA FreshSnapshotGood ==
    ASSUME TypeOK, NEW s \in Seconds,
           NEW refs, refs = ComputeVenueRefs(venueStates, EndOf(s)), Sources(refs) # {}
    PROVE  /\ FreshSnapshot(s, refs) \in Snapshot /\ ~FreshSnapshot(s, refs).stale
           /\ FreshSnapshot(s, refs).price = ComputeCanonical(refs).price
           /\ FreshSnapshot(s, refs).second = s
           /\ Grounded(FreshSnapshot(s, refs))
<1> DEFINE canonical == ComputeCanonical(refs)
<1>1. EndOf(s) \in Nat /\ s \in Nat
  BY EndOfType DEF Seconds
<1>2. /\ refs \in Refs
      /\ \A v \in Sources(refs) : InWindow(refs[v], s)
  BY <1>1, RefsInWindow DEF TypeOK, InWindow
<1>3. /\ canonical.price \in 0..MaxPrice
      /\ canonical.basis \in CanonicalBases /\ canonical.degraded \in BOOLEAN
      /\ \E v, w \in Sources(refs) :
            refs[v].price <= canonical.price /\ canonical.price <= refs[w].price
  BY <1>2, CanonicalBetween
<1>4. FreshSnapshot(s, refs) =
         [second |-> s, refs |-> refs, price |-> canonical.price,
          basis |-> canonical.basis, stale |-> FALSE, degraded |-> canonical.degraded,
          carryStart |-> None, finalizedAt |-> now]
  BY DEF FreshSnapshot
<1> HIDE DEF canonical
<1>5. canonical.price \in Nat
  BY <1>3, PricingAssumption
<1>6. FreshSnapshot(s, refs).price = canonical.price
  BY <1>4
<1>7. FreshSnapshot(s, refs) \in Snapshot /\ ~FreshSnapshot(s, refs).stale
      /\ FreshSnapshot(s, refs).second = s /\ Grounded(FreshSnapshot(s, refs))
  BY <1>2, <1>3, <1>4, <1>5 DEF Snapshot, Grounded, TypeOK
<1> QED BY <1>6, <1>7 DEF canonical

LEMMA CarriedSnapshotGood ==
    ASSUME TypeOK, NEW s \in Seconds, ~NothingToPublish(ComputeVenueRefs(venueStates, EndOf(s))),
           NEW refs, refs = ComputeVenueRefs(venueStates, EndOf(s)), Sources(refs) = {}
    PROVE  /\ CarriedSnapshot(s, refs) \in Snapshot
           /\ Carried(CarriedSnapshot(s, refs)) /\ CarriedSnapshot(s, refs).second = s
           /\ CarriedSnapshot(s, refs).price = lastCanonical /\ lastCanonical # 0
<1>1. EndOf(s) \in Nat
  BY EndOfType DEF Seconds
<1>2. refs \in Refs
  BY <1>1, RefsInWindow DEF TypeOK
<1> QED BY <1>2 DEF CarriedSnapshot, Carried, Snapshot, TypeOK, NothingToPublish

-----------------------------------------------------------------------------
\* What emitting a tick does to the price and the latest state.
LEMMA EmitTickType ==
    ASSUME NEW venues \in [Venues -> VenueState], NEW ts \in Nat, TypeOK,
           EmitTick(venues, ts)
    PROVE  \/ UNCHANGED <<lastCanonical, latestState>>
           \/ /\ lastCanonical' \in Nat /\ latestState' \in Tick
              /\ latestState'.price = lastCanonical'
              /\ Sources(ComputeVenueRefs(venues, now)) # {}
              /\ lastCanonical' = ComputeCanonical(ComputeVenueRefs(venues, now)).price
<1> DEFINE refs == ComputeVenueRefs(venues, now)
           canonical == ComputeCanonical(refs)
           tick == [ts |-> ts, price |-> canonical.price,
                    basis |-> canonical.basis, stale |-> FALSE,
                    degraded |-> Cardinality(Sources(refs)) < MinimumHealthySources,
                    sources |-> Sources(refs)]
<1>1. refs \in Refs
  BY RefsInWindow DEF TypeOK
<1>2. Sources(refs) # {} => /\ canonical.price \in 0..MaxPrice
                            /\ canonical.basis \in CanonicalBases
  BY <1>1, CanonicalBetween
<1>3. Sources(refs) \in SUBSET Venues
  BY DEF Sources
<1>4. (Cardinality(Sources(refs)) < MinimumHealthySources) \in BOOLEAN
  OBVIOUS
<1>5. CASE Sources(refs) = {} \/ canonical.price = lastCanonical
  BY <1>5 DEF EmitTick
<1>6. CASE ~(Sources(refs) = {} \/ canonical.price = lastCanonical)
  <2>1. lastCanonical' = canonical.price /\ latestState' = tick /\ Sources(refs) # {}
    BY <1>6 DEF EmitTick, UpdateLatestState
  <2> HIDE DEF refs, canonical
  <2>2. canonical.price \in Nat /\ canonical.basis \in CanonicalBases
    BY <1>2, <1>6, PricingAssumption
  <2>3. tick \in Tick /\ tick.price = canonical.price
    BY <2>2, <1>3, <1>4 DEF Tick
  <2>4. lastCanonical' \in Nat /\ latestState' \in Tick /\ latestState'.price = lastCanonical'
    BY <2>1, <2>2, <2>3
  <2> QED BY <2>1, <2>4 DEF refs, canonical
<1> QED BY <1>5, <1>6

\* An event changes the venues, and with a tick the price and latest state; a panic
\* ends the loop.
LEMMA ConsumeEventType ==
    ASSUME TypeOK, ConsumeEvent
    PROVE  /\ UNCHANGED <<now, nextSecond, carryStart, sem, fin, snapshotCh>>
           /\ running' \in BOOLEAN /\ (running' => running)
           /\ events' \in Nat /\ venueStates' \in [Venues -> VenueState]
           /\ sourceLastEmit' \in [Venues -> Nat \cup {None}]
           /\ \/ UNCHANGED <<lastCanonical, latestState>>
              \/ /\ lastCanonical' \in Nat /\ latestState' \in Tick
                 /\ latestState'.price = lastCanonical'
                 /\ Sources(ComputeVenueRefs(venueStates', now)) # {}
                 /\ lastCanonical' = ComputeCanonical(ComputeVenueRefs(venueStates', now)).price
<1>1. PICK v \in Venues, ts \in ExchangeTimes :
         \/ \E p \in TradePrices : ProcessTrade(v, p, ts) \/ TradePanics(v, p, ts)
         \/ \E q \in QuotePairs : ProcessTicker(v, q[1], q[2], ts)
  BY DEF ConsumeEvent
<1>2. ts \in Nat
  BY DEF ExchangeTimes
<1>3. ASSUME NEW p \in TradePrices, ProcessTrade(v, p, ts) \/ TradePanics(v, p, ts)
      PROVE  /\ UNCHANGED <<now, nextSecond, carryStart, sem, fin, snapshotCh>>
             /\ events' \in Nat /\ venueStates' = WithTrade(v, p, ts)
             /\ WithTrade(v, p, ts) \in [Venues -> VenueState]
  <2>1. p \in 0..MaxPrice
    BY EngineAssumption
  <2>2. WithTrade(v, p, ts) \in [Venues -> VenueState]
    BY <1>2, <2>1 DEF WithTrade, VenueState, Trade, TypeOK
  <2> QED BY <1>3, <2>2 DEF ProcessTrade, TradePanics, TakeTrade, TypeOK
<1>4. CASE \E p \in TradePrices : ProcessTrade(v, p, ts)
  <2>1. PICK p \in TradePrices : ProcessTrade(v, p, ts)
    BY <1>4
  <2> DEFINE venues == WithTrade(v, p, ts)
  <2>2. venues \in [Venues -> VenueState] /\ venueStates' = venues
    BY <1>3, <2>1
  <2>3. EmitTick(venues, ts) /\ EmitSourcePrice(v) /\ running' = running
    BY <2>1 DEF ProcessTrade
  <2> HIDE DEF venues
  <2>4. sourceLastEmit' \in [Venues -> Nat \cup {None}]
    BY <2>3 DEF EmitSourcePrice, TypeOK
  <2>5. running' \in BOOLEAN /\ (running' => running)
    BY <2>3 DEF TypeOK
  <2> QED BY <1>2, <1>3, <2>1, <2>2, <2>3, <2>4, <2>5, EmitTickType
<1>5. CASE \E p \in TradePrices : TradePanics(v, p, ts)
  <2>1. PICK p \in TradePrices : TradePanics(v, p, ts)
    BY <1>5
  <2>2. running' = FALSE /\ UNCHANGED <<lastCanonical, latestState, sourceLastEmit>>
    BY <2>1 DEF TradePanics
  <2> QED BY <1>3, <2>1, <2>2 DEF TypeOK
<1>6. CASE \E q \in QuotePairs : ProcessTicker(v, q[1], q[2], ts)
  <2>1. PICK q \in QuotePairs : ProcessTicker(v, q[1], q[2], ts)
    BY <1>6
  <2>2. q[1] \in 0..MaxPrice /\ q[2] \in 0..MaxPrice
    BY EngineAssumption
  <2>3. venueStates' \in [Venues -> VenueState]
    BY <1>2, <2>1, <2>2 DEF ProcessTicker, VenueState, Quote, TypeOK
  <2> QED BY <2>1, <2>3 DEF ProcessTicker, TypeOK
<1> QED BY <1>1, <1>4, <1>5, <1>6

-----------------------------------------------------------------------------
(***************************************************************************)
(* The inductive invariant: what each finalizer holds at each of its       *)
(* stages, and what that makes of the snapshots published.                 *)
(***************************************************************************)
GoodSnap(snap) ==
    snap \in Snapshot /\ Grounded(snap) /\ (snap.stale => Carried(snap))

StageInv(s, f, time) ==
    /\ f.pc = "sleep" => f.wakeAt >= EndOf(s) + Grace
    /\ f.pc \in {"write", "publish"} =>
          GoodSnap(f.snap) /\ f.snap.second = s /\ time >= EndOf(s) + Grace

FinInv == \A s \in Seconds : StageInv(s, fin[s], now)

LogInv ==
    \A i \in DOMAIN snapshotCh :
        fin[snapshotCh[i].second].pc = "done" /\ GoodSnap(snapshotCh[i])

\* The carry that is running was started by a snapshot that is out or about to be.
CarryInv ==
    carryStart # None =>
        \E snap \in Published \cup Announcing : Carried(snap) /\ snap.finalizedAt = carryStart

MainInv == LifeInv /\ FinInv /\ LogInv /\ CarryInv

\* Time does not go back: what a finalizer that takes no step holds stays good.
LEMMA StageStable ==
    ASSUME NEW s \in Seconds, NEW f, NEW t1 \in Nat, NEW t2 \in Nat, t2 >= t1,
           StageInv(s, f, t1)
    PROVE  StageInv(s, f, t2)
<1>1. EndOf(s) + Grace \in Nat
  BY EndOfType, EngineAssumption DEF Seconds
<1> QED BY <1>1 DEF StageInv

LEMMA CarryStable ==
    ASSUME CarryInv, UNCHANGED carryStart,
           Published \cup Announcing \subseteq Published' \cup Announcing'
    PROVE  CarryInv'
BY DEF CarryInv

\* Publishing adds one snapshot to those out.
LEMMA AppendRange ==
    ASSUME NEW log \in Seq(Snapshot), NEW e \in Snapshot
    PROVE  {Append(log, e)[i] : i \in DOMAIN Append(log, e)}
             = {log[i] : i \in DOMAIN log} \cup {e}
<1>1. /\ DOMAIN Append(log, e) = 1..(Len(log) + 1) /\ DOMAIN log = 1..Len(log)
      /\ Append(log, e)[Len(log) + 1] = e /\ Len(log) \in Nat
      /\ \A i \in 1..Len(log) : Append(log, e)[i] = log[i]
  OBVIOUS
<1>2. 1..(Len(log) + 1) = (1..Len(log)) \cup {Len(log) + 1}
  BY <1>1
<1> QED BY <1>1, <1>2

\* What is out or about to be stays so when the finalizers about to publish do.
LEMMA AnnouncedKept ==
    ASSUME UNCHANGED snapshotCh,
           \A t \in Seconds : fin[t].pc = "publish" => fin'[t] = fin[t]
    PROVE  Published \cup Announcing \subseteq Published' \cup Announcing'
<1>1. Published' = Published
  BY DEF Published
<1>2. Announcing \subseteq Announcing'
  BY DEF Announcing
<1> QED BY <1>1, <1>2

\* The three stages of a finalizer preserve the invariant.
LEMMA ReadStep ==
    ASSUME MainInv, NEW s \in Seconds, FinalizeRead(s)
    PROVE  MainInv'
<1> DEFINE refs == ComputeVenueRefs(venueStates, EndOf(s))
<1> USE DEF MainInv
<1>1. /\ UNCHANGED <<now, running, nextSecond, events, venueStates, lastCanonical,
                     latestState, sourceLastEmit, carryStart, snapshotCh>>
      /\ fin[s].pc = "sleep" /\ now >= fin[s].wakeAt /\ fin[s].pc \in Active
  BY DEF FinalizeRead, Awake, engineVars, Active
<1>2. fin \in [Seconds -> Finalizer] /\ now \in Nat /\ fin[s].wakeAt \in Nat
  BY DEF LifeInv, TypeOK, Finalizer
<1>3. EndOf(s) + Grace \in Nat
  BY EndOfType, EngineAssumption DEF Seconds
<1>4. now >= EndOf(s) + Grace
  BY <1>1, <1>2, <1>3 DEF FinInv, StageInv
<1>5. CASE NothingToPublish(refs)
  <2>1. fin' = [fin EXCEPT ![s].pc = "done"] /\ sem' = sem - 1
    BY <1>5 DEF FinalizeRead, GiveUp
  <2>2. LifeInv'
    BY <1>1, <2>1, DoneLife DEF LifeInv, TypeOK
  <2>3. FinInv'
    <3> SUFFICES ASSUME NEW t \in Seconds PROVE StageInv(t, fin'[t], now')
      BY DEF FinInv
    <3>1. CASE t = s
      BY <1>2, <2>1, <3>1 DEF StageInv
    <3>2. CASE t # s
      BY <1>1, <1>2, <2>1, <3>2 DEF FinInv
    <3> QED BY <3>1, <3>2
  <2>4. LogInv'
    BY <1>1, <1>2, <2>1 DEF LogInv, GoodSnap, Snapshot
  <2>5. CarryInv'
    BY <1>1, <1>2, <2>1, AnnouncedKept, CarryStable
  <2> QED BY <2>2, <2>3, <2>4, <2>5
<1>6. CASE ~NothingToPublish(refs)
  <2> DEFINE snap == IF Sources(refs) = {} THEN CarriedSnapshot(s, refs)
                                           ELSE FreshSnapshot(s, refs)
             f == [pc |-> "write", wakeAt |-> fin[s].wakeAt, snap |-> snap]
  <2>1. GoodSnap(snap) /\ snap.second = s
    <3>1. CASE Sources(refs) = {}
      BY <1>6, <3>1, CarriedSnapshotGood DEF GoodSnap, Grounded, Carried, LifeInv
    <3>2. CASE Sources(refs) # {}
      BY <3>2, FreshSnapshotGood DEF GoodSnap, LifeInv
    <3> QED BY <3>1, <3>2
  <2>2. fin' = [fin EXCEPT ![s] = f] /\ UNCHANGED sem
    BY <1>6 DEF FinalizeRead, Prepare, HoldAt
  <2> HIDE DEF snap
  <2>3. f \in Finalizer /\ f.pc \in Active
    BY <1>2, <2>1 DEF Finalizer, Active, GoodSnap
  <2>4. LifeInv'
    BY <1>1, <2>2, <2>3, KeepLife DEF LifeInv, TypeOK
  <2>5. FinInv'
    <3> SUFFICES ASSUME NEW t \in Seconds PROVE StageInv(t, fin'[t], now')
      BY DEF FinInv
    <3>1. CASE t = s
      BY <1>1, <1>2, <1>4, <2>1, <2>2, <3>1 DEF StageInv
    <3>2. CASE t # s
      BY <1>1, <1>2, <2>2, <3>2 DEF FinInv
    <3> QED BY <3>1, <3>2
  <2>6. LogInv'
    BY <1>1, <1>2, <2>2 DEF LogInv, GoodSnap, Snapshot
  <2>7. CarryInv'
    BY <1>1, <1>2, <2>2, AnnouncedKept, CarryStable
  <2> QED BY <2>4, <2>5, <2>6, <2>7
<1> QED BY <1>5, <1>6

LEMMA WriteStep ==
    ASSUME MainInv, NEW s \in Seconds, FinalizeWrite(s)
    PROVE  MainInv'
<1> DEFINE snap == fin[s].snap
<1> USE DEF MainInv
<1>1. /\ UNCHANGED <<now, running, nextSecond, events, venueStates, latestState,
                     sourceLastEmit, sem, snapshotCh>>
      /\ fin[s].pc = "write" /\ fin[s].pc \in Active
  BY DEF FinalizeWrite, Active
<1>2. /\ fin \in [Seconds -> Finalizer] /\ now \in Nat /\ lastCanonical \in Nat
      /\ carryStart \in Nat \cup {None}
  BY DEF LifeInv, TypeOK
<1>3. GoodSnap(snap) /\ snap.second = s /\ now >= EndOf(s) + Grace
  BY <1>1 DEF FinInv, StageInv
<1>4. PICK start \in Nat \cup {None} :
         fin' = [fin EXCEPT ![s] = [pc |-> "publish", wakeAt |-> fin[s].wakeAt,
                                    snap |-> [snap EXCEPT !.carryStart = start]]]
  <2>1. snap \in Snapshot
    BY <1>3 DEF GoodSnap
  <2>2. CASE snap.stale
    <3>1. CarryFrom(snap) \in Nat \cup {None}
      BY <1>2, <2>1 DEF CarryFrom, Snapshot
    <3>2. [snap EXCEPT !.carryStart = CarryFrom(snap), !.price = CarriedPrice(snap)]
             = [snap EXCEPT !.carryStart = CarryFrom(snap)]
      BY <2>1 DEF CarriedPrice, Snapshot
    <3> QED BY <2>2, <3>1, <3>2 DEF FinalizeWrite, HoldAt
  <2>3. CASE ~snap.stale
    <3>1. snap.carryStart \in Nat \cup {None}
      BY <2>1 DEF Snapshot
    <3>2. [snap EXCEPT !.carryStart = snap.carryStart] = snap
      BY <2>1 DEF Snapshot
    <3> QED BY <2>3, <3>1, <3>2 DEF FinalizeWrite, HoldAt
  <2> QED BY <2>2, <2>3
<1> DEFINE new == [snap EXCEPT !.carryStart = start]
           f == [pc |-> "publish", wakeAt |-> fin[s].wakeAt, snap |-> new]
<1>5. /\ GoodSnap(new) /\ new.second = s
      /\ new.stale = snap.stale /\ new.finalizedAt = snap.finalizedAt
  BY <1>3 DEF GoodSnap, Snapshot, Grounded, Carried
<1>6. f \in Finalizer /\ f.pc \in Active
  BY <1>2, <1>5 DEF Finalizer, Active, GoodSnap
<1>7. lastCanonical' \in Nat
  BY <1>2, <1>3 DEF FinalizeWrite, GoodSnap, Snapshot
<1> HIDE DEF new
<1>9. fin' = [fin EXCEPT ![s] = f]
  BY <1>4 DEF new
<1>8. carryStart' \in Nat \cup {None} /\ CarryInv'
  <2>1. CASE snap.stale
    <3>1. carryStart' = IF carryStart = None THEN snap.finalizedAt ELSE carryStart
      BY <2>1 DEF FinalizeWrite, CarryFrom
    <3>2. snap.finalizedAt \in Nat
      BY <1>3 DEF GoodSnap, Snapshot
    <3>3. CASE carryStart = None
      <4>1. new \in Announcing'
        BY <1>2, <1>9 DEF Announcing
      <4>2. Carried(new) /\ new.finalizedAt = carryStart'
        BY <1>5, <2>1, <3>1, <3>3 DEF GoodSnap
      <4> QED BY <3>1, <3>2, <3>3, <4>1, <4>2 DEF CarryInv
    <3>4. CASE carryStart # None
      <4>1. carryStart' = carryStart
        BY <3>1, <3>4
      <4>2. CarryInv'
        BY <1>1, <1>2, <1>9, <4>1, AnnouncedKept, CarryStable
      <4> QED BY <1>2, <4>1, <4>2
    <3> QED BY <3>3, <3>4
  <2>2. CASE ~snap.stale
    BY <1>2, <2>2 DEF FinalizeWrite, CarryInv
  <2> QED BY <2>1, <2>2
<1>10. LifeInv'
  BY <1>1, <1>6, <1>7, <1>8, <1>9, KeepLife DEF LifeInv, TypeOK
<1>11. FinInv'
  <2> SUFFICES ASSUME NEW t \in Seconds PROVE StageInv(t, fin'[t], now')
    BY DEF FinInv
  <2>1. CASE t = s
    BY <1>1, <1>2, <1>3, <1>5, <1>7, <1>9, <2>1 DEF StageInv
  <2>2. CASE t # s
    BY <1>1, <1>2, <1>7, <1>9, <2>2, StageStable DEF FinInv
  <2> QED BY <2>1, <2>2
<1>12. LogInv'
  <2> SUFFICES ASSUME NEW i \in DOMAIN snapshotCh'
               PROVE  /\ fin'[snapshotCh'[i].second].pc = "done"
                      /\ GoodSnap(snapshotCh'[i])
    BY DEF LogInv
  <2>1. /\ fin[snapshotCh[i].second].pc = "done"
        /\ GoodSnap(snapshotCh[i])
    BY <1>1 DEF LogInv
  <2>2. snapshotCh[i].second \in Seconds /\ snapshotCh[i].second # s
    BY <1>1, <2>1 DEF GoodSnap, Snapshot
  <2> QED BY <1>1, <1>2, <1>7, <1>9, <2>1, <2>2
<1> QED BY <1>8, <1>10, <1>11, <1>12

LEMMA PublishStep ==
    ASSUME MainInv, NEW s \in Seconds, FinalizePublish(s)
    PROVE  MainInv'
<1> USE DEF MainInv
<1>1. /\ UNCHANGED <<now, running, nextSecond, events, venueStates, lastCanonical,
                     latestState, sourceLastEmit, carryStart>>
      /\ fin[s].pc = "publish" /\ fin[s].pc \in Active
      /\ fin' = [fin EXCEPT ![s].pc = "done"] /\ sem' = sem - 1
      /\ snapshotCh' = Append(snapshotCh, fin[s].snap)
  BY DEF FinalizePublish, engineVars, Active
<1>2. fin \in [Seconds -> Finalizer] /\ snapshotCh \in Seq(Snapshot)
  BY DEF LifeInv, TypeOK
<1>3. GoodSnap(fin[s].snap) /\ fin[s].snap.second = s
  BY <1>1 DEF FinInv, StageInv
<1>4. snapshotCh' \in Seq(Snapshot)
  BY <1>1, <1>2, <1>3 DEF GoodSnap
<1>5. LifeInv'
  BY <1>1, <1>4, DoneLife DEF LifeInv, TypeOK
<1>6. FinInv'
  <2> SUFFICES ASSUME NEW t \in Seconds PROVE StageInv(t, fin'[t], now')
    BY DEF FinInv
  <2>1. CASE t = s
    BY <1>1, <1>2, <2>1 DEF StageInv
  <2>2. CASE t # s
    BY <1>1, <1>2, <2>2 DEF FinInv
  <2> QED BY <2>1, <2>2
<1>7. LogInv'
  <2> SUFFICES ASSUME NEW i \in DOMAIN snapshotCh'
               PROVE  /\ fin'[snapshotCh'[i].second].pc = "done"
                      /\ GoodSnap(snapshotCh'[i])
    BY DEF LogInv
  <2>1. CASE i = Len(snapshotCh) + 1
    <3>1. snapshotCh'[i] = fin[s].snap
      BY <1>1, <1>2, <2>1
    <3> QED BY <1>1, <1>2, <1>3, <3>1
  <2>2. CASE i # Len(snapshotCh) + 1
    <3>1. i \in DOMAIN snapshotCh /\ snapshotCh'[i] = snapshotCh[i]
      BY <1>1, <1>2, <2>2
    <3>2. /\ fin[snapshotCh[i].second].pc = "done"
          /\ GoodSnap(snapshotCh[i])
      BY <3>1 DEF LogInv
    <3>3. snapshotCh[i].second \in Seconds /\ snapshotCh[i].second # s
      BY <1>1, <3>2 DEF GoodSnap, Snapshot
    <3> QED BY <1>1, <1>2, <3>1, <3>2, <3>3
  <2> QED BY <2>1, <2>2
<1>8. CarryInv'
  <2>1. Published' = Published \cup {fin[s].snap}
    BY <1>1, <1>2, <1>3, AppendRange DEF Published, GoodSnap
  <2>2. Announcing \subseteq Announcing' \cup {fin[s].snap}
    BY <1>1, <1>2 DEF Announcing
  <2> QED BY <1>1, <2>1, <2>2, CarryStable
<1> QED BY <1>5, <1>6, <1>7, <1>8

\* When the process ends nobody holds a slot and nothing is carried.
LEMMA PanicStep ==
    ASSUME MainInv, NEW s \in Seconds, FinalizePanics(s)
    PROVE  MainInv'
<1> USE DEF MainInv
<1>1. /\ UNCHANGED <<now, nextSecond, events, snapshotCh>>
      /\ running' = FALSE /\ venueStates' = NoVenues /\ lastCanonical' = 0
      /\ carryStart' = None /\ latestState' = None
      /\ sourceLastEmit' = [v \in Venues |-> None] /\ sem' = 0
  BY DEF FinalizePanics
<1>2. fin \in [Seconds -> Finalizer] /\ now \in Nat
  BY DEF LifeInv, TypeOK
<1>3. fin' = [t \in Seconds |-> IF fin[t].pc \in Active THEN [fin[t] EXCEPT !.pc = "gone"]
                                                      ELSE fin[t]]
  BY DEF FinalizePanics
<1>4. fin' \in [Seconds -> Finalizer]
  <2>1. ASSUME NEW t \in Seconds
        PROVE  [fin[t] EXCEPT !.pc = "gone"] \in Finalizer
    BY <1>2 DEF Finalizer
  <2> QED BY <1>2, <1>3, <2>1
<1>5. \A t \in Seconds : /\ fin'[t].pc \notin Active
                         /\ fin'[t].pc # "idle" => fin[t].pc # "idle"
                         /\ fin[t].pc = "done" => fin'[t].pc = "done"
  BY <1>2, <1>3 DEF Finalizer, Active
<1>6. SemaphoreMatches'
  <2>1. Holders' = {}
    BY <1>5 DEF Holders
  <2>2. Cardinality(Holders') = 0
    BY <2>1, FS_EmptySet
  <2> QED BY <1>1, <2>2, EngineAssumption DEF SemaphoreMatches, Holders
<1>7. TypeOK'
  BY <1>1, <1>4 DEF LifeInv, TypeOK, NoVenues, VenueState
<1>8. TickerPast'
  BY <1>1, <1>5 DEF LifeInv, TickerPast
<1>9. FinInv'
  BY <1>5 DEF FinInv, StageInv, Active
<1>10. LogInv'
  <2> SUFFICES ASSUME NEW i \in DOMAIN snapshotCh'
               PROVE  /\ fin'[snapshotCh'[i].second].pc = "done"
                      /\ GoodSnap(snapshotCh'[i])
    BY DEF LogInv
  <2>1. fin[snapshotCh[i].second].pc = "done" /\ GoodSnap(snapshotCh[i])
    BY <1>1 DEF LogInv
  <2>2. snapshotCh[i].second \in Seconds
    BY <2>1 DEF GoodSnap, Snapshot
  <2> QED BY <1>1, <1>5, <2>1, <2>2
<1> QED BY <1>1, <1>6, <1>7, <1>8, <1>9, <1>10 DEF LifeInv, CarryInv


\* The inductive invariant holds initially and every step preserves it.
LEMMA MainInvariant == Spec => []MainInv
<1>1. Init => MainInv
  <2> SUFFICES ASSUME Init PROVE MainInv
    OBVIOUS
  <2>1. TypeOK
    BY EngineAssumption DEF Init, TypeOK, NoVenues, VenueState, Idle, Finalizer, Active
  <2>2. Holders = {}
    BY DEF Init, Holders, Idle, Active
  <2>3. SemaphoreMatches
    <3>1. Cardinality(Holders) = 0
      BY <2>2, FS_EmptySet
    <3>2. sem = 0 /\ MaxFinalizers \in Nat
      BY EngineAssumption DEF Init
    <3> QED BY <3>1, <3>2 DEF SemaphoreMatches, Holders
  <2> QED BY <2>1, <2>3
          DEF MainInv, LifeInv, TickerPast, FinInv, StageInv, LogInv, CarryInv, Init, Idle
<1>2. MainInv /\ [Next]_vars => MainInv'
  <2> SUFFICES ASSUME MainInv, [Next]_vars PROVE MainInv'
    OBVIOUS
  <2> USE DEF MainInv
  <2>1. TypeOK
    BY DEF LifeInv
  <2>2. ASSUME UNCHANGED <<nextSecond, carryStart, sem, fin, snapshotCh>>, TypeOK',
               now' >= now
        PROVE  MainInv'
    <3>1. LifeInv'
      BY <2>2, LifeUnchanged DEF LifeInv
    <3>2. FinInv'
      BY <2>1, <2>2, StageStable DEF FinInv, TypeOK
    <3>3. LogInv'
      BY <2>2 DEF LogInv
    <3>4. CarryInv'
      BY <2>2, AnnouncedKept, CarryStable
    <3> QED BY <3>1, <3>2, <3>3, <3>4
  <2>3. CASE AdvanceClock
    BY <2>1, <2>2, <2>3 DEF AdvanceClock, engineVars, TypeOK
  <2>4. CASE ConsumeEvent
    BY <2>1, <2>2, <2>4, ConsumeEventType DEF TypeOK
  <2>5. CASE SpawnFinalizer
    <3>1. UNCHANGED <<now, running, events, venueStates, lastCanonical, latestState,
                      sourceLastEmit, carryStart, snapshotCh>>
      BY <2>5 DEF SpawnFinalizer, engineVars
    <3>2. /\ nextSecond \in Seconds /\ now \in Nat /\ now >= EndOf(nextSecond)
          /\ fin' = [fin EXCEPT ![nextSecond] =
                        [pc |-> "sleep", wakeAt |-> now + Grace, snap |-> None]]
      BY <2>1, <2>5 DEF SpawnFinalizer, ServeTicker, TypeOK
    <3>3. LifeInv'
      BY <2>1, <2>5, <3>1, SpawnLife, TickerAdvances DEF LifeInv, TypeOK, SpawnFinalizer
    <3>4. FinInv'
      <4> SUFFICES ASSUME NEW t \in Seconds PROVE StageInv(t, fin'[t], now')
        BY DEF FinInv
      <4>1. CASE t = nextSecond
        <5>1. EndOf(t) \in Nat /\ Grace \in Nat
          BY EndOfType, EngineAssumption DEF Seconds
        <5>2. fin'[t] = [pc |-> "sleep", wakeAt |-> now + Grace, snap |-> None]
          BY <2>1, <3>2, <4>1 DEF TypeOK
        <5> QED BY <3>2, <4>1, <5>1, <5>2 DEF StageInv
      <4>2. CASE t # nextSecond
        BY <2>1, <3>1, <3>2, <4>2 DEF FinInv, TypeOK
      <4> QED BY <4>1, <4>2
    <3>5. LogInv'
      <4> SUFFICES ASSUME NEW i \in DOMAIN snapshotCh'
                   PROVE  /\ fin'[snapshotCh'[i].second].pc = "done"
                          /\ GoodSnap(snapshotCh'[i])
        BY DEF LogInv
      <4>1. /\ fin[snapshotCh[i].second].pc = "done"
            /\ GoodSnap(snapshotCh[i])
        BY <3>1 DEF LogInv
      <4>2. snapshotCh[i].second \in Seconds
        BY <4>1 DEF GoodSnap, Snapshot
      <4>3. snapshotCh[i].second < nextSecond
        BY <4>1, <4>2 DEF LifeInv, TickerPast
      <4> QED BY <2>1, <3>1, <3>2, <4>1, <4>2, <4>3 DEF TypeOK, Seconds
    <3>6. CarryInv'
      <4>1. fin[nextSecond].pc = "idle"
        BY <2>1, <3>2 DEF LifeInv, TickerPast, TypeOK
      <4> QED BY <2>1, <3>1, <3>2, <4>1, AnnouncedKept, CarryStable DEF TypeOK
    <3> QED BY <3>3, <3>4, <3>5, <3>6
  <2>6. CASE SkipSecond
    <3>1. UNCHANGED <<now, running, events, venueStates, lastCanonical, latestState,
                      sourceLastEmit, carryStart, sem, fin, snapshotCh>>
      BY <2>6 DEF SkipSecond, engineVars
    <3>2. nextSecond' \in Nat /\ nextSecond' > nextSecond
      BY <2>1, <2>6, TickerAdvances DEF SkipSecond
    <3>3. TypeOK'
      BY <2>1, <3>1, <3>2 DEF TypeOK
    <3>4. SemaphoreMatches' /\ TickerPast'
      BY <2>1, <3>1, <3>2 DEF LifeInv, SemaphoreMatches, TickerPast, TypeOK, Seconds
    <3>5. CarryInv'
      BY <3>1, AnnouncedKept, CarryStable
    <3> QED BY <3>1, <3>3, <3>4, <3>5 DEF LifeInv, FinInv, LogInv
  <2>7. ASSUME NEW s \in Seconds, Finalize(s) PROVE MainInv'
    BY <2>7, ReadStep, PanicStep, WriteStep, PublishStep DEF Finalize
  <2>8. CASE Stop
    <3>1. /\ UNCHANGED <<now, nextSecond, events, venueStates, lastCanonical, carryStart,
                         latestState, sourceLastEmit, sem, fin, snapshotCh>>
          /\ running' \in BOOLEAN
      BY <2>8 DEF Stop, engineVars
    <3>2. TypeOK'
      BY <2>1, <3>1 DEF TypeOK
    <3>3. now' >= now
      BY <2>1, <3>1 DEF TypeOK
    <3> QED BY <2>2, <3>1, <3>2, <3>3
  <2>9. CASE Stopped \/ UNCHANGED vars
    BY <2>1, <2>2, <2>9 DEF Stopped, vars, TypeOK
  <2> QED BY <2>3, <2>4, <2>5, <2>6, <2>7, <2>8, <2>9 DEF Next
<1> QED BY <1>1, <1>2, PTL DEF Spec

-----------------------------------------------------------------------------
\* Every variable has its type, the semaphore count included: a slot is never
\* given back twice.
THEOREM TypeCorrect == Spec => []TypeOK
<1>1. MainInv => TypeOK
  BY DEF MainInv, LifeInv
<1> QED BY <1>1, MainInvariant, PTL

\* finalizeSem counts the finalizers alive, and no more than its capacity.
THEOREM SemaphoreCorrect == Spec => []SemaphoreMatches
<1>1. MainInv => SemaphoreMatches
  BY DEF MainInv, LifeInv
<1> QED BY <1>1, MainInvariant, PTL

\* The engine carries only prices it had, zero never among them, and a running carry
\* started with a snapshot that is out or about to be: whatever trades, of price zero
\* too, and other finalizers run between the two critical sections of a finalizer.
THEOREM CarryCorrect == Spec => []CarryNeedsPrice
<1>1. MainInv => CarryNeedsPrice
  BY DEF MainInv, CarryInv, FinInv, StageInv, LogInv, GoodSnap, CarryNeedsPrice,
         Published, InFlight
<1> QED BY <1>1, MainInvariant, PTL

\* A fresh snapshot is a price of its own second.
THEOREM GroundedCorrect == Spec => []SnapshotGrounded
<1>1. MainInv => SnapshotGrounded
  BY DEF MainInv, FinInv, StageInv, LogInv, GoodSnap, Grounded, SnapshotGrounded,
         Published, InFlight
<1> QED BY <1>1, MainInvariant, PTL

-----------------------------------------------------------------------------
(***************************************************************************)
(* Where the canonical price comes from: a step changes it only with the   *)
(* price of a tick or of a fresh snapshot that enters its last stage.      *)
(***************************************************************************)

\* A step that takes no snapshot away keeps the announcement of the price.
LEMMA PriceKept ==
    ASSUME CanonicalAnnounced, UNCHANGED <<lastCanonical, latestState>>,
           Published \subseteq Published', Announcing \subseteq Published' \cup Announcing'
    PROVE  CanonicalAnnounced'
BY DEF CanonicalAnnounced

LEMMA AnnouncedStep ==
    ASSUME MainInv, CanonicalAnnounced, [Next]_vars
    PROVE  CanonicalAnnounced'
<1> USE DEF MainInv
<1>1. /\ fin \in [Seconds -> Finalizer] /\ lastCanonical \in Nat
      /\ snapshotCh \in Seq(Snapshot) /\ TypeOK
  BY DEF LifeInv, TypeOK
<1>2. ASSUME UNCHANGED <<lastCanonical, latestState, fin, snapshotCh>>
      PROVE  CanonicalAnnounced'
  BY <1>2 DEF CanonicalAnnounced, Published, Announcing
<1>3. CASE AdvanceClock
  BY <1>2, <1>3 DEF AdvanceClock, engineVars
<1>4. CASE ConsumeEvent
  <2>1. CASE UNCHANGED <<lastCanonical, latestState>>
    BY <1>1, <1>2, <1>4, <2>1, ConsumeEventType
  <2>2. CASE latestState' \in Tick /\ latestState'.price = lastCanonical'
    BY <2>2, EngineAssumption DEF CanonicalAnnounced
  <2> QED BY <1>1, <1>4, <2>1, <2>2, ConsumeEventType
<1>5. CASE SpawnFinalizer
  <2>1. /\ UNCHANGED <<lastCanonical, latestState, snapshotCh>> /\ nextSecond \in Seconds
        /\ fin' = [fin EXCEPT ![nextSecond] =
                      [pc |-> "sleep", wakeAt |-> now + Grace, snap |-> None]]
    BY <1>5 DEF SpawnFinalizer, ServeTicker, engineVars
  <2>2. fin[nextSecond].pc = "idle"
    BY <2>1 DEF LifeInv, TickerPast, Seconds
  <2>3. Announcing \subseteq Announcing' /\ Published' = Published
    BY <1>1, <2>1, <2>2 DEF Announcing, Published
  <2> QED BY <2>1, <2>3, PriceKept
<1>6. CASE SkipSecond
  BY <1>2, <1>6 DEF SkipSecond, engineVars
<1>7. ASSUME NEW s \in Seconds, FinalizeRead(s) PROVE CanonicalAnnounced'
  <2>1. /\ UNCHANGED <<lastCanonical, latestState, snapshotCh>>
        /\ fin[s].pc = "sleep"
        /\ \A t \in Seconds : t # s => fin'[t] = fin[t]
    BY <1>1, <1>7 DEF FinalizeRead, Awake, GiveUp, Prepare, HoldAt, engineVars
  <2>2. Announcing \subseteq Announcing' /\ Published' = Published
    BY <2>1 DEF Announcing, Published
  <2> QED BY <2>1, <2>2, PriceKept
<1>8. ASSUME NEW s \in Seconds, FinalizeWrite(s) PROVE CanonicalAnnounced'
  <2>1. /\ UNCHANGED <<latestState, snapshotCh>>
        /\ fin[s].pc = "write"
        /\ \A t \in Seconds : t # s => fin'[t] = fin[t]
    BY <1>1, <1>8 DEF FinalizeWrite, HoldAt
  <2>2. Announcing \subseteq Announcing' /\ Published' = Published
    BY <2>1 DEF Announcing, Published
  <2>3. CASE fin[s].snap.stale
    BY <1>8, <2>1, <2>2, <2>3, PriceKept DEF FinalizeWrite
  <2>4. CASE ~fin[s].snap.stale
    <3>1. /\ lastCanonical' = fin[s].snap.price
          /\ fin'[s].pc = "publish" /\ fin'[s].snap = fin[s].snap
      BY <1>1, <1>8, <2>4 DEF FinalizeWrite, HoldAt
    <3>2. fin[s].snap \in Announcing'
      BY <3>1 DEF Announcing
    <3> QED BY <2>4, <3>1, <3>2 DEF CanonicalAnnounced
  <2> QED BY <2>3, <2>4
<1>9. ASSUME NEW s \in Seconds, FinalizePublish(s) PROVE CanonicalAnnounced'
  <2>1. /\ UNCHANGED <<lastCanonical, latestState>>
        /\ fin[s].pc = "publish" /\ snapshotCh' = Append(snapshotCh, fin[s].snap)
        /\ \A t \in Seconds : t # s => fin'[t] = fin[t]
    BY <1>1, <1>9 DEF FinalizePublish, engineVars
  <2>2. fin[s].snap \in Snapshot
    BY <2>1 DEF FinInv, StageInv, GoodSnap
  <2>3. Published \subseteq Published' /\ fin[s].snap \in Published'
    <3>1. /\ Len(snapshotCh') = Len(snapshotCh) + 1
          /\ \A i \in DOMAIN snapshotCh : i \in DOMAIN snapshotCh' /\ snapshotCh'[i] = snapshotCh[i]
          /\ Len(snapshotCh) + 1 \in DOMAIN snapshotCh'
          /\ snapshotCh'[Len(snapshotCh) + 1] = fin[s].snap
      BY <1>1, <2>1, <2>2
    <3> QED BY <3>1 DEF Published
  <2>4. Announcing \subseteq Published' \cup Announcing'
    BY <2>1, <2>3 DEF Announcing
  <2> QED BY <2>1, <2>3, <2>4, PriceKept
<1>10. ASSUME NEW s \in Seconds, FinalizePanics(s) PROVE CanonicalAnnounced'
  BY <1>10 DEF FinalizePanics, CanonicalAnnounced
<1>11. CASE Stop
  BY <1>2, <1>11 DEF Stop, engineVars
<1>12. CASE Stopped \/ UNCHANGED vars
  BY <1>2, <1>12 DEF Stopped, vars
<1> QED BY <1>3, <1>4, <1>5, <1>6, <1>7, <1>8, <1>9, <1>10, <1>11, <1>12 DEF Next, Finalize

\* The price the next tick is compared with was announced, by a tick or by a
\* fresh snapshot, whatever the finalizers interleave with the loop.
THEOREM AnnouncedCorrect == Spec => []CanonicalAnnounced
<1>1. Init => CanonicalAnnounced
  BY DEF Init, CanonicalAnnounced
<1>2. MainInv /\ CanonicalAnnounced /\ [Next]_vars => CanonicalAnnounced'
  BY AnnouncedStep
<1> QED BY <1>1, <1>2, MainInvariant, PTL DEF Spec

-----------------------------------------------------------------------------
(***************************************************************************)
(* The engine implements SnapshotLog.                                      *)
(***************************************************************************)

\* Publishing is a step of the log: the second is over, grace included, and
\* has no entry, because its only finalizer is this one.
LEMMA PublishImplements ==
    ASSUME MainInv, NEW s \in Seconds, FinalizePublish(s)
    PROVE  Log!Publish
<1> USE DEF MainInv
<1>1. /\ UNCHANGED <<now, lastCanonical>>
      /\ fin[s].pc = "publish" /\ snapshotCh' = Append(snapshotCh, fin[s].snap)
  BY DEF FinalizePublish, engineVars
<1>2. GoodSnap(fin[s].snap) /\ fin[s].snap.second = s /\ now >= EndOf(s) + Grace
  BY <1>1 DEF FinInv, StageInv
<1>3. snapshotCh \in Seq(Snapshot) /\ fin[s].snap \in Snapshot
  BY <1>2 DEF LifeInv, TypeOK, GoodSnap
<1>4. /\ Len(snapshotCh') = Len(snapshotCh) + 1
      /\ \A i \in DOMAIN snapshotCh : snapshotCh'[i] = snapshotCh[i]
      /\ snapshotCh'[Len(snapshotCh')] = fin[s].snap
  BY <1>1, <1>3
<1>5. \A i \in DOMAIN snapshotCh : snapshotCh[i].second # s
  BY <1>1 DEF LogInv
<1>6. Log!MayPublish(fin[s].snap)
  BY <1>2, <1>5 DEF Log!MayPublish, EndOf, GoodSnap, Carried
<1> QED BY <1>1, <1>4, <1>6 DEF Log!Publish

LEMMA StepImplements ==
    ASSUME MainInv, [Next]_vars
    PROVE  [Log!Next]_(Log!vars)
<1> USE DEF MainInv
<1>1. TypeOK
  BY DEF LifeInv
<1>2. ASSUME UNCHANGED <<now, snapshotCh>>
      PROVE  UNCHANGED Log!vars
  BY <1>2 DEF Log!vars
<1>3. CASE AdvanceClock
  BY <1>1, <1>3 DEF AdvanceClock, TypeOK, Log!Next, Log!TimePasses
<1>4. CASE ConsumeEvent
  BY <1>1, <1>2, <1>4, ConsumeEventType
<1>5. CASE SpawnFinalizer \/ SkipSecond \/ Stop \/ Stopped \/ UNCHANGED vars
  BY <1>2, <1>5 DEF SpawnFinalizer, SkipSecond, Stop, Stopped, vars
<1>6. ASSUME NEW s \in Seconds, FinalizeRead(s) \/ FinalizeWrite(s) \/ FinalizePanics(s)
      PROVE  UNCHANGED Log!vars
  BY <1>2, <1>6 DEF FinalizeRead, FinalizeWrite, FinalizePanics
<1> QED BY <1>3, <1>4, <1>5, <1>6, PublishImplements DEF Next, Finalize, Log!Next

\* The snapshots an engine hands to its channels are the log it promises: one
\* entry at most per second, after the second and the grace, never changed.
THEOREM LogImplemented == Spec => LogSpec
<1>1. Init => Log!Init
  BY DEF Init, Log!Init
<1>2. MainInv /\ [Next]_vars => [Log!Next]_(Log!vars)
  BY StepImplements
<1> QED BY <1>1, <1>2, MainInvariant, PTL DEF Spec, LogSpec, Log!Spec

-----------------------------------------------------------------------------
(***************************************************************************)
(* Timely finalizers: the finalizer of a second is done before the next    *)
(* second ends, so there is one at a time and no second is skipped.  If,   *)
(* besides, no trade has price zero, every second after the first price is *)
(* published.                                                              *)
(***************************************************************************)
Timing ==
    /\ nextSecond * Second <= now
    /\ running => now <= EndOf(nextSecond) + LoopLag
    /\ \A s \in Seconds : fin[s].pc \in Active =>
          /\ fin[s].wakeAt <= EndOf(s) + LoopLag + Grace
          /\ now <= fin[s].wakeAt + FinalizeLag

LEMMA EndOfNext ==
    ASSUME NEW s \in Nat, NEW t \in Nat, s < t
    PROVE  EndOf(s) + Second <= EndOf(t)
<1>1. Second \in Nat \ {0}
  BY EngineAssumption
<1>2. (s + 2) * Second <= (t + 1) * Second
  BY <1>1
<1>3. (s + 2) * Second = (s + 1) * Second + Second
  BY <1>1
<1> QED BY <1>2, <1>3 DEF EndOf

LEMMA DivUpper ==
    ASSUME NEW a \in Nat, NEW b \in Nat \ {0}
    PROVE  /\ a \div b \in Nat
           /\ (a \div b) * b <= a /\ a < (a \div b + 1) * b
  OBVIOUS

\* The clock waits for a deadline, a spawned finalizer gets its own, and a
\* finalizer keeps the one it has.
LEMMA TimingStep ==
    ASSUME MainInv, Timing, [Next]_vars
    PROVE  Timing'
<1>1. /\ now \in Nat /\ nextSecond \in Nat /\ fin \in [Seconds -> Finalizer]
      /\ LoopLag \in Nat /\ FinalizeLag \in Nat /\ Grace \in Nat /\ Second \in Nat \ {0}
  BY EngineAssumption DEF MainInv, LifeInv, TypeOK
<1>2. \A s \in Seconds : fin[s].wakeAt \in Nat /\ EndOf(s) \in Nat
  BY <1>1, EndOfType DEF Finalizer, Seconds
<1>3. EndOf(nextSecond) \in Nat /\ nextSecond * Second \in Nat
  BY <1>1, EndOfType
<1>4. CASE AdvanceClock
  <2>1. /\ now' = now + 1 /\ UNCHANGED <<running, nextSecond, fin>>
        /\ running => now < EndOf(nextSecond) + LoopLag
        /\ \A s \in Seconds : fin[s].pc \in Active => now < fin[s].wakeAt + FinalizeLag
    BY <1>4 DEF AdvanceClock
  <2>2. nextSecond' * Second <= now'
    BY <1>1, <1>3, <2>1 DEF Timing
  <2>3. running' => now' <= EndOf(nextSecond') + LoopLag
    BY <1>1, <1>3, <2>1
  <2>4. ASSUME NEW s \in Seconds, fin'[s].pc \in Active
        PROVE  /\ fin'[s].wakeAt <= EndOf(s) + LoopLag + Grace
               /\ now' <= fin'[s].wakeAt + FinalizeLag
    BY <1>1, <1>2, <2>1, <2>4 DEF Timing
  <2> QED BY <2>2, <2>3, <2>4 DEF Timing
<1>5. ASSUME UNCHANGED <<now, nextSecond, fin>>, running' => running PROVE Timing'
  BY <1>5 DEF Timing
<1>6. CASE ConsumeEvent \/ Stop \/ Stopped \/ UNCHANGED vars
  <2>1. UNCHANGED <<now, nextSecond, fin>> /\ (running' => running)
    BY <1>6, ConsumeEventType DEF Stop, Stopped, vars, MainInv, LifeInv
  <2> QED BY <1>5, <2>1
<1>7. ASSUME ServeTicker, UNCHANGED <<now, running>>
      PROVE  nextSecond' * Second <= now' /\ (running' => now' <= EndOf(nextSecond') + LoopLag)
  <2>1. PICK q \in Nat : nextSecond' = q /\ q * Second <= now /\ now < (q + 1) * Second
    BY <1>1, <1>7, DivUpper DEF ServeTicker
  <2>2. (q + 1) * Second \in Nat
    BY <1>1
  <2> QED BY <1>1, <1>7, <2>1, <2>2 DEF EndOf
<1>8. CASE SpawnFinalizer
  <2>1. /\ ServeTicker /\ UNCHANGED <<now, running>> /\ running /\ nextSecond \in Seconds
        /\ fin' = [fin EXCEPT ![nextSecond] =
                      [pc |-> "sleep", wakeAt |-> now + Grace, snap |-> None]]
    BY <1>8 DEF SpawnFinalizer, ServeTicker
  <2>2. ASSUME NEW s \in Seconds, fin'[s].pc \in Active
        PROVE  /\ fin'[s].wakeAt <= EndOf(s) + LoopLag + Grace
               /\ now' <= fin'[s].wakeAt + FinalizeLag
    <3>1. CASE s = nextSecond
      <4>1. fin'[s].wakeAt = now + Grace
        BY <1>1, <2>1, <3>1
      <4>2. now <= EndOf(s) + LoopLag
        BY <2>1, <3>1 DEF Timing
      <4> QED BY <1>1, <1>2, <2>1, <4>1, <4>2
    <3>2. CASE s # nextSecond
      BY <1>1, <2>1, <2>2, <3>2 DEF Timing
    <3> QED BY <3>1, <3>2
  <2> QED BY <1>7, <2>1, <2>2 DEF Timing
<1>9. CASE SkipSecond
  <2>1. ServeTicker /\ UNCHANGED <<now, running, fin>>
    BY <1>9 DEF SkipSecond
  <2> QED BY <1>7, <2>1 DEF Timing
<1>10. ASSUME NEW t \in Seconds, FinalizeRead(t) \/ FinalizeWrite(t) \/ FinalizePublish(t)
       PROVE  Timing'
  <2>1. UNCHANGED <<now, running, nextSecond>>
    BY <1>10 DEF FinalizeRead, FinalizeWrite, FinalizePublish
  <2>2. fin[t].pc \in Active
    BY <1>10 DEF FinalizeRead, Awake, FinalizeWrite, FinalizePublish, Active
  <2>3. PICK f : /\ fin' = [fin EXCEPT ![t] = f]
                 /\ f.pc \in Active => f.wakeAt = fin[t].wakeAt
    <3>1. CASE FinalizeRead(t)
      BY <1>1, <3>1 DEF FinalizeRead, GiveUp, Prepare, HoldAt, Active, Finalizer
    <3>2. CASE FinalizeWrite(t)
      BY <1>1, <3>2 DEF FinalizeWrite, HoldAt
    <3>3. CASE FinalizePublish(t)
      <4>1. /\ fin' = [fin EXCEPT ![t] = [fin[t] EXCEPT !.pc = "done"]]
            /\ [fin[t] EXCEPT !.pc = "done"].pc \notin Active
        BY <1>1, <3>3 DEF FinalizePublish, Active, Finalizer
      <4> QED BY <4>1
    <3> QED BY <1>10, <3>1, <3>2, <3>3
  <2>4. ASSUME NEW s \in Seconds, fin'[s].pc \in Active
        PROVE  fin[s].pc \in Active /\ fin'[s].wakeAt = fin[s].wakeAt
    BY <1>1, <2>2, <2>3, <2>4
  <2> QED BY <2>1, <2>4 DEF Timing
<1>11. ASSUME NEW t \in Seconds, FinalizePanics(t) PROVE Timing'
  <2>1. UNCHANGED <<now, nextSecond>> /\ running' = FALSE
    BY <1>11 DEF FinalizePanics
  <2>2. \A s \in Seconds : fin'[s].pc \notin Active
    BY <1>1, <1>11 DEF FinalizePanics, Active, Finalizer
  <2> QED BY <2>1, <2>2 DEF Timing
<1> QED BY <1>4, <1>6, <1>8, <1>9, <1>10, <1>11 DEF Next, Finalize

\* The finalizer alive is that of the second served last, and the next second
\* has not ended.
LEMMA OneAlive ==
    ASSUME Timely, MainInv, Timing, NEW s \in Seconds, fin[s].pc \in Active
    PROVE  nextSecond = s + 1 /\ now < EndOf(nextSecond)
<1>1. /\ now \in Nat /\ nextSecond \in Nat /\ fin[s].wakeAt \in Nat /\ s \in Nat
      /\ LoopLag \in Nat /\ FinalizeLag \in Nat /\ Grace \in Nat /\ Second \in Nat \ {0}
  BY EngineAssumption DEF MainInv, LifeInv, TypeOK, Finalizer, Seconds
<1>2. s < nextSecond
  BY DEF MainInv, LifeInv, TickerPast, Active
<1>3. PICK e \in Nat : e = EndOf(s)
  BY <1>1, EndOfType
<1>4. now < e + Second
  BY <1>1, <1>3 DEF Timing, Timely
<1>5. nextSecond = s + 1
  <2>1. SUFFICES ASSUME s + 1 < nextSecond PROVE FALSE
    BY <1>1, <1>2
  <2>2. e + Second <= EndOf(nextSecond - 1)
    BY <1>1, <1>3, <2>1, EndOfNext
  <2>3. EndOf(nextSecond - 1) = nextSecond * Second
    BY <1>1 DEF EndOf
  <2>4. nextSecond * Second \in Nat /\ nextSecond * Second <= now
    BY <1>1 DEF Timing
  <2> QED BY <1>1, <1>4, <2>2, <2>3, <2>4
<1>6. e + Second <= EndOf(nextSecond) /\ EndOf(nextSecond) \in Nat
  BY <1>1, <1>2, <1>3, EndOfNext, EndOfType
<1> QED BY <1>1, <1>4, <1>5, <1>6

\* With trades that all have a price, no reference, snapshot or canonical price is
\* zero, and nothing panics.
PositiveVenues(venues) ==
    \A v \in Venues : venues[v].lastTrade # None => venues[v].lastTrade.price # 0

Positive ==
    /\ PositiveVenues(venueStates)
    /\ \A s \in Seconds : fin[s].pc \in {"write", "publish"} =>
          fin[s].snap.price # 0 /\ (fin[s].snap.stale => lastCanonical # 0)

LEMMA PositiveRefs ==
    ASSUME NEW venues \in [Venues -> VenueState], PositiveVenues(venues), NEW atTime \in Nat,
           NEW refs, refs = ComputeVenueRefs(venues, atTime)
    PROVE  /\ ~Panics(refs)
           /\ Sources(refs) # {} => ComputeCanonical(refs).price # 0
<1>1. refs \in Refs
  BY RefsInWindow
<1>2. ASSUME NEW v \in Sources(refs)
      PROVE  refs[v] \in Ref /\ refs[v].price \in Nat /\ refs[v].price # 0
  <2>1. v \in Venues /\ refs[v] # None /\ refs[v] \in Ref /\ refs[v].price \in Nat
    <3>1. v \in Venues /\ refs[v] # None /\ refs[v] \in Ref
      BY <1>1 DEF Sources, Refs
    <3> QED BY <3>1, PricingAssumption DEF Ref
  <2>2. refs[v] = VenueRef(venues[v], atTime)
    BY <2>1 DEF ComputeVenueRefs
  <2>3. CASE UsableTrade(venues[v], atTime)
    BY <2>1, <2>2, <2>3 DEF VenueRef, UsableTrade, PositiveVenues
  <2>4. CASE ~UsableTrade(venues[v], atTime) /\ UsableQuote(venues[v], atTime)
    <3>1. /\ venues[v].lastQuote.bid \in Nat \ {0} /\ venues[v].lastQuote.ask \in Nat \ {0}
      BY <2>1, <2>4, PricingAssumption DEF UsableQuote, VenueState, Quote
    <3>2. refs[v].price = (venues[v].lastQuote.bid + venues[v].lastQuote.ask) \div 2
      BY <2>2, <2>4 DEF VenueRef
    <3> QED BY <2>1, <3>1, <3>2
  <2> QED BY <2>1, <2>2, <2>3, <2>4 DEF VenueRef
<1>3. Sources(refs) # {} => ComputeCanonical(refs).price # 0
  <2> SUFFICES ASSUME Sources(refs) # {} PROVE ComputeCanonical(refs).price # 0
    OBVIOUS
  <2>1. PICK v \in Sources(refs) : refs[v].price <= ComputeCanonical(refs).price
    BY <1>1, CanonicalBetween
  <2> QED BY <1>2, <2>1
<1>4. ~Panics(refs)
  <2> SUFFICES ASSUME Cardinality(Sources(refs)) > 1, ComputeMedian(RefPrices(refs)) = 0
               PROVE  FALSE
    BY DEF Panics
  <2>1. IsFiniteSet(Sources(refs)) /\ Sources(refs) # {}
    BY FS_Subset, FS_EmptySet, PricingAssumption DEF Sources
  <2>2. RefPrices(refs) \in [Sources(refs) -> 0..MaxPrice]
        /\ \A v \in Sources(refs) : RefPrices(refs)[v] = refs[v].price
    BY <1>2 DEF RefPrices, Ref
  <2>3. PICK v \in Sources(refs) : RefPrices(refs)[v] <= ComputeMedian(RefPrices(refs))
    BY <2>1, <2>2, MedianBetween
  <2> QED BY <1>2, <2>2, <2>3
<1> QED BY <1>3, <1>4

\* A trade leaves the venues with prices, and a tick's price is one of them.
LEMMA PositiveConsume ==
    ASSUME 0 \notin TradePrices, MainInv, Positive, ConsumeEvent
    PROVE  Positive' /\ (lastCanonical # 0 => lastCanonical' # 0)
<1>1. TypeOK /\ now \in Nat /\ venueStates \in [Venues -> VenueState]
  BY DEF MainInv, LifeInv, TypeOK
<1>2. PICK v \in Venues, ts \in ExchangeTimes :
         \/ \E p \in TradePrices : ProcessTrade(v, p, ts) \/ TradePanics(v, p, ts)
         \/ \E q \in QuotePairs : ProcessTicker(v, q[1], q[2], ts)
  BY DEF ConsumeEvent
<1>3. PositiveVenues(venueStates')
  <2>1. ASSUME NEW p \in TradePrices, ProcessTrade(v, p, ts) \/ TradePanics(v, p, ts)
        PROVE  PositiveVenues(venueStates')
    <3>1. venueStates' = [venueStates EXCEPT ![v].lastTrade = [price |-> p, ts |-> ts]]
      BY <2>1 DEF ProcessTrade, TradePanics, TakeTrade, WithTrade
    <3>2. \A w \in Venues : venueStates'[w].lastTrade =
              IF w = v THEN [price |-> p, ts |-> ts] ELSE venueStates[w].lastTrade
      BY <1>1, <3>1 DEF VenueState
    <3> QED BY <3>2 DEF Positive, PositiveVenues
  <2>2. ASSUME NEW q \in QuotePairs, ProcessTicker(v, q[1], q[2], ts)
        PROVE  PositiveVenues(venueStates')
    <3>1. \A w \in Venues : venueStates'[w].lastTrade = venueStates[w].lastTrade
      BY <1>1, <2>2 DEF ProcessTicker, VenueState
    <3> QED BY <3>1 DEF Positive, PositiveVenues
  <2> QED BY <1>2, <2>1, <2>2
<1>4. venueStates' \in [Venues -> VenueState] /\ UNCHANGED fin
  BY <1>1, ConsumeEventType
<1>5. lastCanonical # 0 => lastCanonical' # 0
  <2>1. CASE UNCHANGED lastCanonical
    BY <2>1
  <2>2. CASE /\ Sources(ComputeVenueRefs(venueStates', now)) # {}
             /\ lastCanonical' = ComputeCanonical(ComputeVenueRefs(venueStates', now)).price
    BY <1>1, <1>3, <1>4, <2>2, PositiveRefs
  <2> QED BY <1>1, <2>1, <2>2, ConsumeEventType
<1> QED BY <1>3, <1>4, <1>5 DEF Positive

LEMMA PositiveStep ==
    ASSUME 0 \notin TradePrices, MainInv, Positive, [Next]_vars
    PROVE  /\ Positive' /\ (lastCanonical # 0 => lastCanonical' # 0)
           /\ \A s \in Seconds : ~FinalizePanics(s)
<1>1. /\ TypeOK /\ now \in Nat /\ venueStates \in [Venues -> VenueState]
      /\ fin \in [Seconds -> Finalizer] /\ lastCanonical \in Nat
  BY DEF MainInv, LifeInv, TypeOK
<1>2. ASSUME NEW s \in Seconds, NEW refs, refs = ComputeVenueRefs(venueStates, EndOf(s))
      PROVE  ~Panics(refs) /\ (Sources(refs) # {} => ComputeCanonical(refs).price # 0)
  <2>1. EndOf(s) \in Nat
    BY EndOfType DEF Seconds
  <2> QED BY <1>1, <1>2, <2>1, PositiveRefs DEF Positive
<1>3. \A s \in Seconds : ~FinalizePanics(s)
  BY <1>2 DEF FinalizePanics
<1>4. ASSUME UNCHANGED <<venueStates, lastCanonical>>,
             \A s \in Seconds : fin'[s].pc \in {"write", "publish"} => fin'[s] = fin[s]
      PROVE  Positive' /\ (lastCanonical # 0 => lastCanonical' # 0)
  BY <1>4 DEF Positive
<1>5. CASE AdvanceClock \/ SkipSecond \/ Stop \/ Stopped \/ UNCHANGED vars
  <2>1. UNCHANGED <<venueStates, lastCanonical, fin>>
    BY <1>5 DEF AdvanceClock, SkipSecond, Stop, Stopped, vars, engineVars
  <2> QED BY <1>3, <1>4, <2>1
<1>6. CASE SpawnFinalizer
  <2>1. /\ UNCHANGED <<venueStates, lastCanonical>> /\ nextSecond \in Seconds
        /\ fin' = [fin EXCEPT ![nextSecond] =
                      [pc |-> "sleep", wakeAt |-> now + Grace, snap |-> None]]
    BY <1>6 DEF SpawnFinalizer, ServeTicker, engineVars
  <2>2. \A s \in Seconds : fin'[s].pc \in {"write", "publish"} => fin'[s] = fin[s]
    BY <1>1, <2>1
  <2> QED BY <1>3, <1>4, <2>1, <2>2
<1>7. ASSUME NEW s \in Seconds, FinalizeRead(s)
      PROVE  Positive' /\ (lastCanonical # 0 => lastCanonical' # 0)
  <2> DEFINE refs == ComputeVenueRefs(venueStates, EndOf(s))
  <2>1. UNCHANGED <<venueStates, lastCanonical>>
    BY <1>7 DEF FinalizeRead, engineVars
  <2>2. CASE NothingToPublish(refs)
    BY <1>1, <1>4, <1>7, <2>1, <2>2 DEF FinalizeRead, GiveUp, Finalizer
  <2>3. CASE ~NothingToPublish(refs)
    <3> DEFINE snap == IF Sources(refs) = {} THEN CarriedSnapshot(s, refs)
                                             ELSE FreshSnapshot(s, refs)
    <3>1. snap.price # 0 /\ (snap.stale => lastCanonical # 0)
      <4>1. CASE Sources(refs) = {}
        BY <1>1, <2>3, <4>1, CarriedSnapshotGood DEF Carried
      <4>2. CASE Sources(refs) # {}
        BY <1>1, <1>2, <4>2, FreshSnapshotGood
      <4> QED BY <4>1, <4>2
    <3>2. fin' = [fin EXCEPT ![s] = [pc |-> "write", wakeAt |-> fin[s].wakeAt, snap |-> snap]]
      BY <1>7, <2>3 DEF FinalizeRead, Prepare, HoldAt
    <3> HIDE DEF snap
    <3> QED BY <1>1, <2>1, <3>1, <3>2 DEF Positive
  <2> QED BY <2>2, <2>3
<1>8. ASSUME NEW s \in Seconds, FinalizeWrite(s)
      PROVE  Positive' /\ (lastCanonical # 0 => lastCanonical' # 0)
  <2>1. /\ UNCHANGED venueStates /\ fin[s].pc = "write" /\ fin[s].snap \in Snapshot
        /\ fin[s].snap.price # 0 /\ (fin[s].snap.stale => lastCanonical # 0)
    BY <1>8 DEF FinalizeWrite, Positive, MainInv, FinInv, StageInv, GoodSnap
  <2>2. PICK snap : /\ fin' = [fin EXCEPT ![s] = [pc |-> "publish", wakeAt |-> fin[s].wakeAt,
                                                 snap |-> snap]]
                    /\ snap.price = fin[s].snap.price /\ snap.stale = fin[s].snap.stale
    <3>1. CASE fin[s].snap.stale
      <4> DEFINE held == [fin[s].snap EXCEPT !.carryStart = CarryFrom(fin[s].snap),
                                             !.price = CarriedPrice(fin[s].snap)]
      <4>1. held.price = fin[s].snap.price /\ held.stale = fin[s].snap.stale
        BY <2>1 DEF CarriedPrice, Snapshot
      <4>2. fin' = [fin EXCEPT ![s] = [pc |-> "publish", wakeAt |-> fin[s].wakeAt,
                                       snap |-> held]]
        BY <1>8, <3>1 DEF FinalizeWrite, HoldAt
      <4> HIDE DEF held
      <4> QED BY <4>1, <4>2
    <3>2. CASE ~fin[s].snap.stale
      BY <1>8, <3>2 DEF FinalizeWrite, HoldAt
    <3> QED BY <3>1, <3>2
  <2>3. lastCanonical' # 0
    BY <1>8, <2>1 DEF FinalizeWrite
  <2> QED BY <1>1, <2>1, <2>2, <2>3 DEF Positive
<1>9. ASSUME NEW s \in Seconds, FinalizePublish(s)
      PROVE  Positive' /\ (lastCanonical # 0 => lastCanonical' # 0)
  BY <1>1, <1>4, <1>9 DEF FinalizePublish, engineVars, Finalizer
<1> QED BY <1>3, <1>5, <1>6, <1>7, <1>8, <1>9, PositiveConsume DEF Next, Finalize

\* After the first snapshot there is a price, so no finalizer gives up: a
\* second the ticker has served has its finalizer alive or its snapshot in
\* the log.
Contiguous ==
    /\ (\E s \in Seconds : fin[s].pc = "publish") \/ snapshotCh # <<>> => lastCanonical # 0
    /\ snapshotCh # <<>> =>
          \A s \in Seconds : Last(snapshotCh).second < s /\ s < nextSecond => fin[s].pc \in Active
    /\ NoGap

LEMMA ContiguousKept ==
    ASSUME Contiguous, UNCHANGED <<nextSecond, fin, snapshotCh>>,
           lastCanonical # 0 => lastCanonical' # 0
    PROVE  Contiguous'
BY DEF Contiguous, NoGap

\* The finalizer of a second that ends without a snapshot had no price to carry.
LEMMA ContiguousRead ==
    ASSUME MainInv, Contiguous, NEW s \in Seconds, FinalizeRead(s)
    PROVE  Contiguous'
<1>1. /\ UNCHANGED <<nextSecond, lastCanonical, snapshotCh>>
      /\ fin[s].pc = "sleep" /\ fin \in [Seconds -> Finalizer]
  BY DEF FinalizeRead, Awake, engineVars, MainInv, LifeInv, TypeOK
<1>2. PICK f : fin' = [fin EXCEPT ![s] = f] /\ f.pc \in {"write", "done"}
                /\ (f.pc = "done" => lastCanonical = 0)
  <2> DEFINE refs == ComputeVenueRefs(venueStates, EndOf(s))
  <2>1. CASE NothingToPublish(refs)
    <3>1. /\ fin' = [fin EXCEPT ![s] = [fin[s] EXCEPT !.pc = "done"]]
          /\ [fin[s] EXCEPT !.pc = "done"].pc = "done"
      BY <1>1, <2>1 DEF FinalizeRead, GiveUp, Finalizer
    <3> QED BY <2>1, <3>1 DEF NothingToPublish
  <2>2. CASE ~NothingToPublish(refs)
    <3>1. PICK snap : fin' = [fin EXCEPT ![s] =
                         [pc |-> "write", wakeAt |-> fin[s].wakeAt, snap |-> snap]]
      BY <2>2 DEF FinalizeRead, Prepare, HoldAt
    <3> DEFINE held == [pc |-> "write", wakeAt |-> fin[s].wakeAt, snap |-> snap]
    <3>2. held.pc = "write" /\ fin' = [fin EXCEPT ![s] = held]
      BY <3>1
    <3> QED BY <3>2
  <2> QED BY <2>1, <2>2
<1>3. \A t \in Seconds : fin'[t] = IF t = s THEN f ELSE fin[t]
  BY <1>1, <1>2
<1>4. (\E t \in Seconds : fin'[t].pc = "publish") => \E t \in Seconds : fin[t].pc = "publish"
  BY <1>2, <1>3
<1>5. ASSUME snapshotCh # <<>>, NEW t \in Seconds, Last(snapshotCh).second < t, t < nextSecond
      PROVE  fin'[t].pc \in Active
  <2>1. CASE t = s
    BY <1>2, <1>3, <1>5, <2>1 DEF Contiguous, Active
  <2>2. CASE t # s
    BY <1>3, <1>5, <2>2 DEF Contiguous
  <2> QED BY <2>1, <2>2
<1>6. NoGap'
  BY <1>1 DEF Contiguous, NoGap
<1> QED BY <1>1, <1>4, <1>5, <1>6 DEF Contiguous

LEMMA ContiguousWrite ==
    ASSUME MainInv, Positive, Contiguous, NEW s \in Seconds, FinalizeWrite(s)
    PROVE  Contiguous'
<1>1. /\ UNCHANGED <<nextSecond, snapshotCh>> /\ fin \in [Seconds -> Finalizer]
      /\ fin[s].pc = "write"
  BY DEF FinalizeWrite, MainInv, LifeInv, TypeOK
<1>2. lastCanonical' # 0
  BY <1>1 DEF FinalizeWrite, Positive
<1>3. \A t \in Seconds : fin[t].pc \in Active => fin'[t].pc \in Active
  BY <1>1 DEF FinalizeWrite, HoldAt, Active
<1>4. NoGap'
  BY <1>1 DEF Contiguous, NoGap
<1> QED BY <1>1, <1>2, <1>3, <1>4 DEF Contiguous

\* The second published is the next of the log: those between would have a
\* finalizer alive as well.
LEMMA ContiguousPublish ==
    ASSUME Timely, MainInv, Timing, Contiguous, NEW s \in Seconds, FinalizePublish(s)
    PROVE  Contiguous' /\ (snapshotCh # <<>> => s = Last(snapshotCh).second + 1)
<1>1. /\ UNCHANGED <<nextSecond, lastCanonical>> /\ fin \in [Seconds -> Finalizer]
      /\ fin[s].pc = "publish" /\ fin[s].pc \in Active
      /\ fin[s].snap.second = s /\ fin[s].snap \in Snapshot
      /\ snapshotCh' = Append(snapshotCh, fin[s].snap) /\ snapshotCh \in Seq(Snapshot)
      /\ fin' = [fin EXCEPT ![s].pc = "done"] /\ s \in Nat
  BY DEF FinalizePublish, engineVars, Active, MainInv, LifeInv, TypeOK, FinInv, StageInv,
         GoodSnap, Seconds
<1>2. nextSecond = s + 1
  BY <1>1, OneAlive
<1>3. PICK n \in Nat : n = Len(snapshotCh)
  BY <1>1
<1>4. ASSUME snapshotCh # <<>>
      PROVE  s = Last(snapshotCh).second + 1
  <2>1. n \in DOMAIN snapshotCh /\ Last(snapshotCh) = snapshotCh[n]
    BY <1>1, <1>3, <1>4 DEF Last
  <2>2. PICK l \in Seconds : l = Last(snapshotCh).second /\ fin[l].pc = "done"
    BY <1>1, <2>1 DEF MainInv, LogInv, GoodSnap, Snapshot
  <2>3. l < nextSecond /\ l # s /\ l \in Nat
    BY <1>1, <2>2 DEF MainInv, LifeInv, TickerPast, Seconds
  <2>4. l + 1 \in Seconds /\ l < l + 1
    <3>1. l < s /\ s <= MaxSecond /\ MaxSecond \in Nat
      BY <1>1, <1>2, <2>3, EngineAssumption DEF Seconds
    <3> QED BY <1>1, <2>3, <3>1 DEF Seconds
  <2>5. CASE l + 1 < nextSecond
    <3>1. fin[l + 1].pc \in Active
      BY <1>4, <2>2, <2>4, <2>5 DEF Contiguous
    <3>2. nextSecond = (l + 1) + 1
      BY <2>4, <3>1, OneAlive
    <3> QED BY <1>1, <1>2, <2>2, <2>3, <3>2
  <2> QED BY <1>1, <1>2, <2>2, <2>3, <2>5
<1>5. lastCanonical' # 0
  BY <1>1 DEF Contiguous
<1>6. /\ snapshotCh' \in Seq(Snapshot) /\ Len(snapshotCh') = n + 1
      /\ snapshotCh'[n + 1] = fin[s].snap
      /\ \A i \in 1..n : snapshotCh'[i] = snapshotCh[i]
  BY <1>1, <1>3
<1>7. Last(snapshotCh').second = s
  BY <1>1, <1>6 DEF Last
<1>8. NoGap'
  <2> SUFFICES ASSUME NEW i \in 1..n PROVE snapshotCh'[i + 1].second = snapshotCh'[i].second + 1
    BY <1>3, <1>6 DEF NoGap
  <2>1. CASE i = n
    <3>1. snapshotCh # <<>> /\ Last(snapshotCh) = snapshotCh[n]
      BY <1>1, <1>3, <2>1 DEF Last
    <3> QED BY <1>1, <1>4, <1>6, <2>1, <3>1
  <2>2. CASE i # n
    <3>1. i \in 1..(Len(snapshotCh) - 1) /\ i \in 1..n /\ i + 1 \in 1..n
      BY <1>3, <2>2
    <3> QED BY <1>6, <3>1 DEF Contiguous, NoGap
  <2> QED BY <2>1, <2>2
<1>9. \A t \in Seconds : ~(Last(snapshotCh').second < t /\ t < nextSecond')
  BY <1>1, <1>2, <1>7 DEF Seconds
<1> QED BY <1>4, <1>5, <1>8, <1>9 DEF Contiguous

LEMMA ContiguousStep ==
    ASSUME Timely, 0 \notin TradePrices, MainInv, Timing, Positive, Contiguous, [Next]_vars
    PROVE  Contiguous'
<1>1. /\ TypeOK /\ fin \in [Seconds -> Finalizer] /\ nextSecond \in Nat /\ now \in Nat
  BY DEF MainInv, LifeInv, TypeOK
<1>2. CASE AdvanceClock \/ Stop \/ Stopped \/ UNCHANGED vars
  BY <1>2, ContiguousKept DEF AdvanceClock, Stop, Stopped, vars, engineVars
<1>3. CASE ConsumeEvent
  BY <1>1, <1>3, ConsumeEventType, PositiveConsume, ContiguousKept
<1>4. CASE SpawnFinalizer
  <2>1. /\ UNCHANGED <<lastCanonical, snapshotCh>> /\ nextSecond \in Seconds
        /\ fin' = [fin EXCEPT ![nextSecond] =
                      [pc |-> "sleep", wakeAt |-> now + Grace, snap |-> None]]
        /\ now >= EndOf(nextSecond) /\ nextSecond' = now \div Second
    BY <1>4 DEF SpawnFinalizer, ServeTicker, engineVars
  <2>2. nextSecond' = nextSecond + 1
    <3>1. /\ running => now <= EndOf(nextSecond) + LoopLag
          /\ running
      BY <1>4 DEF Timing, SpawnFinalizer, ServeTicker
    <3>2. /\ Second \in Nat \ {0} /\ LoopLag \in Nat /\ Grace \in Nat /\ FinalizeLag \in Nat
          /\ EndOf(nextSecond) \in Nat
      BY <1>1, EngineAssumption, EndOfType
    <3>3. now < EndOf(nextSecond) + Second
      BY <1>1, <3>1, <3>2 DEF Timely
    <3>4. PICK q \in Nat : q = nextSecond' /\ q * Second <= now /\ now < (q + 1) * Second
      BY <1>1, <2>1, <3>2, DivUpper
    <3>5. q * Second < (nextSecond + 2) * Second /\ (nextSecond + 1) * Second < (q + 1) * Second
      BY <1>1, <2>1, <3>2, <3>3, <3>4 DEF EndOf
    <3>6. q < nextSecond + 2 /\ nextSecond + 1 < q + 1
      <4>1. ASSUME q >= nextSecond + 2 PROVE FALSE
        <5>1. q * Second >= (nextSecond + 2) * Second
          BY <1>1, <3>2, <4>1
        <5> QED BY <1>1, <3>2, <3>5, <5>1
      <4>2. ASSUME nextSecond + 1 >= q + 1 PROVE FALSE
        <5>1. (nextSecond + 1) * Second >= (q + 1) * Second
          BY <1>1, <3>2, <4>2
        <5> QED BY <1>1, <3>2, <3>5, <5>1
      <4> QED BY <1>1, <4>1, <4>2
    <3>7. q \in Nat /\ nextSecond \in Nat
      BY <1>1, <3>4
    <3>8. q = nextSecond + 1
      BY <3>6, <3>7
    <3> QED BY <3>4, <3>8
  <2>3. \A t \in Seconds : fin'[t].pc = IF t = nextSecond THEN "sleep" ELSE fin[t].pc
    BY <1>1, <2>1
  <2>4. NoGap'
    BY <2>1 DEF Contiguous, NoGap
  <2>5. ASSUME snapshotCh # <<>>, NEW t \in Seconds, Last(snapshotCh).second < t, t < nextSecond'
        PROVE  fin'[t].pc \in Active
    <3>1. CASE t = nextSecond
      BY <2>3, <3>1 DEF Active
    <3>2. CASE t # nextSecond
      <4>1. t < nextSecond
        BY <1>1, <2>2, <2>5, <3>2 DEF Seconds
      <4> QED BY <2>3, <2>5, <3>2, <4>1 DEF Contiguous
    <3> QED BY <3>1, <3>2
  <2> QED BY <2>1, <2>3, <2>4, <2>5 DEF Contiguous
<1>5. CASE SkipSecond
  <2>1. sem = Cardinality(Holders) /\ sem >= MaxFinalizers /\ now >= EndOf(nextSecond)
    BY <1>5 DEF SkipSecond, ServeTicker, MainInv, LifeInv, SemaphoreMatches, Holders
  <2>2. PICK s \in Seconds : fin[s].pc \in Active
    <3>1. Cardinality(Holders) # 0
      BY <2>1, EngineAssumption, HoldersFinite
    <3>2. Holders # {}
      BY <3>1, FS_EmptySet
    <3> QED BY <3>2 DEF Holders
  <2>3. nextSecond = s + 1 /\ now < EndOf(nextSecond)
    BY <2>2, OneAlive
  <2>4. EndOf(nextSecond) \in Nat
    BY <1>1, EndOfType
  <2> QED BY <1>1, <2>1, <2>3, <2>4
<1> QED BY <1>2, <1>3, <1>4, <1>5, PositiveStep, ContiguousRead, ContiguousWrite,
           ContiguousPublish
        DEF Next, Finalize

\* With timely finalizers and trades that all have a price, the log has a snapshot of
\* every second from the first on, in order, and no second is skipped.
THEOREM NoGapCorrect == Timely /\ 0 \notin TradePrices => (Spec => []NoGap)
<1> SUFFICES ASSUME Timely, 0 \notin TradePrices PROVE Spec => []NoGap
  OBVIOUS
<1>1. Init => Timing /\ Positive /\ Contiguous
  BY EngineAssumption DEF Init, Timing, Contiguous, NoGap, Idle, Active, EndOf,
     Positive, PositiveVenues, NoVenues
<1>2. MainInv /\ Timing /\ Positive /\ Contiguous /\ [Next]_vars
         => Timing' /\ Positive' /\ Contiguous'
  BY TimingStep, PositiveStep, ContiguousStep
<1>3. Contiguous => NoGap
  BY DEF Contiguous
<1> QED BY <1>1, <1>2, <1>3, MainInvariant, PTL DEF Spec

-----------------------------------------------------------------------------
(***************************************************************************)
(* Timely finalizers again: the snapshots of one carry count from one      *)
(* start, and are made one after the other, less than a second after the   *)
(* end of their own.                                                       *)
(***************************************************************************)
InTime(snap) ==
    /\ EndOf(snap.second) + Grace <= snap.finalizedAt
    /\ snap.finalizedAt <= EndOf(snap.second) + LoopLag + Grace + FinalizeLag

Counts(snap) == snap.stale => snap.carryStart \in Nat /\ snap.carryStart <= snap.finalizedAt

OneCarry(a, b) == a.stale /\ b.stale => a.carryStart = b.carryStart

Publishing == {s \in Seconds : fin[s].pc = "publish"}

\* There may be snapshots to come.
Alive == running \/ \E s \in Seconds : fin[s].pc \in Active

CarryChain ==
    /\ carryStart # None => carryStart <= now
    /\ \A s \in Seconds : fin[s].pc \in {"write", "publish"} => InTime(fin[s].snap)
    /\ \A s \in Seconds : fin[s].pc = "write" =>
          /\ fin[s].snap.finalizedAt <= now
          /\ carryStart # None => carryStart <= fin[s].snap.finalizedAt
    /\ \A s \in Publishing :
          /\ Counts(fin[s].snap)
          /\ fin[s].snap.stale => carryStart = fin[s].snap.carryStart
          /\ snapshotCh # <<>> => OneCarry(Last(snapshotCh), fin[s].snap)
    /\ \A i \in DOMAIN snapshotCh : InTime(snapshotCh[i]) /\ Counts(snapshotCh[i])
    /\ \A i \in 1..(Len(snapshotCh) - 1) :
          /\ OneCarry(snapshotCh[i], snapshotCh[i + 1])
          /\ snapshotCh[i].second < snapshotCh[i + 1].second
    /\ Alive /\ snapshotCh # <<>> /\ Publishing = {} =>
          (Last(snapshotCh).stale => carryStart = Last(snapshotCh).carryStart)

\* A step that leaves the snapshots and the carry alone; a finalizer it moves
\* holds, if any, a snapshot made just now and is not about to publish.
LEMMA CarryChainKept ==
    ASSUME CarryChain, UNCHANGED <<carryStart, snapshotCh>>, now \in Nat, now' \in Nat,
           now' >= now, carryStart \in Nat \cup {None}, Alive' => Alive, NEW t,
           \A s \in Seconds : fin[s].pc = "write" => fin[s].snap.finalizedAt \in Nat,
           \A s \in Seconds : s # t => fin'[s] = fin[s],
           t \in Seconds => /\ fin[t].pc # "publish" /\ fin'[t].pc # "publish"
                            /\ fin'[t].pc = "write" => /\ InTime(fin'[t].snap)
                                                       /\ fin'[t].snap.finalizedAt = now
    PROVE  CarryChain'
<1>1. Publishing' = Publishing /\ t \notin Publishing
  BY DEF Publishing
<1>2. \A s \in Publishing : s \in Seconds /\ fin'[s] = fin[s]
  BY <1>1 DEF Publishing
<1>3. carryStart # None => carryStart <= now'
  BY DEF CarryChain
<1>4. ASSUME NEW s \in Seconds, fin'[s].pc \in {"write", "publish"}
      PROVE  InTime(fin'[s].snap)
  BY <1>4 DEF CarryChain
<1>5. ASSUME NEW s \in Seconds, fin'[s].pc = "write"
      PROVE  /\ fin'[s].snap.finalizedAt <= now'
             /\ carryStart # None => carryStart <= fin'[s].snap.finalizedAt
  <2>1. CASE s = t
    BY <1>5, <2>1 DEF CarryChain
  <2>2. CASE s # t
    BY <1>5, <2>2 DEF CarryChain
  <2> QED BY <2>1, <2>2
<1> QED BY <1>1, <1>2, <1>3, <1>4, <1>5 DEF CarryChain, InTime, Counts, OneCarry

\* A snapshot is made after the grace and before the finalizer is too late.
LEMMA MadeInTime ==
    ASSUME MainInv, Timing, NEW s \in Seconds, Awake(s)
    PROVE  /\ EndOf(s) + Grace <= now
           /\ now <= EndOf(s) + LoopLag + Grace + FinalizeLag
<1>1. /\ now \in Nat /\ fin[s].wakeAt \in Nat /\ EndOf(s) \in Nat
      /\ Grace \in Nat /\ LoopLag \in Nat /\ FinalizeLag \in Nat
  <2>1. s \in Nat /\ EndOf(s) \in Nat
    BY EndOfType DEF Seconds
  <2>2. now \in Nat /\ fin[s].wakeAt \in Nat
    BY DEF MainInv, LifeInv, TypeOK, Finalizer
  <2> QED BY <2>1, <2>2, EngineAssumption
<1>2. fin[s].wakeAt >= EndOf(s) + Grace /\ now >= fin[s].wakeAt
  BY DEF MainInv, FinInv, StageInv, Awake
<1>3. fin[s].wakeAt <= EndOf(s) + LoopLag + Grace /\ now <= fin[s].wakeAt + FinalizeLag
  BY DEF Timing, Awake, Active
<1> QED BY <1>1, <1>2, <1>3

LEMMA ChainRead ==
    ASSUME Timely, MainInv, Timing, CarryChain, NEW s \in Seconds, FinalizeRead(s)
    PROVE  CarryChain'
<1> DEFINE refs == ComputeVenueRefs(venueStates, EndOf(s))
<1>1. /\ UNCHANGED <<now, carryStart, snapshotCh>> /\ fin \in [Seconds -> Finalizer]
      /\ now \in Nat /\ carryStart \in Nat \cup {None}
      /\ fin[s].pc = "sleep" /\ Awake(s) /\ fin[s].pc \in Active
  BY DEF FinalizeRead, Awake, engineVars, MainInv, LifeInv, TypeOK, Active
<1>2. EndOf(s) + Grace <= now /\ now <= EndOf(s) + LoopLag + Grace + FinalizeLag
  BY <1>1, MadeInTime
<1>3. /\ \A t \in Seconds : t # s => fin'[t] = fin[t]
      /\ fin'[s].pc # "publish"
      /\ fin'[s].pc = "write" => InTime(fin'[s].snap) /\ fin'[s].snap.finalizedAt = now
  <2>1. CASE NothingToPublish(refs)
    BY <1>1, <2>1 DEF FinalizeRead, GiveUp, Finalizer
  <2>2. CASE ~NothingToPublish(refs)
    <3> DEFINE snap == IF Sources(refs) = {} THEN CarriedSnapshot(s, refs)
                                             ELSE FreshSnapshot(s, refs)
    <3>1. snap.second = s /\ snap.finalizedAt = now
      BY DEF CarriedSnapshot, FreshSnapshot
    <3>2. fin' = [fin EXCEPT ![s] = [pc |-> "write", wakeAt |-> fin[s].wakeAt, snap |-> snap]]
      BY <2>2 DEF FinalizeRead, Prepare, HoldAt
    <3> HIDE DEF snap
    <3> QED BY <1>1, <1>2, <3>1, <3>2 DEF InTime
  <2> QED BY <2>1, <2>2
<1>4. \A t \in Seconds : fin[t].pc = "write" => fin[t].snap.finalizedAt \in Nat
  BY DEF MainInv, FinInv, StageInv, GoodSnap, Snapshot
<1>5. Alive
  BY <1>1 DEF Alive
<1> QED BY <1>1, <1>3, <1>4, <1>5, CarryChainKept

\* A carry that goes on keeps the start it has.
LEMMA ChainWrite ==
    ASSUME Timely, MainInv, Timing, CarryChain, NEW s \in Seconds, FinalizeWrite(s)
    PROVE  CarryChain'
<1> DEFINE snap == fin[s].snap
<1>1. /\ UNCHANGED <<now, snapshotCh>> /\ fin \in [Seconds -> Finalizer] /\ now \in Nat
      /\ carryStart \in Nat \cup {None} /\ None \notin Int
      /\ fin[s].pc = "write" /\ fin[s].pc \in Active /\ snap \in Snapshot /\ snap.second = s
      /\ snapshotCh \in Seq(Snapshot)
  BY PricingAssumption DEF FinalizeWrite, MainInv, LifeInv, TypeOK, Active, FinInv, StageInv, GoodSnap
<1>2. /\ InTime(snap) /\ snap.finalizedAt \in Nat /\ snap.finalizedAt <= now
      /\ carryStart # None => carryStart <= snap.finalizedAt
  BY <1>1 DEF CarryChain, Snapshot
<1>3. Publishing = {} /\ \A t \in Seconds : fin[t].pc \in Active => t = s
  <2>1. nextSecond = s + 1
    BY <1>1, OneAlive
  <2>2. ASSUME NEW t \in Seconds, fin[t].pc \in Active PROVE t = s
    <3>1. nextSecond = t + 1
      BY <2>2, OneAlive
    <3> QED BY <2>1, <3>1 DEF Seconds
  <2> QED BY <1>1, <2>2 DEF Publishing, Active
<1>4. snapshotCh # <<>> =>
        /\ Last(snapshotCh).stale => carryStart = Last(snapshotCh).carryStart
        /\ Counts(Last(snapshotCh))
  <2>1. snapshotCh # <<>> => Len(snapshotCh) \in DOMAIN snapshotCh
                             /\ Last(snapshotCh) = snapshotCh[Len(snapshotCh)]
    BY <1>1 DEF Last
  <2>2. Alive
    BY <1>1 DEF Alive
  <2> QED BY <1>3, <2>1, <2>2 DEF CarryChain
<1>5. CASE snap.stale
  <2>1. PICK start : start = CarryFrom(snap)
    OBVIOUS
  <2>2. start \in Nat /\ start <= snap.finalizedAt /\ start <= now
    BY <1>1, <1>2, <2>1 DEF CarryFrom
  <2>3. snapshotCh # <<>> /\ Last(snapshotCh).stale => start = Last(snapshotCh).carryStart
    BY <1>1, <1>4, <2>1 DEF CarryFrom, Counts
  <2> DEFINE new == [snap EXCEPT !.carryStart = start, !.price = CarriedPrice(snap)]
  <2>4. /\ carryStart' = start
        /\ fin' = [fin EXCEPT ![s] = [pc |-> "publish", wakeAt |-> fin[s].wakeAt, snap |-> new]]
    BY <1>5, <2>1 DEF FinalizeWrite, HoldAt
  <2>5. /\ new.second = s /\ new.finalizedAt = snap.finalizedAt
        /\ new.carryStart = start /\ new.stale
    BY <1>1, <1>2, <1>5 DEF Snapshot
  <2> HIDE DEF new
  <2>6. /\ \A t \in Seconds : t # s => fin'[t] = fin[t]
        /\ fin'[s].pc = "publish" /\ fin'[s].snap = new
    BY <1>1, <2>4
  <2>7. Publishing' = {s}
    BY <1>3, <2>6 DEF Publishing
  <2>8. InTime(new) /\ Counts(new) /\ (snapshotCh # <<>> => OneCarry(Last(snapshotCh), new))
    BY <1>1, <1>2, <2>2, <2>3, <2>5 DEF InTime, Counts, OneCarry
  <2>9. /\ \A t \in Seconds : fin'[t].pc \in {"write", "publish"} => InTime(fin'[t].snap)
        /\ \A t \in Seconds : fin'[t].pc # "write"
    BY <1>3, <2>6, <2>8 DEF CarryChain, Active
  <2> QED BY <1>1, <2>2, <2>4, <2>5, <2>6, <2>7, <2>8, <2>9 DEF CarryChain, InTime, Counts, OneCarry
<1>6. CASE ~snap.stale
  <2>1. /\ carryStart' = None
        /\ fin' = [fin EXCEPT ![s] = [pc |-> "publish", wakeAt |-> fin[s].wakeAt, snap |-> snap]]
    BY <1>6 DEF FinalizeWrite, HoldAt
  <2>2. /\ \A t \in Seconds : t # s => fin'[t] = fin[t]
        /\ fin'[s].pc = "publish" /\ fin'[s].snap = snap
    BY <1>1, <2>1
  <2>3. Publishing' = {s}
    BY <1>3, <2>2 DEF Publishing
  <2>4. Counts(snap) /\ (snapshotCh # <<>> => OneCarry(Last(snapshotCh), snap))
    BY <1>6 DEF Counts, OneCarry
  <2>5. /\ \A t \in Seconds : fin'[t].pc \in {"write", "publish"} => InTime(fin'[t].snap)
        /\ \A t \in Seconds : fin'[t].pc # "write"
    BY <1>2, <1>3, <2>2 DEF CarryChain, Active
  <2> HIDE DEF snap
  <2> QED BY <1>1, <1>6, <2>1, <2>2, <2>3, <2>4, <2>5 DEF CarryChain, InTime, Counts, OneCarry
<1> QED BY <1>5, <1>6

LEMMA ChainPublish ==
    ASSUME Timely, MainInv, Timing, CarryChain, NEW s \in Seconds, FinalizePublish(s)
    PROVE  CarryChain'
<1>1. /\ UNCHANGED <<now, carryStart>> /\ fin \in [Seconds -> Finalizer]
      /\ fin[s].pc = "publish" /\ fin[s].pc \in Active /\ s \in Publishing
      /\ fin[s].snap \in Snapshot
      /\ snapshotCh' = Append(snapshotCh, fin[s].snap) /\ snapshotCh \in Seq(Snapshot)
      /\ fin' = [fin EXCEPT ![s].pc = "done"]
  BY DEF FinalizePublish, engineVars, Active, MainInv, LifeInv, TypeOK, FinInv, StageInv,
         GoodSnap, Publishing
<1>2. PICK snap : snap = fin[s].snap
  OBVIOUS
<1>3. /\ InTime(snap) /\ Counts(snap) /\ (snap.stale => carryStart = snap.carryStart)
      /\ snapshotCh # <<>> => OneCarry(Last(snapshotCh), snap)
  BY <1>1, <1>2 DEF CarryChain, Publishing
<1>4. /\ Publishing' = {} /\ \A t \in Seconds : fin'[t].pc # "write"
      /\ nextSecond = s + 1 /\ Alive
  <2>1. nextSecond = s + 1
    BY <1>1, OneAlive
  <2>2. ASSUME NEW t \in Seconds, fin[t].pc \in Active PROVE t = s
    <3>1. nextSecond = t + 1
      BY <2>2, OneAlive
    <3> QED BY <2>1, <3>1 DEF Seconds
  <2>3. \A t \in Seconds : fin'[t].pc \notin {"write", "publish"}
    BY <1>1, <2>2 DEF Active
  <2> QED BY <1>1, <2>1, <2>3 DEF Publishing, Alive
<1>5. PICK n \in Nat : n = Len(snapshotCh)
  BY <1>1
<1>6. /\ Len(snapshotCh') = n + 1 /\ DOMAIN snapshotCh' = 1..(n + 1)
      /\ snapshotCh'[n + 1] = snap /\ \A i \in 1..n : snapshotCh'[i] = snapshotCh[i]
      /\ DOMAIN snapshotCh = 1..n /\ Last(snapshotCh') = snap
  BY <1>1, <1>2, <1>5 DEF Last
<1>7. ASSUME NEW t \in Seconds, fin'[t].pc \in {"write", "publish"}
      PROVE  InTime(fin'[t].snap)
  BY <1>1, <1>7 DEF CarryChain
<1>8. ASSUME NEW i \in 1..(n + 1)
      PROVE  InTime(snapshotCh'[i]) /\ Counts(snapshotCh'[i])
  <2>1. CASE i = n + 1
    BY <1>3, <1>6, <2>1
  <2>2. CASE i # n + 1
    <3>1. i \in 1..n
      BY <2>2
    <3> QED BY <1>6, <3>1 DEF CarryChain
  <2> QED BY <2>1, <2>2
<1>9. ASSUME NEW i \in 1..n
      PROVE  /\ OneCarry(snapshotCh'[i], snapshotCh'[i + 1])
             /\ snapshotCh'[i].second < snapshotCh'[i + 1].second
  <2>1. CASE i = n
    <3>1. snapshotCh # <<>> /\ Last(snapshotCh) = snapshotCh[n] /\ n \in DOMAIN snapshotCh
      BY <1>1, <1>5, <2>1 DEF Last
    <3>2. PICK l \in Seconds : l = snapshotCh[n].second /\ fin[l].pc = "done"
      BY <3>1 DEF MainInv, LogInv, GoodSnap, Snapshot
    <3>3. l < nextSecond /\ l # s /\ l \in Nat /\ s \in Nat
      BY <1>1, <3>2 DEF MainInv, LifeInv, TickerPast, Seconds
    <3>4. snap.second = s
      BY <1>1, <1>2 DEF MainInv, FinInv, StageInv
    <3> QED BY <1>3, <1>4, <1>6, <2>1, <3>1, <3>2, <3>3, <3>4
  <2>2. CASE i # n
    <3>1. i \in 1..(Len(snapshotCh) - 1) /\ i + 1 \in 1..n
      BY <1>5, <2>2
    <3> QED BY <1>6, <3>1 DEF CarryChain
  <2> QED BY <2>1, <2>2
<1>10. carryStart' # None => carryStart' <= now'
  BY <1>1 DEF CarryChain
<1> QED BY <1>1, <1>3, <1>4, <1>6, <1>7, <1>8, <1>9, <1>10 DEF CarryChain, InTime, Counts, OneCarry

LEMMA ChainStep ==
    ASSUME Timely, MainInv, Timing, CarryChain, [Next]_vars
    PROVE  CarryChain'
<1>1. /\ TypeOK /\ fin \in [Seconds -> Finalizer] /\ now \in Nat /\ nextSecond \in Nat
      /\ carryStart \in Nat \cup {None}
  BY DEF MainInv, LifeInv, TypeOK
<1>2. \A s \in Seconds : fin[s].pc = "write" => fin[s].snap.finalizedAt \in Nat
  BY DEF MainInv, FinInv, StageInv, GoodSnap, Snapshot
<1>3. ASSUME UNCHANGED <<carryStart, snapshotCh, fin>>, now' \in Nat, now' >= now,
             running' => running
      PROVE  CarryChain'
  <2>1. PICK t : t \notin Seconds
    <3>1. MaxSecond + 1 \notin Seconds
      BY EngineAssumption DEF Seconds
    <3> QED BY <3>1
  <2>2. Alive' => Alive
    BY <1>3 DEF Alive
  <2> QED BY <1>1, <1>2, <1>3, <2>1, <2>2, CarryChainKept
<1>4. CASE AdvanceClock
  BY <1>1, <1>3, <1>4 DEF AdvanceClock
<1>5. CASE ConsumeEvent
  BY <1>1, <1>3, <1>5, ConsumeEventType
<1>6. CASE SkipSecond \/ Stop \/ Stopped \/ UNCHANGED vars
  BY <1>1, <1>3, <1>6 DEF SkipSecond, Stop, Stopped, vars
<1>7. CASE SpawnFinalizer
  <2>1. /\ UNCHANGED <<now, carryStart, snapshotCh>> /\ nextSecond \in Seconds /\ running
        /\ fin' = [fin EXCEPT ![nextSecond] =
                      [pc |-> "sleep", wakeAt |-> now + Grace, snap |-> None]]
    BY <1>7 DEF SpawnFinalizer, ServeTicker
  <2>2. fin[nextSecond].pc = "idle" /\ fin'[nextSecond].pc = "sleep"
    BY <1>1, <2>1 DEF MainInv, LifeInv, TickerPast, Seconds
  <2>3. \A s \in Seconds : s # nextSecond => fin'[s] = fin[s]
    BY <1>1, <2>1
  <2>4. Alive
    BY <2>1 DEF Alive
  <2> QED BY <1>1, <1>2, <2>1, <2>2, <2>3, <2>4, CarryChainKept
<1>8. ASSUME NEW s \in Seconds, FinalizePanics(s) PROVE CarryChain'
  <2>1. UNCHANGED <<now, snapshotCh>> /\ carryStart' = None /\ ~running'
    BY <1>8 DEF FinalizePanics
  <2>2. \A t \in Seconds : fin'[t].pc \notin Active
    BY <1>1, <1>8 DEF FinalizePanics, Active, Finalizer
  <2>3. Publishing' = {} /\ ~Alive'
    BY <2>1, <2>2 DEF Publishing, Alive, Active
  <2> QED BY <2>1, <2>2, <2>3 DEF CarryChain, Active, InTime, Counts, OneCarry
<1> QED BY <1>4, <1>5, <1>6, <1>7, <1>8, ChainRead, ChainWrite, ChainPublish DEF Next, Finalize

LEMMA DivMonotone ==
    ASSUME NEW d \in Nat, NEW e \in Nat, NEW b \in Nat \ {0}
    PROVE  /\ d \div b \in Nat /\ e \div b \in Nat
           /\ e >= d => e \div b >= d \div b
           /\ e >= d + b => e \div b >= d \div b + 1
<1>1. PICK q \in Nat : q = d \div b /\ q * b <= d
  BY DivUpper
<1>2. (q + 1) * b = q * b + b /\ q * b \in Nat
  BY <1>1
<1> QED BY <1>1, <1>2, DivLower

\* Of two snapshots of the log, the later one is made later, and more than a second
\* later when there is one between them.
LEMMA MadeInOrder ==
    ASSUME Timely, NEW a \in Snapshot, NEW b \in Snapshot, InTime(a), InTime(b)
    PROVE  /\ a.second < b.second => a.finalizedAt <= b.finalizedAt
           /\ a.second + 1 < b.second => a.finalizedAt + Second <= b.finalizedAt
<1>1. PICK s \in Nat, t \in Nat : s = a.second /\ t = b.second
  BY DEF Snapshot, Seconds
<1>2. /\ EndOf(s) \in Nat /\ EndOf(t) \in Nat /\ EndOf(s + 1) \in Nat
      /\ a.finalizedAt \in Nat /\ b.finalizedAt \in Nat
      /\ LoopLag \in Nat /\ FinalizeLag \in Nat /\ Grace \in Nat /\ Second \in Nat
  BY EndOfType, EngineAssumption DEF Snapshot
<1>3. a.finalizedAt < EndOf(s) + Second /\ EndOf(t) <= b.finalizedAt
  BY <1>1, <1>2 DEF InTime, Timely
<1>4. s < t => EndOf(s) + Second <= EndOf(t)
  BY EndOfNext
<1>5. s + 1 < t => EndOf(s) + Second + Second <= EndOf(t)
  BY <1>2, EndOfNext
<1> QED BY <1>1, <1>2, <1>3, <1>4, <1>5

\* The snapshots of one carry, by their places in the log.
LEMMA ChainQuality ==
    ASSUME Timely, NEW a \in Snapshot, NEW b \in Snapshot, InTime(a), InTime(b),
           Counts(a), Counts(b), a.stale, b.stale, a.carryStart = b.carryStart
    PROVE  /\ a.second < b.second => StaleQuality(b) <= StaleQuality(a)
           /\ a.second + 1 < b.second =>
                 StaleQuality(b) < StaleQuality(a) \/ StaleQuality(b) = 0
<1>1. Second \in Nat \ {0} /\ CarryForwardMax \in Nat
  BY EngineAssumption
<1>2. PICK c \in Nat, f \in Nat, g \in Nat :
         /\ c = a.carryStart /\ c = b.carryStart /\ f = a.finalizedAt /\ g = b.finalizedAt
         /\ c <= f /\ c <= g
  BY DEF Counts, Snapshot
<1>3. PICK d \in Nat, e \in Nat : d = f - c /\ e = g - c
  BY <1>2
<1>4. /\ a.second < b.second => d <= e
      /\ a.second + 1 < b.second => d + Second <= e
  BY <1>1, <1>2, <1>3, MadeInOrder
<1>5. CarryDuration(a) = d \div Second /\ CarryDuration(b) = e \div Second
  BY <1>2, <1>3 DEF CarryDuration
<1>6. PICK q \in Nat, r \in Nat :
         /\ q = CarryDuration(a) /\ r = CarryDuration(b)
         /\ e >= d => r >= q
         /\ e >= d + Second => r >= q + 1
  BY <1>1, <1>3, <1>5, DivMonotone
<1>7. /\ r >= q => StaleQuality(b) <= StaleQuality(a)
      /\ r >= q + 1 => StaleQuality(b) < StaleQuality(a) \/ StaleQuality(b) = 0
  BY <1>1, <1>6 DEF StaleQuality
<1> QED BY <1>1, <1>3, <1>4, <1>6, <1>7

LEMMA ChainDecays ==
    ASSUME Timely, MainInv, CarryChain
    PROVE  QualityDecays
<1>1. snapshotCh \in Seq(Snapshot)
  BY DEF MainInv, LifeInv, TypeOK
<1>2. ASSUME NEW i \in 1..(Len(snapshotCh) - 1), snapshotCh[i].stale, snapshotCh[i + 1].stale
      PROVE  StaleQuality(snapshotCh[i + 1]) <= StaleQuality(snapshotCh[i])
  <2>1. i \in DOMAIN snapshotCh /\ i + 1 \in DOMAIN snapshotCh
    BY <1>1
  <2>2. PICK a \in Snapshot, b \in Snapshot : a = snapshotCh[i] /\ b = snapshotCh[i + 1]
    BY <1>1, <2>1
  <2>3. /\ InTime(a) /\ InTime(b) /\ Counts(a) /\ Counts(b)
        /\ a.second < b.second /\ a.carryStart = b.carryStart
    BY <1>2, <2>1, <2>2 DEF CarryChain, OneCarry
  <2> QED BY <1>2, <2>2, <2>3, ChainQuality
<1>3. ASSUME NEW i \in 1..(Len(snapshotCh) - 2), snapshotCh[i].stale, snapshotCh[i + 1].stale,
             snapshotCh[i + 2].stale
      PROVE  StaleQuality(snapshotCh[i + 2]) < StaleQuality(snapshotCh[i])
             \/ StaleQuality(snapshotCh[i + 2]) = 0
  <2>1. /\ i \in DOMAIN snapshotCh /\ i + 1 \in DOMAIN snapshotCh /\ i + 2 \in DOMAIN snapshotCh
        /\ i \in 1..(Len(snapshotCh) - 1) /\ i + 1 \in 1..(Len(snapshotCh) - 1)
        /\ (i + 1) + 1 = i + 2
    BY <1>1
  <2>2. PICK a \in Snapshot, b \in Snapshot, c \in Snapshot :
           a = snapshotCh[i] /\ b = snapshotCh[i + 1] /\ c = snapshotCh[i + 2]
    BY <1>1, <2>1
  <2>3. /\ InTime(a) /\ InTime(c) /\ Counts(a) /\ Counts(c)
        /\ a.second < b.second /\ a.carryStart = b.carryStart
    BY <1>3, <2>1, <2>2 DEF CarryChain, OneCarry
  <2>4. OneCarry(snapshotCh[i + 1], snapshotCh[(i + 1) + 1])
        /\ snapshotCh[i + 1].second < snapshotCh[(i + 1) + 1].second
    BY <2>1 DEF CarryChain
  <2>5. b.second < c.second /\ b.carryStart = c.carryStart
    BY <1>3, <2>1, <2>2, <2>4 DEF OneCarry
  <2>6. a.second + 1 < c.second
    BY <2>3, <2>5 DEF Snapshot, Seconds
  <2> QED BY <1>3, <2>2, <2>3, <2>5, <2>6, ChainQuality
<1> QED BY <1>2, <1>3 DEF QualityDecays

\* With timely finalizers the quality of a carry never rises, and falls within two
\* snapshots until it is zero, however late within a second each of them is made, how
\* long the carry lasts and what ends it.
THEOREM QualityDecaysCorrect == Timely => (Spec => []QualityDecays)
<1> SUFFICES ASSUME Timely PROVE Spec => []QualityDecays
  OBVIOUS
<1>1. Init => Timing /\ CarryChain
  BY EngineAssumption DEF Init, Timing, Idle, Active, EndOf, CarryChain, Publishing
<1>2. MainInv /\ Timing /\ CarryChain /\ [Next]_vars => Timing' /\ CarryChain'
  BY TimingStep, ChainStep
<1>3. MainInv /\ CarryChain => QualityDecays
  BY ChainDecays
<1> QED BY <1>1, <1>2, <1>3, MainInvariant, PTL DEF Spec
=============================================================================
