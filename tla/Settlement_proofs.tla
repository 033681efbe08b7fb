------------------------- MODULE Settlement_proofs ---------------------------
(***************************************************************************)
(* A confirmed settlement stays confirmed, with its price.  The answers    *)
(* are kept as history, so the invariant has to tie each of them to what   *)
(* the tables still hold: the row of the second is the one every answer    *)
(* was made from, and the sources stored around the boundary are enough to *)
(* confirm again what aggregating again has confirmed, as long as neither  *)
(* the pruner nor a retention policy has reached them.                     *)
(***************************************************************************)
EXTENDS Settlement, FiniteSetTheorems, WellFoundedInduction, TLAPS

\* The prices of answers are left open, because no step of the invariant needs them;
\* the last section closes them.
AnswerOf(Prices) ==
    [code : {0, 200, 400, 404, 425, 503}, status : {"none", "confirmed", "degraded", "stale"},
     price : Prices, count : Nat, symbol : Symbols \cup {NoRow}]
RequestOf(Prices) ==
    [step : {"new", "reaggregate", "done"}, row : SnapshotRows \cup {NoRow},
     before : SUBSET Requests, at : Nat, failed : BOOLEAN,
     answer : AnswerOf(Prices)]
Typed ==
    /\ now \in Nat /\ store \in BOOLEAN /\ faults \in Nat
    /\ row \in SnapshotRows \cup {NoRow} /\ raw \subseteq Trades
    /\ pruner \in [table : {"none", "raw", "snapshots"}, cutoff : Nat]
    /\ \E Prices : request \in [Requests -> RequestOf(Prices)]

\* What the pruner deletes is older than the retention of its table; it is idle when
\* it has detected the extension.
CutoffPast ==
    /\ pruner.table # "none" => ~Detected
    /\ pruner.table = "raw" =>
          RawRetention > 0 /\ (pruner.cutoff = 0 \/ pruner.cutoff + RawRetention <= now)
    /\ pruner.table = "snapshots" =>
          SnapshotRetention > 0 /\ (pruner.cutoff = 0 \/ pruner.cutoff + SnapshotRetention <= now)

\* The steps of a request: new, and nothing is known; a row that is not confirmed,
\* to be aggregated again; an answer.
Shape(a) ==
    /\ a.step = "new" => a = NotAsked
    /\ a.step = "reaggregate" => a.row \in SnapshotRows /\ a.row.degraded /\ a.answer = NoAnswer
    /\ a.row \in SnapshotRows /\ ~a.row.degraded =>
          a.answer = SettleFrom(a.row, "confirmed")
    /\ a.answer.code = 200 => a.step = "done" /\ a.row \in SnapshotRows
    /\ a.answer.status = "confirmed" => a.answer.code = 200
    /\ a.answer.status = "confirmed" => a.answer.count >= MinHealthy
    /\ a.answer.code = 200 => a.answer.count >= a.row.count

Shapes == \A r \in Requests :
    /\ Shape(request[r]) /\ request[r].at <= now
    /\ \A q \in request[r].before : request[q].step = "done"

\* The row of the second is the one every answer was made from.
RowKept == RowUnpruned(now) =>
    \A r \in Requests : request[r].row \in SnapshotRows => row = request[r].row

\* The sources that traded around the boundary, as far as they are stored.
Seen == {t.source : t \in InWindow}

\* What was confirmed by aggregating again could be confirmed now: the sources are
\* still there, and once no trade is outstanding, so are the trades.
Reconfirmable(a) ==
    /\ Cardinality(Seen) > a.row.count /\ Cardinality(Seen) >= MinHealthy
    /\ a.at > Boundary + Window + WriteDelay =>
          \E picked \in ClosestTrades : a.answer.price = Median(picked)
SourcesKept == RawUnpruned(now) =>
    \A r \in Requests :
        Confirmed(r) /\ request[r].row.degraded => Reconfirmable(request[r])

\* An answer a and one, b, that was given before it was asked for.
Unpruned(a) == RawUnpruned(a.at) /\ RowUnpruned(a.at)
HoldsAgain(b, a) ==
    /\ Unpruned(a) /\ b.answer.code = 200 /\ a.answer.code = 404 => a.failed
    /\ Unpruned(a) /\ b.answer.status = "confirmed" /\ a.step = "done" /\ a.row # NoRow /\ ~a.failed =>
          /\ a.answer.status = "confirmed"
          /\ ~b.row.degraded \/ (b.at > Boundary + Window + WriteDelay /\ Unambiguous) =>
                a.answer.price = b.answer.price
History == \A r \in Requests : \A q \in request[r].before : HoldsAgain(request[q], request[r])

IInv == Typed /\ CutoffPast /\ Shapes /\ RowKept /\ SourcesKept /\ History

-----------------------------------------------------------------------------
(* The trades around the boundary *)

LEMMA OffType == ASSUME Typed, NEW t \in Trades PROVE Off(t) \in Nat /\ t.source \in Sources
  BY SettlementAssumption DEF Off, Trade

LEMMA InWindowTrades == ASSUME Typed PROVE InWindow \subseteq Trades
  BY DEF InWindow, Typed

\* The sources are finitely many, and each is picked once.
LEMMA SeenFinite == ASSUME Typed PROVE IsFiniteSet(Seen) /\ Cardinality(Seen) \in Nat
<1>1. Seen \subseteq Sources
  BY InWindowTrades, OffType DEF Seen
<1>2. IsFiniteSet(Sources)
  BY SettlementAssumption
<1>3. IsFiniteSet(Seen)
  BY <1>1, <1>2, FS_Subset
<1>4. QED
  BY <1>3, FS_CardinalityType

LEMMA PickedPerSource ==
    ASSUME Typed, NEW picked \in ClosestTrades
    PROVE  IsFiniteSet(picked) /\ Cardinality(picked) = Cardinality(Seen)
<1>1. /\ picked \subseteq InWindow
      /\ \A t \in InWindow : \E p \in picked : p.source = t.source
      /\ \A p, q \in picked : p.source = q.source => p = q
  BY DEF ClosestTrades
<1> DEFINE f == [s \in Seen |-> CHOOSE p \in picked : p.source = s]
<1>2. \A s \in Seen : \E p \in picked : p.source = s
  BY <1>1 DEF Seen
<1>3. \A s \in Seen : f[s] \in picked /\ f[s].source = s
  BY <1>2
<1>4. \A p \in picked : p.source \in Seen
  BY <1>1 DEF Seen
<1>5. f \in [Seen -> picked]
  BY <1>3
<1> HIDE DEF f
<1>6. f \in Injection(Seen, picked)
  BY <1>3, <1>5 DEF Injection, IsInjective
<1>7. f \in Surjection(Seen, picked)
  <2>1. \A p \in picked : f[p.source] = p
    BY <1>1, <1>3, <1>4
  <2>2. QED
    BY <1>4, <1>5, <2>1 DEF Surjection
<1>8. ExistsBijection(Seen, picked)
  BY <1>6, <1>7 DEF ExistsBijection, Bijection
<1>9. QED
  BY <1>8, SeenFinite, FS_Bijection

\* When no source has two trades equally close, there is one way to pick.
LEMMA OnePick ==
    ASSUME Typed, Unambiguous, NEW p \in ClosestTrades, NEW q \in ClosestTrades
    PROVE  p = q
<1>1. ASSUME NEW a \in ClosestTrades, NEW b \in ClosestTrades, NEW x \in a PROVE x \in b
  <2>1. x \in InWindow /\ b \subseteq InWindow
    BY DEF ClosestTrades
  <2>2. PICK y \in b : y.source = x.source
    BY <2>1 DEF ClosestTrades
  <2>3. Off(x) <= Off(y)
    BY <2>1, <2>2 DEF ClosestTrades
  <2>4. Off(y) <= Off(x)
    BY <2>1, <2>2 DEF ClosestTrades
  <2>5. x \in Trades /\ y \in Trades /\ Off(x) <= Window
    BY <2>1, <2>2, InWindowTrades DEF InWindow
  <2>6. Off(x) = Off(y)
    BY <2>3, <2>4, <2>5, OffType
  <2>7. x = y
    BY <2>2, <2>5, <2>6 DEF Unambiguous
  <2>8. QED
    BY <2>2, <2>7
<1>2. QED
  BY <1>1

-----------------------------------------------------------------------------
(* The invariant holds initially and says what is claimed *)

LEMMA Natural ==
    /\ {Boundary, Grace, Window, MinHealthy, RawRetention, SnapshotRetention, WriteDelay,
        RawPolicy, SnapshotPolicy, MaxNow, MaxFaults} \subseteq Nat
    /\ NoRow \notin SnapshotRows
    /\ \A s \in SnapshotRows : /\ s.count \in Nat /\ s.symbol \in Symbols
                               /\ s.degraded \in BOOLEAN /\ s.stale \in BOOLEAN
                               /\ s.stale => s.degraded
                               /\ ~s.degraded => s.count >= MinHealthy
<1>1. \A s \in SnapshotRows : s.count \in Nat /\ s.symbol \in Symbols
                               /\ s.degraded \in BOOLEAN /\ s.stale \in BOOLEAN
  BY SettlementAssumption DEF Row
<1>2. NoRow \notin SnapshotRows
  BY SettlementAssumption
<1>3. {Boundary, Grace, Window, MinHealthy, RawRetention, SnapshotRetention, WriteDelay,
        RawPolicy, SnapshotPolicy, MaxNow, MaxFaults} \subseteq Nat
  BY SettlementAssumption
<1>4. ASSUME NEW s \in SnapshotRows
      PROVE  (s.stale => s.degraded) /\ (~s.degraded => s.count >= MinHealthy)
  BY <1>1, <1>3, SettlementAssumption
<1>5. QED
  BY <1>1, <1>2, <1>3, <1>4

LEMMA NoAnswerTyped ==
    /\ NoAnswer \in AnswerOf({0}) /\ NoAnswer.code = 0 /\ NoAnswer.status = "none"
    /\ \A c \in {400, 404, 425, 503} :
          Answered(c) \in AnswerOf({0}) /\ Answered(c).code = c /\ Answered(c).status = "none"
  BY DEF NoAnswer, AnswerOf, Answered

LEMMA NewTyped ==
    /\ NotAsked \in RequestOf({0}) /\ NotAsked.row = NoRow /\ NotAsked.failed = FALSE
    /\ NotAsked.answer = NoAnswer /\ NotAsked.step = "new"
  BY NoAnswerTyped DEF NotAsked, RequestOf

LEMMA InitInv == ASSUME Init PROVE IInv
<1>1. Typed
  <2>1. request \in [Requests -> RequestOf({0})]
    BY NoAnswerTyped DEF Init, NotAsked, RequestOf
  <2>2. QED
    BY <2>1 DEF Init, Idle, Typed
<1>2. \A r \in Requests : request[r] = NotAsked
  BY DEF Init
<1>3. CutoffPast
  BY DEF Init, Idle, CutoffPast
<1>4. Shapes
  BY <1>2, Natural DEF Init, Shapes, Shape, NotAsked, NoAnswer
<1>5. RowKept /\ SourcesKept
  BY <1>2, Natural DEF RowKept, SourcesKept, Confirmed, NotAsked, NoAnswer
<1>6. History
  BY <1>2 DEF History, NotAsked
<1>7. QED
  BY <1>1, <1>3, <1>4, <1>5, <1>6 DEF IInv

LEMMA InvConfirmed == ASSUME IInv PROVE ConfirmedHealthy
<1> SUFFICES ASSUME NEW r \in Requests
             PROVE  /\ Confirmed(r) => request[r].answer.count >= MinHealthy
                    /\ request[r].answer.code = 200 =>
                          request[r].answer.count >= request[r].row.count
  BY DEF ConfirmedHealthy
<1>1. Shape(request[r])
  BY DEF IInv, Shapes
<1>2. QED
  BY <1>1 DEF Shape, Confirmed

LEMMA InvHolds == ASSUME IInv PROVE ConfirmedHolds /\ PriceFinal
<1>1. ASSUME NEW q \in Requests, NEW r \in Requests, q \in request[r].before
      PROVE  HoldsAgain(request[q], request[r])
  BY <1>1 DEF IInv, History
<1>2. \A r \in Requests : BeforePruning(r) <=> Unpruned(request[r])
  BY DEF BeforePruning, Unpruned, RawUnpruned, RowUnpruned
<1>3. ConfirmedHolds
  BY <1>1, <1>2 DEF ConfirmedHolds, Later, Confirmed, HoldsAgain
<1>4. PriceFinal
  BY <1>1, <1>2 DEF PriceFinal, Later, Confirmed, HoldsAgain
<1>5. QED
  BY <1>3, <1>4

-----------------------------------------------------------------------------
(* Steps that answer nothing: the answers stay, and what they rest on *)

LEMMA TablesStep ==
    ASSUME IInv, UNCHANGED request, now' \in Nat, now <= now',
           Typed', CutoffPast', RowKept', SourcesKept'
    PROVE  IInv'
<1>1. Shapes'
  <2> SUFFICES ASSUME NEW r \in Requests
               PROVE  /\ Shape(request[r])
                      /\ request[r].at <= now'
                      /\ \A q \in request[r].before : request[q].step = "done"
    BY DEF Shapes, Shape
  <2>1. /\ Shape(request[r]) /\ request[r].at <= now
        /\ \A q \in request[r].before : request[q].step = "done"
    BY DEF IInv, Shapes
  <2>2. request[r].at \in Nat /\ now \in Nat
    BY DEF IInv, Typed, RequestOf
  <2>3. QED
    BY <2>1, <2>2
<1>2. History'
  BY DEF IInv, History, HoldsAgain, Unpruned, RawUnpruned, RowUnpruned, Unambiguous, Off
<1>3. QED
  BY <1>1, <1>2 DEF IInv

LEMMA ClockStep == ASSUME IInv, AdvanceClock PROVE IInv'
<1>1. /\ now \in Nat /\ now' = now + 1
      /\ UNCHANGED <<store, row, inserted, raw, request, pruner, faults>>
  BY DEF IInv, Typed, AdvanceClock, tables
<1>2. Typed' /\ CutoffPast'
  BY <1>1, Natural DEF IInv, Typed, CutoffPast
<1>3. RowUnpruned(now') => RowUnpruned(now)
  BY <1>1, Natural DEF RowUnpruned
<1>4. RawUnpruned(now') => RawUnpruned(now)
  BY <1>1, Natural DEF RawUnpruned
<1>5. RowKept'
  BY <1>1, <1>3 DEF IInv, RowKept, RowUnpruned
<1>6. ClosestTrades' = ClosestTrades /\ Seen' = Seen
  BY <1>1 DEF ClosestTrades, Seen, InWindow, Off
<1>7. SourcesKept'
  BY <1>1, <1>4, <1>6 DEF IInv, SourcesKept, Reconfirmable, Confirmed, RawUnpruned
<1>8. QED
  BY <1>1, <1>2, <1>5, <1>7, TablesStep

LEMMA StoreStep == ASSUME IInv, SetStore PROVE IInv'
<1>1. now \in Nat /\ UNCHANGED <<now, row, inserted, raw, request, pruner, faults>> /\ store' = TRUE
  BY DEF IInv, Typed, SetStore, tables
<1>2. Typed' /\ CutoffPast' /\ RowKept'
  BY <1>1 DEF IInv, Typed, CutoffPast, RowKept, RowUnpruned
<1>3. ClosestTrades' = ClosestTrades /\ Seen' = Seen
  BY <1>1 DEF ClosestTrades, Seen, InWindow, Off
<1>4. SourcesKept'
  BY <1>1, <1>3 DEF IInv, SourcesKept, Reconfirmable, Confirmed, RawUnpruned
<1>5. QED
  BY <1>1, <1>2, <1>4, TablesStep

\* The first snapshot of the second stays, so no answer was made from another one.
LEMMA SnapshotStep ==
    ASSUME IInv, NEW new \in SnapshotRows, InsertSnapshot(new)
    PROVE  IInv'
<1>1. /\ now \in Nat /\ UNCHANGED <<now, store, raw, request, pruner, faults>>
      /\ row' = FirstWins(new)
  BY DEF IInv, Typed, InsertSnapshot
<1>2. row' \in SnapshotRows /\ (row # NoRow => row' = row)
  BY <1>1 DEF IInv, Typed, FirstWins
<1>3. Typed' /\ CutoffPast'
  BY <1>1, <1>2 DEF IInv, Typed, CutoffPast
<1>4. RowKept'
  BY <1>1, <1>2, Natural DEF IInv, RowKept, RowUnpruned
<1>5. ClosestTrades' = ClosestTrades /\ Seen' = Seen
  BY <1>1 DEF ClosestTrades, Seen, InWindow, Off
<1>6. SourcesKept'
  BY <1>1, <1>5 DEF IInv, SourcesKept, Reconfirmable, Confirmed, RawUnpruned
<1>7. QED
  BY <1>1, <1>3, <1>4, <1>6, TablesStep

\* A trade adds a source or none; one of the window comes at most WriteDelay late.
LEMMA TradeStep ==
    ASSUME IInv, NEW t \in Trades, InsertTrade(t)
    PROVE  IInv'
<1>1. /\ now \in Nat /\ UNCHANGED <<now, store, row, request, pruner, faults>>
      /\ raw' = raw \cup {t} /\ now <= t.at + WriteDelay
  BY DEF IInv, Typed, InsertTrade
<1>2. Typed' /\ CutoffPast' /\ RowKept'
  BY <1>1 DEF IInv, Typed, CutoffPast, RowKept, RowUnpruned
<1>3. Seen \subseteq Seen'
  BY <1>1 DEF Seen, InWindow, Off
<1>4. Cardinality(Seen) <= Cardinality(Seen') /\ Cardinality(Seen) \in Nat /\ Cardinality(Seen') \in Nat
  <2>1. Typed /\ Typed'
    BY <1>2 DEF IInv
  <2>2. IsFiniteSet(Seen') /\ Cardinality(Seen') \in Nat
    <3>1. Seen' \subseteq Sources
      BY <2>1, SettlementAssumption DEF Typed, Seen, InWindow, Trade
    <3>2. IsFiniteSet(Sources)
      BY SettlementAssumption
    <3>3. IsFiniteSet(Seen')
      BY <3>1, <3>2, FS_Subset
    <3>4. QED
      BY <3>3, FS_CardinalityType
  <2>3. QED
    BY <1>3, <2>1, <2>2, SeenFinite, FS_Subset
<1>5. ASSUME now > Boundary + Window + WriteDelay PROVE ClosestTrades' = ClosestTrades
  <2>1. t.at \in Nat
    BY SettlementAssumption DEF Trade
  <2>2. ~(Off(t) <= Window)
    BY <1>1, <1>5, <2>1, Natural DEF Off
  <2>3. InWindow' = InWindow
    BY <1>1, <2>2 DEF InWindow, Off
  <2>4. QED
    BY <2>3 DEF ClosestTrades, Off
<1>6. SourcesKept'
  <2> SUFFICES ASSUME RawUnpruned(now'), NEW r \in Requests,
                      Confirmed(r)', request'[r].row.degraded
               PROVE  Reconfirmable(request[r])'
    BY DEF SourcesKept
  <2>1. Reconfirmable(request[r]) /\ Shape(request[r]) /\ request[r].at <= now
    BY <1>1 DEF IInv, SourcesKept, Shapes, Confirmed, RawUnpruned
  <2>2. request[r].row.count \in Nat /\ request[r].at \in Nat
    BY <1>1, <2>1, Natural DEF Shape, Confirmed, IInv, Typed, RequestOf
  <2>3. Cardinality(Seen') > request[r].row.count /\ Cardinality(Seen') >= MinHealthy
    BY <1>4, <2>1, <2>2, Natural DEF Reconfirmable
  <2>4. ASSUME request[r].at > Boundary + Window + WriteDelay
        PROVE  \E picked \in ClosestTrades' : request[r].answer.price = Median(picked)
    <3>1. now > Boundary + Window + WriteDelay
      BY <1>1, <2>1, <2>2, <2>4, Natural
    <3>2. QED
      BY <1>5, <2>1, <2>4, <3>1 DEF Reconfirmable
  <2>5. QED
    BY <1>1, <2>3, <2>4 DEF Reconfirmable
<1>7. QED
  BY <1>1, <1>2, <1>6, TablesStep

-----------------------------------------------------------------------------
(* The pruner *)

\* What a pass deletes is expired, and then nothing has to hold on to it.
LEMMA StartOfCutoff ==
    ASSUME Typed, NEW table \in {"none", "raw", "snapshots"}
    PROVE  LET p == StartOf(table)
           IN  /\ p \in [table : {"none", "raw", "snapshots"}, cutoff : Nat]
               /\ p.table = "raw" =>
                     RawRetention > 0 /\ (p.cutoff = 0 \/ p.cutoff + RawRetention <= now)
               /\ p.table = "snapshots" =>
                     SnapshotRetention > 0 /\ (p.cutoff = 0 \/ p.cutoff + SnapshotRetention <= now)
<1>1. now \in Nat /\ RawRetention \in Nat /\ SnapshotRetention \in Nat
  BY Natural DEF Typed
<1>2. \A age \in Nat : /\ Before(age) \in Nat
                       /\ Before(age) = 0 \/ Before(age) + age <= now
  BY <1>1 DEF Before
<1>3. QED
  BY <1>1, <1>2 DEF StartOf, PruneTable, Idle

LEMMA PruneAllStep == ASSUME IInv, PruneAll PROVE IInv'
<1>1. /\ now \in Nat /\ UNCHANGED <<now, store, row, inserted, raw, request, faults>>
      /\ pruner' = StartOf("raw") /\ Typed /\ ~Detected
  BY DEF IInv, Typed, PruneAll, tables
<1>2. Typed' /\ CutoffPast'
  BY <1>1, StartOfCutoff DEF Typed, CutoffPast
<1>3. RowKept'
  BY <1>1 DEF IInv, RowKept, RowUnpruned
<1>4. ClosestTrades' = ClosestTrades /\ Seen' = Seen
  BY <1>1 DEF ClosestTrades, Seen, InWindow, Off
<1>5. SourcesKept'
  BY <1>1, <1>4 DEF IInv, SourcesKept, Reconfirmable, Confirmed, RawUnpruned
<1>6. QED
  BY <1>1, <1>2, <1>3, <1>5, TablesStep

LEMMA PruneRawStep == ASSUME IInv, PruneRawBatch PROVE IInv'
<1>1. /\ now \in Nat /\ UNCHANGED <<now, store, row, inserted, request>>
      /\ raw' \subseteq raw /\ raw \ raw' \subseteq {t \in raw : Expired(t.at)}
      /\ pruner.table = "raw" /\ pruner' \in {pruner, After("raw")} /\ faults' \in Nat
      /\ Typed /\ CutoffPast /\ ~Detected
  BY Natural DEF IInv, Typed, PruneRawBatch, Fault, CutoffPast
<1>2. Typed' /\ CutoffPast'
  <2>1. After("raw") = StartOf("snapshots")
    BY DEF After
  <2>2. CASE pruner' = pruner
    BY <1>1, <2>2 DEF Typed, CutoffPast
  <2>3. CASE pruner' = StartOf("snapshots")
    BY <1>1, <2>3, StartOfCutoff DEF Typed, CutoffPast
  <2>4. QED
    BY <1>1, <2>1, <2>2, <2>3
<1>3. RowKept'
  BY <1>1 DEF IInv, RowKept, RowUnpruned
<1>4. ASSUME RawUnpruned(now) PROVE ClosestTrades' = ClosestTrades /\ Seen' = Seen
  <2>1. ASSUME NEW t \in raw, Off(t) <= Window PROVE t \in raw'
    <3>1. t.at \in Nat
      BY <1>1, SettlementAssumption DEF Typed, Trade
    <3>2. Boundary <= t.at + Window
      BY <2>1, <3>1, Natural DEF Off
    <3>3. ~Detected /\ RawRetention > 0 /\ (pruner.cutoff = 0 \/ pruner.cutoff + RawRetention <= now)
      BY <1>1 DEF CutoffPast
    <3>4. pruner.cutoff \in Nat
      BY <1>1 DEF Typed
    <3>5. ~(t.at < pruner.cutoff)
      BY <1>1, <1>4, <3>1, <3>2, <3>3, <3>4, Natural DEF RawUnpruned
    <3>6. QED
      BY <1>1, <3>5 DEF Expired
  <2>2. InWindow' = InWindow
    BY <1>1, <2>1 DEF InWindow, Off
  <2>3. QED
    BY <2>2 DEF ClosestTrades, Seen, Off
<1>5. SourcesKept'
  BY <1>1, <1>4 DEF IInv, SourcesKept, Reconfirmable, Confirmed, RawUnpruned
<1>6. QED
  BY <1>1, <1>2, <1>3, <1>5, TablesStep

LEMMA PruneSnapshotsStep == ASSUME IInv, PruneSnapshotsBatch PROVE IInv'
<1>1. /\ now \in Nat /\ UNCHANGED <<now, store, raw, request>> /\ pruner' = Idle
      /\ row' \in {row, NoRow} /\ (row' # row => Expired(Boundary)) /\ faults' \in Nat
      /\ pruner.table = "snapshots" /\ Typed /\ CutoffPast
  BY Natural DEF IInv, Typed, PruneSnapshotsBatch, Fault
<1>2. Typed' /\ CutoffPast'
  BY <1>1 DEF Typed, CutoffPast, Idle
<1>3. ASSUME RowUnpruned(now) PROVE row' = row
  <2>1. ~Detected /\ SnapshotRetention > 0
        /\ (pruner.cutoff = 0 \/ pruner.cutoff + SnapshotRetention <= now)
    BY <1>1 DEF CutoffPast
  <2>2. pruner.cutoff \in Nat
    BY <1>1 DEF Typed
  <2>3. ~(Boundary < pruner.cutoff)
    BY <1>1, <1>3, <2>1, <2>2, Natural DEF RowUnpruned
  <2>4. QED
    BY <1>1, <2>3 DEF Expired
<1>4. RowKept'
  BY <1>1, <1>3 DEF IInv, RowKept, RowUnpruned
<1>5. ClosestTrades' = ClosestTrades /\ Seen' = Seen
  BY <1>1 DEF ClosestTrades, Seen, InWindow, Off
<1>6. SourcesKept'
  BY <1>1, <1>5 DEF IInv, SourcesKept, Reconfirmable, Confirmed, RawUnpruned
<1>7. QED
  BY <1>1, <1>2, <1>4, <1>6, TablesStep

-----------------------------------------------------------------------------
(* The retention policies *)

\* A chunk ends after each of its rows.
LEMMA ChunkEndAfter ==
    ASSUME NEW at \in Nat, NEW chunk \in Nat \ {0}
    PROVE  ChunkEnd(at, chunk) \in Nat /\ at < ChunkEnd(at, chunk)
<1>1. at \div chunk \in Nat /\ at < (at \div chunk + 1) * chunk
  OBVIOUS
<1>2. (at \div chunk + 1) * chunk \in Nat
  BY <1>1
<1>3. QED
  BY <1>1, <1>2 DEF ChunkEnd

LEMMA DropRawStep == ASSUME IInv, DropRawChunks PROVE IInv'
<1>1. /\ now \in Nat /\ UNCHANGED <<now, store, row, inserted, request, pruner, faults>>
      /\ raw' = {t \in raw : ChunkEnd(t.at, RawChunk) + RawPolicy > now}
      /\ TimescaleDB /\ Typed /\ CutoffPast
  BY DEF IInv, Typed, DropRawChunks
<1>2. Typed' /\ CutoffPast' /\ RowKept'
  BY <1>1 DEF IInv, Typed, CutoffPast, RowKept, RowUnpruned
<1>3. ASSUME RawUnpruned(now) PROVE ClosestTrades' = ClosestTrades /\ Seen' = Seen
  <2>1. ASSUME NEW t \in raw, Off(t) <= Window PROVE t \in raw'
    <3>1. t.at \in Nat
      BY <1>1, SettlementAssumption DEF Typed, Trade
    <3>2. Boundary <= t.at + Window
      BY <2>1, <3>1, Natural DEF Off
    <3>3. now + Window <= Boundary + RawPolicy
      BY <1>1, <1>3 DEF RawUnpruned
    <3>4. ChunkEnd(t.at, RawChunk) \in Nat /\ t.at < ChunkEnd(t.at, RawChunk)
      BY <3>1, ChunkEndAfter, SettlementAssumption
    <3>5. ChunkEnd(t.at, RawChunk) + RawPolicy > now
      <4> DEFINE end == ChunkEnd(t.at, RawChunk)
      <4> HIDE DEF end
      <4>1. end \in Nat /\ t.at < end
        BY <3>4 DEF end
      <4>2. end + RawPolicy > now
        BY <1>1, <3>1, <3>2, <3>3, <4>1, Natural
      <4>3. QED
        BY <4>2 DEF end
    <3>6. QED
      BY <1>1, <3>5
  <2>2. InWindow' = InWindow
    BY <1>1, <2>1 DEF InWindow, Off
  <2>3. QED
    BY <2>2 DEF ClosestTrades, Seen, Off
<1>4. SourcesKept'
  BY <1>1, <1>3 DEF IInv, SourcesKept, Reconfirmable, Confirmed, RawUnpruned
<1>5. QED
  BY <1>1, <1>2, <1>4, TablesStep

LEMMA DropSnapshotStep == ASSUME IInv, DropSnapshotChunks PROVE IInv'
<1>1. /\ now \in Nat /\ UNCHANGED <<now, store, raw, request, pruner, faults>>
      /\ row' = NoRow /\ ChunkEnd(Boundary, SnapshotChunk) + SnapshotPolicy <= now
      /\ TimescaleDB /\ Typed /\ CutoffPast
  BY DEF IInv, Typed, DropSnapshotChunks
<1>2. Typed' /\ CutoffPast'
  BY <1>1 DEF Typed, CutoffPast
<1>3. ~RowUnpruned(now)
  <2>1. ChunkEnd(Boundary, SnapshotChunk) \in Nat /\ Boundary < ChunkEnd(Boundary, SnapshotChunk)
    BY Natural, ChunkEndAfter, SettlementAssumption
  <2> DEFINE end == ChunkEnd(Boundary, SnapshotChunk)
  <2> HIDE DEF end
  <2>2. end \in Nat /\ Boundary < end /\ end + SnapshotPolicy <= now
    BY <1>1, <2>1 DEF end
  <2>3. QED
    BY <1>1, <2>2, Natural DEF RowUnpruned
<1>4. RowKept'
  BY <1>1, <1>3 DEF RowKept, RowUnpruned
<1>5. ClosestTrades' = ClosestTrades /\ Seen' = Seen
  BY <1>1 DEF ClosestTrades, Seen, InWindow, Off
<1>6. SourcesKept'
  BY <1>1, <1>5 DEF IInv, SourcesKept, Reconfirmable, Confirmed, RawUnpruned
<1>7. QED
  BY <1>1, <1>2, <1>4, <1>6, TablesStep

-----------------------------------------------------------------------------
(* Requests *)

\* A request r moves on to a, which is as it should be by itself and against the
\* answers given before.
LEMMA RequestStep ==
    ASSUME IInv, NEW r \in Requests, NEW a, NEW Prices,
           request[r].step # "done", request' = [request EXCEPT ![r] = a],
           UNCHANGED <<now, store, tables, pruner>>, faults' \in Nat,
           a \in RequestOf(Prices), Shape(a), a.at <= now,
           \A q \in a.before : request[q].step = "done",
           a.row # NoRow => a.row \in SnapshotRows /\ (RowUnpruned(now) => row = a.row),
           RawUnpruned(now) /\ a.answer.status = "confirmed" /\ a.row.degraded => Reconfirmable(a),
           \A q \in a.before : HoldsAgain(request[q], a)
    PROVE  IInv'
<1>1. UNCHANGED <<now, store, row, inserted, raw, pruner>>
  BY DEF tables
<1>2. PICK Old : request \in [Requests -> RequestOf(Old)]
  BY DEF IInv, Typed
<1>3. request'[r] = a /\ \A q \in Requests \ {r} : request'[q] = request[q]
  BY <1>2
<1>4. Typed'
  <2>1. RequestOf(Old) \subseteq RequestOf(Old \cup Prices) /\ RequestOf(Prices) \subseteq RequestOf(Old \cup Prices)
    BY DEF RequestOf, AnswerOf
  <2>2. request' \in [Requests -> RequestOf(Old \cup Prices)]
    BY <1>2, <2>1
  <2>3. (\E P : request \in [Requests -> RequestOf(P)])'
    BY <2>2, Zenon
  <2>4. QED
    BY <1>1, <2>3 DEF IInv, Typed
<1>5. CutoffPast'
  BY <1>1 DEF IInv, CutoffPast
<1>6. \A p \in Requests : \A q \in request'[p].before :
         /\ q # r /\ q \in Requests /\ request'[q] = request[q]
         /\ p # r => q \in request[p].before
  <2> SUFFICES ASSUME NEW p \in Requests, NEW q \in request'[p].before
               PROVE  q # r /\ q \in Requests /\ request'[q] = request[q]
                      /\ (p # r => q \in request[p].before)
    OBVIOUS
  <2>1. request[p].before \subseteq Requests /\ a.before \subseteq Requests
    BY <1>2 DEF RequestOf
  <2>2. request[q].step = "done"
    BY <1>3 DEF IInv, Shapes
  <2>3. QED
    BY <1>3, <2>1, <2>2
<1>7. Shapes'
  <2> SUFFICES ASSUME NEW p \in Requests
               PROVE  /\ Shape(request'[p]) /\ request'[p].at <= now
                      /\ \A q \in request'[p].before : request'[q].step = "done"
    BY <1>1 DEF Shapes, Shape
  <2>1. CASE p = r
    BY <1>3, <1>6, <2>1
  <2>2. CASE p # r
    BY <1>3, <1>6, <2>2 DEF IInv, Shapes
  <2>3. QED
    BY <2>1, <2>2
<1>8. RowKept'
  BY <1>1, <1>3, Natural DEF IInv, RowKept, RowUnpruned
<1>9. SourcesKept'
  <2>1. ClosestTrades' = ClosestTrades /\ Seen' = Seen
    BY <1>1 DEF ClosestTrades, Seen, InWindow, Off
  <2> SUFFICES ASSUME RawUnpruned(now), NEW p \in Requests,
                      request'[p].answer.status = "confirmed", request'[p].row.degraded
               PROVE  Reconfirmable(request'[p])
    BY <1>1, <2>1 DEF SourcesKept, Confirmed, RawUnpruned, Reconfirmable
  <2>2. CASE p = r
    BY <1>3, <2>2
  <2>3. CASE p # r
    BY <1>3, <2>3 DEF IInv, SourcesKept, Confirmed
  <2>4. QED
    BY <2>2, <2>3
<1>10. History'
  <2> SUFFICES ASSUME NEW p \in Requests, NEW q \in request'[p].before
               PROVE  HoldsAgain(request'[q], request'[p])
    BY DEF History, HoldsAgain, Unpruned, RawUnpruned, RowUnpruned, Unambiguous, Off
  <2>1. CASE p = r
    BY <1>3, <1>6, <2>1
  <2>2. CASE p # r
    BY <1>3, <1>6, <2>2 DEF IInv, History
  <2>3. QED
    BY <2>1, <2>2
<1>11. QED
  BY <1>4, <1>5, <1>7, <1>8, <1>9, <1>10 DEF IInv

LEMMA AskStep ==
    ASSUME IInv, NEW r \in Requests, Ask(r, Boundary)
    PROVE  IInv'
<1> DEFINE code == EarlyCode(Boundary)
           a == [NotAsked EXCEPT !.step = "done", !.before = AnsweredBefore,
                                 !.answer = Answered(code)]
<1>1. code \in {400, 425, 503}
  BY DEF Ask, EarlyCode
<1>2. request[r] = NotAsked
  BY DEF IInv, Shapes, Shape, Ask
<1>3. request' = [request EXCEPT ![r] = a] /\ UNCHANGED <<now, store, tables, pruner, faults>>
  BY <1>2 DEF Ask
<1>4. /\ a.step = "done" /\ a.row = NoRow /\ a.before = AnsweredBefore /\ a.at = 0
      /\ a.failed = FALSE /\ a.answer.code = code /\ a.answer.status = "none"
  BY DEF NotAsked, Answered, NoAnswer
<1>5. a \in RequestOf({0})
  <2>1. Answered(code) \in AnswerOf({0}) /\ AnsweredBefore \subseteq Requests
    BY <1>1, NoAnswerTyped DEF AnsweredBefore
  <2> HIDE DEF code
  <2>2. QED
    BY <2>1, NewTyped DEF RequestOf
<1> HIDE DEF code, a
<1>6. Shape(a)
  BY <1>1, <1>4, Natural DEF Shape
<1>7. \A q \in a.before : request[q].step = "done" /\ HoldsAgain(request[q], a)
  BY <1>1, <1>4 DEF AnsweredBefore, HoldsAgain
<1>8. request[r].step # "done" /\ faults' \in Nat /\ a.at <= now
  BY <1>2, <1>3, <1>4 DEF NotAsked, IInv, Typed
<1>9. QED
  BY <1>3, <1>4, <1>5, <1>6, <1>7, <1>8, RequestStep

\* The row that is read is the row every earlier answer was made from.
LEMMA EarlierRow ==
    ASSUME IInv, RowUnpruned(now), NEW q \in Requests,
           request[q].answer.code = 200 \/ request[q].answer.status = "confirmed"
    PROVE  row \in SnapshotRows /\ request[q].row = row
<1>1. request[q].row \in SnapshotRows
  BY DEF IInv, Shapes, Shape
<1>2. QED
  BY <1>1 DEF IInv, RowKept

LEMMA QueryStep ==
    ASSUME IInv, NEW r \in Requests, QuerySnapshotAt(r, Boundary)
    PROVE  IInv'
<1> DEFINE asked == [request[r] EXCEPT !.step = "done", !.before = AnsweredBefore, !.at = now]
<1>1. /\ request[r] = NotAsked /\ UNCHANGED <<now, store, tables, pruner>>
      /\ now \in Nat /\ faults' \in Nat /\ row \in SnapshotRows \cup {NoRow}
  BY Natural DEF IInv, Typed, Shapes, Shape, QuerySnapshotAt, Fault
<1>2. request[r].step # "done"
  BY <1>1 DEF NotAsked
<1>3. AnsweredBefore \subseteq Requests /\ \A q \in AnsweredBefore : request[q].step = "done"
  BY DEF AnsweredBefore
<1>4. /\ asked \in RequestOf({0}) /\ asked.step = "done" /\ asked.row = NoRow
      /\ asked.before = AnsweredBefore /\ asked.at = now /\ asked.failed = FALSE
      /\ asked.answer = NoAnswer
  BY <1>1, <1>3, NewTyped DEF RequestOf
<1>5. ASSUME NEW a, NEW Prices, a \in RequestOf(Prices), request' = [request EXCEPT ![r] = a],
             a.before = AnsweredBefore, a.at = now, Shape(a),
             \/ a.row = NoRow
             \/ row \in SnapshotRows /\ a.row = row /\ (row.degraded => a.answer.status # "confirmed"),
             \A q \in AnsweredBefore : HoldsAgain(request[q], a)
      PROVE  IInv'
  <2>1. a.row # NoRow => a.row \in SnapshotRows /\ (RowUnpruned(now) => row = a.row)
    BY <1>5
  <2>2. RawUnpruned(now) /\ a.answer.status = "confirmed" /\ a.row.degraded => Reconfirmable(a)
    <3>1. a.row = NoRow => a.answer.status # "confirmed"
      BY <1>5, Natural DEF Shape
    <3>2. QED
      BY <1>5, <3>1
  <2>3. a.at <= now
    BY <1>1, <1>5
  <2>4. QED
    BY <1>1, <1>2, <1>3, <1>5, <2>1, <2>2, <2>3, RequestStep
<1> HIDE DEF asked
<1>6. ASSUME NEW failed \in BOOLEAN, failed \/ row = NoRow,
             request' = [request EXCEPT ![r] =
                [[asked EXCEPT !.failed = failed] EXCEPT !.answer = Answered(404)]]
      PROVE  IInv'
  <2> DEFINE b == [asked EXCEPT !.failed = failed]
             a == [b EXCEPT !.answer = Answered(404)]
  <2>1. /\ b \in RequestOf({0}) /\ b.step = "done" /\ b.row = NoRow
        /\ b.before = AnsweredBefore /\ b.at = now /\ b.failed = failed
    BY <1>4, <1>6 DEF RequestOf
  <2>2. /\ a \in RequestOf({0}) /\ a.step = "done" /\ a.row = NoRow
        /\ a.before = AnsweredBefore /\ a.at = now /\ a.failed = failed
        /\ a.answer = Answered(404)
    <3>1. Answered(404) \in AnswerOf({0})
      BY NoAnswerTyped
    <3> HIDE DEF b
    <3>2. QED
      BY <2>1, <3>1 DEF RequestOf
  <2>3. request' = [request EXCEPT ![r] = a]
    BY <1>6
  <2> HIDE DEF a
  <2>4. a.answer.code = 404 /\ a.answer.status = "none"
    BY <2>2 DEF Answered, NoAnswer
  <2>5. Shape(a)
    BY <2>2, <2>4, Natural DEF Shape
  <2>6. \A q \in AnsweredBefore : HoldsAgain(request[q], a)
    BY <1>1, <1>3, <1>6, <2>2, <2>4, EarlierRow, Natural DEF HoldsAgain, Unpruned
  <2>7. QED
    BY <1>5, <2>2, <2>3, <2>5, <2>6
<1>7. ASSUME row \in SnapshotRows, ~row.degraded,
             request' = [request EXCEPT ![r] =
                [asked EXCEPT !.row = row, !.answer = SettleFrom(row, "confirmed")]]
      PROVE  IInv'
  <2> DEFINE a == [asked EXCEPT !.row = row, !.answer = SettleFrom(row, "confirmed")]
  <2>1. /\ a.step = "done" /\ a.row = row /\ a.before = AnsweredBefore /\ a.at = now
        /\ a.failed = FALSE /\ a.answer = SettleFrom(row, "confirmed")
    BY <1>4 DEF RequestOf
  <2>2. a \in RequestOf({row.price})
    <3>1. row.count \in Nat /\ row.symbol \in Symbols
      BY <1>7, Natural
    <3>2. SettleFrom(row, "confirmed") \in
             AnswerOf({row.price})
      BY <3>1 DEF SettleFrom, AnswerOf
    <3>3. QED
      BY <1>4, <1>7, <3>2 DEF RequestOf
  <2>3. request' = [request EXCEPT ![r] = a]
    BY <1>7
  <2> HIDE DEF a
  <2>4. Shape(a)
    BY <1>7, <2>1, Natural DEF Shape, SettleFrom
  <2>5. ASSUME NEW q \in AnsweredBefore PROVE HoldsAgain(request[q], a)
    <3>1. ASSUME Unpruned(a), request[q].answer.status = "confirmed"
          PROVE  request[q].answer = SettleFrom(row, "confirmed")
      <4>1. request[q].row = row /\ q \in Requests
        BY <1>1, <1>3, <2>1, <3>1, EarlierRow DEF Unpruned
      <4>2. QED
        BY <1>7, <4>1 DEF IInv, Shapes, Shape
    <3>2. a.answer.status = "confirmed" /\ a.answer.code = 200
      BY <2>1 DEF SettleFrom
    <3>3. QED
      BY <2>1, <3>1, <3>2 DEF HoldsAgain
  <2>6. QED
    BY <1>5, <1>7, <2>1, <2>2, <2>3, <2>4, <2>5
<1>8. ASSUME row \in SnapshotRows, row.degraded,
             request' = [request EXCEPT ![r] = [asked EXCEPT !.row = row, !.step = "reaggregate"]]
      PROVE  IInv'
  <2> DEFINE a == [asked EXCEPT !.row = row, !.step = "reaggregate"]
  <2>1. /\ a \in RequestOf({0}) /\ a.step = "reaggregate" /\ a.row = row
        /\ a.before = AnsweredBefore /\ a.at = now /\ a.answer = NoAnswer
    BY <1>4, <1>8 DEF RequestOf
  <2>2. request' = [request EXCEPT ![r] = a]
    BY <1>8
  <2> HIDE DEF a
  <2>3. a.answer.code = 0 /\ a.answer.status = "none"
    BY <2>1 DEF NoAnswer
  <2>4. Shape(a)
    BY <1>8, <2>1, <2>3, Natural DEF Shape
  <2>5. \A q \in AnsweredBefore : HoldsAgain(request[q], a)
    BY <2>1, <2>3 DEF HoldsAgain
  <2>6. QED
    BY <1>5, <1>8, <2>1, <2>2, <2>3, <2>4, <2>5
<1>9. QED
  <2>1. row = NoRow \/ row \in SnapshotRows
    BY <1>1
  <2>2. row \in SnapshotRows => (row.stale => row.degraded)
    BY Natural
  <2>3. [asked EXCEPT !.failed = TRUE, !.answer = Answered(404)] =
           [[asked EXCEPT !.failed = TRUE] EXCEPT !.answer = Answered(404)]
    OBVIOUS
  <2>4. asked = [asked EXCEPT !.failed = FALSE]
    BY <1>4 DEF RequestOf
  <2>5. \/ request' = [request EXCEPT ![r] = [asked EXCEPT !.failed = TRUE, !.answer = Answered(404)]]
        \/ row = NoRow /\ request' = [request EXCEPT ![r] = [asked EXCEPT !.answer = Answered(404)]]
        \/ row # NoRow /\ ~row.stale /\ ~row.degraded /\ request' = [request EXCEPT ![r] =
              [asked EXCEPT !.row = row, !.answer = SettleFrom(row, "confirmed")]]
        \/ row # NoRow /\ ~(~row.stale /\ ~row.degraded) /\ request' = [request EXCEPT ![r] =
              [asked EXCEPT !.row = row, !.step = "reaggregate"]]
    BY DEF QuerySnapshotAt, asked
  <2>6. CASE request' = [request EXCEPT ![r] = [asked EXCEPT !.failed = TRUE, !.answer = Answered(404)]]
    BY <1>6, <2>3, <2>6
  <2>7. CASE row = NoRow /\ request' = [request EXCEPT ![r] = [asked EXCEPT !.answer = Answered(404)]]
    BY <1>6, <2>4, <2>7
  <2>8. QED
    BY <1>7, <1>8, <2>1, <2>2, <2>5, <2>6, <2>7

LEMMA ReaggregateStep ==
    ASSUME IInv, NEW r \in Requests, TryReaggregate(r)
    PROVE  IInv'
<1> DEFINE snap == request[r].row
<1>1. /\ request[r].step = "reaggregate" /\ UNCHANGED <<now, store, tables, pruner>>
      /\ now \in Nat /\ faults' \in Nat /\ Typed
      /\ snap \in SnapshotRows /\ snap.degraded /\ request[r].answer = NoAnswer
  <2>1. request[r].step = "reaggregate" /\ UNCHANGED <<now, store, tables, pruner>>
    BY DEF TryReaggregate
  <2>2. now \in Nat /\ faults' \in Nat /\ Typed
    <3>1. faults' = faults \/ faults' = faults + 1
      BY DEF TryReaggregate, Fault
    <3>2. faults \in Nat /\ now \in Nat /\ Typed
      BY DEF IInv, Typed
    <3>3. QED
      BY <3>1, <3>2
  <2>3. Shape(request[r])
    BY DEF IInv, Shapes
  <2>4. QED
    BY <2>1, <2>2, <2>3 DEF Shape
<1>2. PICK Old : request \in [Requests -> RequestOf(Old)]
  BY <1>1 DEF Typed
<1>3. /\ request[r].before \subseteq Requests /\ request[r].failed \in BOOLEAN
      /\ \A q \in request[r].before : request[q].step = "done"
  BY <1>2 DEF RequestOf, IInv, Shapes
<1>4. snap.count \in Nat /\ snap.symbol \in Symbols
  BY <1>1, Natural
<1>5. RowUnpruned(now) => row = snap
  BY <1>1 DEF IInv, RowKept
<1> HIDE DEF snap
<1>6. ASSUME NEW a, NEW Prices, a \in RequestOf(Prices), request' = [request EXCEPT ![r] = a],
             a.before = request[r].before, a.at = now, a.row = snap, Shape(a),
             a.answer.status = "confirmed" => Reconfirmable(a) \/ ~RawUnpruned(now),
             \A q \in request[r].before : HoldsAgain(request[q], a)
      PROVE  IInv'
  <2>1. a.row # NoRow => a.row \in SnapshotRows /\ (RowUnpruned(now) => row = a.row)
    BY <1>1, <1>5, <1>6
  <2>2. a.at <= now /\ request[r].step # "done"
    BY <1>1, <1>6
  <2>3. QED
    BY <1>1, <1>3, <1>6, <2>1, <2>2, RequestStep
<1>7. ASSUME NEW picked \in ClosestTrades,
             request' = [request EXCEPT ![r] =
                [@ EXCEPT !.step = "done", !.at = now, !.answer = Reaggregated(snap, picked)]]
      PROVE  IInv'
  <2> DEFINE old == request[r]
             answer == Reaggregated(snap, picked)
             a == [old EXCEPT !.step = "done", !.at = now, !.answer = answer]
  <2>1. Cardinality(picked) \in Nat /\ Cardinality(picked) = Cardinality(Seen)
    BY <1>1, PickedPerSource, SeenFinite
  <2>2. /\ answer \in [code : {200}, status : {"confirmed", "degraded", "stale"},
                       price : {answer.price}, count : Nat, symbol : Symbols]
        /\ answer.count >= snap.count
        /\ answer.status = "confirmed" <=>
              Cardinality(Seen) > snap.count /\ Cardinality(Seen) >= MinHealthy
        /\ answer.status = "confirmed" =>
              answer.price = Median(picked) /\ answer.count >= MinHealthy
    BY <1>4, <2>1, Natural DEF Reaggregated, Original, SettleFrom, Healthy
  <2> HIDE DEF answer
  <2>3. /\ a.step = "done" /\ a.row = snap /\ a.before = request[r].before /\ a.at = now
        /\ a.answer = answer
    <3>1. old \in RequestOf(Old) /\ old.row = snap /\ old.before = request[r].before
      BY <1>2 DEF snap
    <3> HIDE DEF old
    <3>2. QED
      BY <3>1 DEF RequestOf
  <2>4. a \in RequestOf({answer.price})
    <3>1. answer \in AnswerOf({answer.price})
      BY <2>2 DEF AnswerOf
    <3>2. old \in RequestOf(Old)
      BY <1>2
    <3> HIDE DEF old
    <3>3. QED
      BY <1>1, <3>1, <3>2 DEF RequestOf
  <2>5. request' = [request EXCEPT ![r] = a]
    BY <1>7 DEF answer
  <2> HIDE DEF a
  <2>6. Shape(a)
    BY <1>1, <2>2, <2>3 DEF Shape
  <2>7. a.answer.status = "confirmed" => Reconfirmable(a)
    BY <2>2, <2>3 DEF Reconfirmable
  <2>8. ASSUME NEW q \in request[r].before PROVE HoldsAgain(request[q], a)
    <3> SUFFICES ASSUME Unpruned(a), request[q].answer.status = "confirmed"
                 PROVE  /\ answer.status = "confirmed"
                        /\ ~request[q].row.degraded
                              \/ (request[q].at > Boundary + Window + WriteDelay /\ Unambiguous) =>
                              answer.price = request[q].answer.price
      BY <2>2, <2>3 DEF HoldsAgain
    <3>1. request[q].row = snap /\ q \in Requests
      BY <1>3, <1>5, <2>3, EarlierRow DEF Unpruned
    <3>2. Reconfirmable(request[q])
      BY <1>1, <2>3, <3>1 DEF IInv, SourcesKept, Confirmed, Unpruned
    <3>3. answer.status = "confirmed"
      BY <2>2, <3>1, <3>2 DEF Reconfirmable
    <3>4. ASSUME request[q].at > Boundary + Window + WriteDelay, Unambiguous
          PROVE  answer.price = request[q].answer.price
      <4>1. PICK seen \in ClosestTrades : request[q].answer.price = Median(seen)
        BY <3>2, <3>4 DEF Reconfirmable
      <4>2. seen = picked
        BY <1>1, <3>4, OnePick
      <4>3. QED
        BY <2>2, <3>3, <4>1, <4>2
    <3>5. QED
      BY <1>1, <3>1, <3>3, <3>4
  <2>9. QED
    BY <1>6, <2>3, <2>4, <2>5, <2>6, <2>7, <2>8
<1>8. ASSUME request' = [request EXCEPT ![r] = [@ EXCEPT !.step = "done", !.at = now,
                !.failed = TRUE, !.answer = Original(snap)]]
      PROVE  IInv'
  <2> DEFINE old == request[r]
             a == [old EXCEPT !.step = "done", !.at = now, !.failed = TRUE,
                                     !.answer = Original(snap)]
  <2>1. /\ Original(snap) \in [code : {200}, status : {"degraded", "stale"},
                               price : {snap.price}, count : {snap.count}, symbol : Symbols]
    BY <1>4 DEF Original, SettleFrom
  <2>2. /\ a.step = "done" /\ a.row = snap /\ a.before = request[r].before /\ a.at = now
        /\ a.answer = Original(snap) /\ a.failed
    <3>1. old \in RequestOf(Old) /\ old.row = snap /\ old.before = request[r].before
      BY <1>2 DEF snap
    <3> HIDE DEF old
    <3>2. QED
      BY <3>1 DEF RequestOf
  <2>3. a \in RequestOf({snap.price})
    <3>1. Original(snap) \in AnswerOf({snap.price})
      BY <1>4, <2>1 DEF AnswerOf
    <3>2. old \in RequestOf(Old)
      BY <1>2
    <3> HIDE DEF old
    <3>3. QED
      BY <1>1, <3>1, <3>2 DEF RequestOf
  <2>4. request' = [request EXCEPT ![r] = a]
    BY <1>8
  <2> HIDE DEF a
  <2>5. Shape(a)
    BY <1>1, <1>4, <2>1, <2>2 DEF Shape
  <2>6. \A q \in request[r].before : HoldsAgain(request[q], a)
    BY <2>1, <2>2 DEF HoldsAgain
  <2>7. a.answer.status # "confirmed"
    BY <2>1, <2>2
  <2>8. QED
    BY <1>6, <2>2, <2>3, <2>4, <2>5, <2>6, <2>7
<1>9. QED
  BY <1>7, <1>8 DEF TryReaggregate, snap

-----------------------------------------------------------------------------

LEMMA StepInv == IInv /\ [Next]_vars => IInv'
<1> SUFFICES ASSUME IInv, [Next]_vars PROVE IInv'
  OBVIOUS
<1>1. CASE UNCHANGED vars
  <2>1. UNCHANGED <<now, store, row, inserted, raw, request, pruner, faults>>
    BY <1>1 DEF vars, tables
  <2>2. Typed' /\ CutoffPast' /\ RowKept' /\ now \in Nat
    BY <2>1 DEF IInv, Typed, CutoffPast, RowKept, RowUnpruned
  <2>3. ClosestTrades' = ClosestTrades /\ Seen' = Seen
    BY <2>1 DEF ClosestTrades, Seen, InWindow, Off
  <2>4. SourcesKept'
    BY <2>1, <2>3 DEF IInv, SourcesKept, Reconfirmable, Confirmed, RawUnpruned
  <2>5. QED
    BY <2>1, <2>2, <2>4, TablesStep
<1>2. CASE AdvanceClock
  BY <1>2, ClockStep
<1>3. CASE SetStore
  BY <1>3, StoreStep
<1>4. ASSUME NEW s \in SnapshotRows, InsertSnapshot(s) PROVE IInv'
  BY <1>4, SnapshotStep
<1>5. ASSUME NEW t \in Trades, InsertTrade(t) PROVE IInv'
  BY <1>5, TradeStep
<1>6. ASSUME NEW r \in Requests, Ask(r, Boundary) PROVE IInv'
  BY <1>6, AskStep
<1>7. ASSUME NEW r \in Requests, QuerySnapshotAt(r, Boundary) PROVE IInv'
  BY <1>7, QueryStep
<1>8. ASSUME NEW r \in Requests, TryReaggregate(r) PROVE IInv'
  BY <1>8, ReaggregateStep
<1>9. CASE Prune
  BY <1>9, PruneAllStep, PruneRawStep, PruneSnapshotsStep DEF Prune
<1>10. CASE DropRawChunks \/ DropSnapshotChunks
  BY <1>10, DropRawStep, DropSnapshotStep
<1>11. QED
  BY <1>1, <1>2, <1>3, <1>4, <1>5, <1>6, <1>7, <1>8, <1>9, <1>10 DEF Next

\* The inductive invariant: as long as neither the pruner nor a policy has reached
\* them, the row of the second is the one every answer was made from, and for every
\* answer confirmed by aggregating again there are sources enough to do so now.
THEOREM SettlementInvariant == Spec => []IInv
<1>1. Init => IInv
  BY InitInv
<1>2. QED
  BY <1>1, StepInv, PTL DEF Spec

\* A settlement is answered as confirmed only with enough sources and never with
\* fewer than the stored snapshot has (handleSettlement, tryReaggregate), for any
\* trades, delays and retentions.
THEOREM SettlementConfirmedHealthy == Spec => []ConfirmedHealthy
  BY SettlementInvariant, InvConfirmed, PTL

\* A settlement that was confirmed is confirmed again, and one that was found is
\* found again, until the pruner or a retention policy of TimescaleDB reaches it, for
\* any number of requests, whether or not the extension is there and is detected.
THEOREM SettlementConfirmedHolds == Spec => []ConfirmedHolds
  BY SettlementInvariant, InvHolds, PTL

\* The price of a settlement confirmed from its row, or after the last trade of the
\* window, is the price of every later answer, until the pruner or a retention policy
\* of TimescaleDB reaches it.
THEOREM SettlementPriceFinal == Spec => []PriceFinal
  BY SettlementInvariant, InvHolds, PTL

-----------------------------------------------------------------------------
(* The types: a median exists, since the trades picked are finitely many *)

LEMMA SmallestNat ==
    ASSUME NEW T \in SUBSET Nat, T # {}
    PROVE  \E x \in T : \A y \in T : x <= y
<1>1. IsWellFoundedOn(OpToRel(<, Nat), Nat)
  BY NatLessThanWellFounded
<1>2. PICK x \in T : \A y \in T : ~ (<<y, x>> \in OpToRel(<, Nat))
  BY <1>1, WFMin
<1>3. ASSUME NEW y \in T, y < x PROVE FALSE
  <2>1. <<y, x>> \in Nat \X Nat /\ <<y, x>>[1] = y /\ <<y, x>>[2] = x
    BY <1>3
  <2>2. <<y, x>> \in OpToRel(<, Nat)
    BY <1>3, <2>1 DEF OpToRel
  <2>3. QED
    BY <1>2, <2>2
<1>4. QED
  BY <1>3

\* The trades of S that are cheaper than n, and those that are not dearer.
Cheaper(S, n) == {t \in S : t.price < n}
NotDearer(S, n) == {t \in S : t.price <= n}

LEMMA NotDearerFinite ==
    ASSUME NEW S, IsFiniteSet(S), NEW n
    PROVE  Cardinality(NotDearer(S, n)) \in Nat
<1>1. NotDearer(S, n) \in SUBSET S
  BY DEF NotDearer
<1>2. QED
  BY <1>1, FS_Subset, FS_CardinalityType

\* Some trade has the highest price: none leaves out fewer of the others.
LEMMA HighestPrice ==
    ASSUME NEW S, IsFiniteSet(S), S # {}, \A t \in S : t.price \in Nat
    PROVE  \E m \in S : NotDearer(S, m.price) = S
<1> DEFINE left(t) == Cardinality(S) - Cardinality(NotDearer(S, t.price))
           T == {left(t) : t \in S}
<1>1. ASSUME NEW t \in S PROVE left(t) \in Nat
  <2>1. NotDearer(S, t.price) \in SUBSET S
    BY DEF NotDearer
  <2>2. QED
    BY <2>1, FS_Subset, FS_CardinalityType
<1>2. T \in SUBSET Nat /\ T # {}
  BY <1>1
<1>3. PICK m \in S : \A t \in S : left(m) <= left(t)
  <2>1. PICK x \in T : \A y \in T : x <= y
    <3> HIDE DEF T
    <3>1. QED
      BY <1>2, SmallestNat
  <2>2. QED
    BY <2>1
<1>4. ASSUME NEW t \in S, ~(t.price <= m.price) PROVE FALSE
  <2>1. /\ NotDearer(S, m.price) \in SUBSET NotDearer(S, t.price)
        /\ NotDearer(S, t.price) \in SUBSET S
    BY <1>4 DEF NotDearer
  <2>2. t \in NotDearer(S, t.price) /\ t \notin NotDearer(S, m.price)
    BY <1>4 DEF NotDearer
  <2>3. IsFiniteSet(NotDearer(S, t.price))
    BY <2>1, FS_Subset
  <2>4. /\ Cardinality(NotDearer(S, m.price)) <= Cardinality(NotDearer(S, t.price))
        /\ Cardinality(NotDearer(S, m.price)) # Cardinality(NotDearer(S, t.price))
    BY <2>1, <2>2, <2>3, FS_Subset
  <2>5. left(m) <= left(t)
    BY <1>3
  <2>6. Cardinality(S) \in Nat
    BY FS_CardinalityType
  <2>7. QED
    BY <2>4, <2>5, <2>6, NotDearerFinite
<1>5. NotDearer(S, m.price) = S
  BY <1>4 DEF NotDearer
<1>6. QED
  BY <1>5

LEMMA KthPriceNat ==
    ASSUME NEW S, IsFiniteSet(S), \A t \in S : t.price \in Nat, NEW k \in 1..Cardinality(S)
    PROVE  KthPrice(S, k) \in Nat
<1> DEFINE T == {n \in Nat : Cardinality(NotDearer(S, n)) >= k}
<1>1. Cardinality(S) \in Nat /\ k \in Nat /\ k >= 1 /\ k <= Cardinality(S)
  BY FS_CardinalityType
<1>2. S # {}
  BY <1>1, FS_EmptySet
<1>3. PICK n \in T : \A m \in T : n <= m
  <2>1. PICK m \in S : NotDearer(S, m.price) = S
    BY <1>2, HighestPrice
  <2>2. m.price \in T
    BY <1>1, <2>1
  <2>3. T \in SUBSET Nat
    OBVIOUS
  <2> HIDE DEF T
  <2>4. QED
    BY <2>2, <2>3, SmallestNat
<1>4. Cardinality(Cheaper(S, n)) < k
  <2>1. CASE n = 0
    <3>1. Cheaper(S, n) = {}
      BY <2>1 DEF Cheaper
    <3>2. QED
      BY <1>1, <3>1, FS_EmptySet
  <2>2. CASE n # 0
    <3>1. n - 1 \in Nat /\ ~(n <= n - 1)
      BY <2>2
    <3>2. ~(Cardinality(NotDearer(S, n - 1)) >= k)
      BY <1>3, <3>1
    <3>3. Cheaper(S, n) = NotDearer(S, n - 1)
      BY <3>1 DEF Cheaper, NotDearer
    <3>4. QED
      BY <1>1, <3>2, <3>3, NotDearerFinite
  <2>3. QED
    BY <2>1, <2>2
<1>5. n \in {t.price : t \in S}
  <2>1. ASSUME \A t \in S : t.price # n PROVE FALSE
    <3>1. NotDearer(S, n) = Cheaper(S, n)
      BY <2>1 DEF NotDearer, Cheaper
    <3>2. QED
      BY <1>1, <1>4, <3>1, NotDearerFinite
  <2>2. QED
    BY <2>1
<1>6. Cardinality(NotDearer(S, n)) >= k
  OBVIOUS
<1>7. KthPrice(S, k) \in {t.price : t \in S}
  BY <1>4, <1>5, <1>6 DEF KthPrice, Cheaper, NotDearer
<1>8. QED
  BY <1>7

LEMMA MedianNat ==
    ASSUME NEW S, IsFiniteSet(S), S # {}, \A t \in S : t.price \in Nat
    PROVE  Median(S) \in Nat
<1> DEFINE n == Cardinality(S)
<1>1. n \in Nat /\ n # 0
  BY FS_CardinalityType, FS_EmptySet
<1>2. \A k \in 1..n : KthPrice(S, k) \in Nat
  BY KthPriceNat
<1> HIDE DEF n
<1>3. (n + 1) \div 2 \in 1..n
  BY <1>1
<1>4. (n \div 2) + 1 \in 1..n
  BY <1>1
<1>5. KthPrice(S, (n + 1) \div 2) \in Nat /\ KthPrice(S, (n \div 2) + 1) \in Nat
  BY <1>2, <1>3, <1>4
<1>6. Median(S) = (KthPrice(S, (n + 1) \div 2) + KthPrice(S, (n \div 2) + 1)) \div 2
  BY DEF Median, n
<1> DEFINE sum == KthPrice(S, (n + 1) \div 2) + KthPrice(S, (n \div 2) + 1)
<1>7. sum \in Nat
  BY <1>5
<1> HIDE DEF sum
<1>8. sum \div 2 \in Nat
  BY <1>7
<1>9. QED
  BY <1>6, <1>8 DEF sum

\* What an answer may be, the price included.
AnswersTyped == inserted \subseteq Symbols /\ \A r \in Requests : request[r].answer \in Answers

LEMMA AnsweredTyped == \A c \in {0, 400, 404, 425, 503} : Answered(c) \in Answers
  BY DEF Answered, NoAnswer, Answers

LEMMA SettledTyped ==
    ASSUME NEW snap \in SnapshotRows, NEW status \in {"confirmed", "degraded", "stale"}
    PROVE  SettleFrom(snap, status) \in Answers /\ Original(snap) \in Answers
<1>1. snap.price \in Nat /\ snap.count \in Nat /\ snap.symbol \in Symbols
  BY SettlementAssumption DEF Row
<1>2. \A s \in {"confirmed", "degraded", "stale"} : SettleFrom(snap, s) \in Answers
  BY <1>1 DEF SettleFrom, Answers
<1>3. QED
  BY <1>2 DEF Original

LEMMA ReaggregatedTyped ==
    ASSUME Typed, NEW snap \in SnapshotRows, NEW picked \in ClosestTrades
    PROVE  Reaggregated(snap, picked) \in Answers
<1>1. IsFiniteSet(picked) /\ Cardinality(picked) \in Nat
  BY PickedPerSource, FS_CardinalityType
<1>2. \A t \in picked : t.price \in Nat
  BY InWindowTrades, SettlementAssumption DEF ClosestTrades, Trade
<1>3. snap.count \in Nat /\ snap.symbol \in Symbols
  BY Natural
<1>4. CASE Cardinality(picked) <= snap.count
  BY <1>4, SettledTyped DEF Reaggregated
<1>5. CASE ~(Cardinality(picked) <= snap.count)
  <2>1. picked # {}
    BY <1>1, <1>3, <1>5, FS_EmptySet
  <2>2. Median(picked) \in Nat
    BY <1>1, <1>2, <2>1, MedianNat
  <2>3. QED
    BY <1>1, <1>3, <1>5, <2>2 DEF Reaggregated, Answers
<1>6. QED
  BY <1>4, <1>5

\* A step that changes one request.
LEMMA AnswerStep ==
    ASSUME IInv, AnswersTyped, NEW r \in Requests, NEW a, a.answer \in Answers,
           request' = [request EXCEPT ![r] = a], UNCHANGED inserted
    PROVE  AnswersTyped'
<1>1. DOMAIN request = Requests
  BY DEF IInv, Typed
<1>2. QED
  BY <1>1 DEF AnswersTyped

LEMMA AnswersTypedStep == IInv /\ AnswersTyped /\ [Next]_vars => AnswersTyped'
<1> SUFFICES ASSUME IInv, AnswersTyped, [Next]_vars PROVE AnswersTyped'
  OBVIOUS
<1>1. CASE UNCHANGED <<inserted, request>>
  BY <1>1 DEF AnswersTyped
<1>2. ASSUME NEW s \in SnapshotRows, InsertSnapshot(s) PROVE AnswersTyped'
  BY <1>2, Natural DEF InsertSnapshot, AnswersTyped
<1>3. ASSUME NEW r \in Requests, Ask(r, Boundary) PROVE AnswersTyped'
  <2>1. EarlyCode(Boundary) \in {400, 425, 503}
    BY <1>3 DEF Ask, EarlyCode
  <2>2. request[r] = NotAsked
    BY <1>3 DEF IInv, Shapes, Shape, Ask
  <2> DEFINE a == [request[r] EXCEPT !.step = "done", !.before = AnsweredBefore,
                                     !.answer = Answered(EarlyCode(Boundary))]
  <2>3. a.answer \in Answers
    BY <2>1, <2>2, AnsweredTyped DEF NotAsked
  <2>4. request' = [request EXCEPT ![r] = a] /\ UNCHANGED inserted
    BY <1>3 DEF Ask, tables
  <2> HIDE DEF a
  <2>5. QED
    BY <2>3, <2>4, AnswerStep
<1>4. ASSUME NEW r \in Requests, QuerySnapshotAt(r, Boundary) PROVE AnswersTyped'
  <2> DEFINE asked == [request[r] EXCEPT !.step = "done", !.before = AnsweredBefore, !.at = now]
             found == [asked EXCEPT !.row = row, !.answer = SettleFrom(row, "confirmed")]
             missing == [asked EXCEPT !.answer = Answered(404)]
             again == [asked EXCEPT !.row = row, !.step = "reaggregate"]
             failed == [asked EXCEPT !.failed = TRUE, !.answer = Answered(404)]
  <2>1. request[r] = NotAsked /\ UNCHANGED inserted /\ row \in SnapshotRows \cup {NoRow}
    BY <1>4 DEF IInv, Typed, Shapes, Shape, QuerySnapshotAt, tables
  <2>2. missing.answer \in Answers /\ failed.answer \in Answers /\ again.answer \in Answers
    BY <2>1, AnsweredTyped DEF NotAsked, NoAnswer, Answers
  <2>3. row \in SnapshotRows => found.answer \in Answers
    BY <2>1, SettledTyped DEF NotAsked
  <2>4. \/ request' = [request EXCEPT ![r] = missing]
        \/ request' = [request EXCEPT ![r] = failed]
        \/ request' = [request EXCEPT ![r] = again]
        \/ row \in SnapshotRows /\ request' = [request EXCEPT ![r] = found]
    BY <1>4, <2>1 DEF QuerySnapshotAt
  <2> HIDE DEF found, missing, again, failed
  <2>5. QED
    BY <2>1, <2>2, <2>3, <2>4, AnswerStep
<1>5. ASSUME NEW r \in Requests, TryReaggregate(r) PROVE AnswersTyped'
  <2>1. /\ request[r].row \in SnapshotRows /\ UNCHANGED inserted
        /\ request[r].step = "reaggregate" /\ Typed
    BY <1>5 DEF IInv, Shapes, Shape, TryReaggregate, tables
  <2> DEFINE done(b) == [request[r] EXCEPT !.step = "done", !.at = now, !.answer = b]
             failed == [request[r] EXCEPT !.step = "done", !.at = now, !.failed = TRUE,
                                          !.answer = Original(request[r].row)]
  <2>2. /\ \A b : done(b).answer = b
        /\ failed.answer = Original(request[r].row)
    BY <2>1 DEF Typed, RequestOf
  <2>3. \/ \E picked \in ClosestTrades :
              request' = [request EXCEPT ![r] = done(Reaggregated(request[r].row, picked))]
        \/ request' = [request EXCEPT ![r] = failed]
    BY <1>5 DEF TryReaggregate
  <2> HIDE DEF done, failed
  <2>4. QED
    BY <2>1, <2>2, <2>3, ReaggregatedTyped, SettledTyped, AnswerStep
<1>6. QED
  <2>1. CASE UNCHANGED vars
    BY <1>1, <2>1 DEF vars, tables
  <2>2. CASE AdvanceClock \/ SetStore \/ (\E t \in Trades : InsertTrade(t)) \/ Prune
             \/ DropRawChunks \/ DropSnapshotChunks
    BY <1>1, <2>2 DEF AdvanceClock, SetStore, InsertTrade, Prune, PruneAll, PruneRawBatch,
                      PruneSnapshotsBatch, DropRawChunks, DropSnapshotChunks, tables
  <2>3. QED
    BY <1>2, <1>3, <1>4, <1>5, <2>1, <2>2 DEF Next

LEMMA InvTypes == ASSUME IInv, AnswersTyped PROVE TypeOK
<1>1. PICK Prices : request \in [Requests -> RequestOf(Prices)]
  BY DEF IInv, Typed
<1>2. ASSUME NEW r \in Requests
      PROVE  request[r] \in [step : {"new", "reaggregate", "done"},
                             row : SnapshotRows \cup {NoRow}, before : SUBSET Requests,
                             at : Nat, failed : BOOLEAN, answer : Answers]
  BY <1>1 DEF RequestOf, AnswersTyped
<1>3. QED
  BY <1>1, <1>2 DEF TypeOK, IInv, Typed, AnswersTyped

\* The types of the tables, the answers and the pruner: an answer that settles has a
\* price, the median of a re-aggregation included (computeMedian of handlers.go).
THEOREM SettlementTypeCorrect == Spec => []TypeOK
<1>1. Init => AnswersTyped
  BY AnsweredTyped DEF Init, AnswersTyped, NotAsked, Answered, NoAnswer
<1>2. Spec => []AnswersTyped
  BY <1>1, AnswersTypedStep, SettlementInvariant, PTL DEF Spec
<1>3. QED
  BY <1>2, SettlementInvariant, InvTypes, PTL
=============================================================================
