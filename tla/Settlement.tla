----------------------------- MODULE Settlement ------------------------------
(***************************************************************************)
(* Settlement: GET /v1/price/settlement (internal/api/handlers.go), the    *)
(* two tables it reads (internal/storage/queries.go), the rows that reach  *)
(* them late, and what deletes them: the retention policies of TimescaleDB *)
(* (migrations/001_init.sql) and the pruner (internal/storage/pruner.go),  *)
(* which is idle when it has detected the extension.  One boundary is      *)
(* asked about again and again.  canonical_ticks, pruned between the two   *)
(* tables, is left out.                                                    *)
(***************************************************************************)
EXTENDS Naturals, FiniteSets

CONSTANTS
    Sources, Symbols, Requests,
    Boundary,         \* the second settled; Interval divides it
    Interval,         \* five minutes
    Grace,            \* no answer before Boundary + Grace
    Window,           \* pricing.settlement_reaggregation_window_ms
    MinHealthy,       \* pricing.minimum_healthy_sources
    RawRetention, SnapshotRetention, BatchSize,  \* PrunerConfig
    TimescaleDB,      \* the extension is there, with the policies of the schema
    Detected,         \* detectTimescaleDB says so: not when its query fails
    RawPolicy, SnapshotPolicy,  \* add_retention_policy: three hours
    RawChunk, SnapshotChunk,    \* chunk_time_interval
    SnapshotRows,     \* the snapshots of the second the engines may make
    Trades,           \* the trades around it
    WriteDelay,       \* a row is in the table this long after its time, or never
    MaxNow, MaxFaults, \* bounds: the clock, failed queries
    NoRow

Row == [symbol : Symbols, price : Nat, stale : BOOLEAN, degraded : BOOLEAN, count : Nat]
Trade == [source : Sources, symbol : Symbols, at : Nat, price : Nat]

\* What finalizeSnapshot makes: a carried snapshot has no source, a fresh one
\* with too few sources is degraded.
ASSUME SettlementAssumption ==
    /\ {Boundary, Grace, Window, MinHealthy, RawRetention, SnapshotRetention, WriteDelay,
        RawPolicy, SnapshotPolicy, MaxNow, MaxFaults} \subseteq Nat
    /\ {Interval, BatchSize, RawChunk, SnapshotChunk} \subseteq Nat \ {0}
    /\ Boundary % Interval = 0
    /\ TimescaleDB \in BOOLEAN /\ Detected \in BOOLEAN /\ (Detected => TimescaleDB)
    /\ IsFiniteSet(Sources)
    /\ SnapshotRows \subseteq Row /\ NoRow \notin Row
    /\ \A s \in SnapshotRows :
        /\ s.stale => s.degraded
        /\ s.count < MinHealthy => s.degraded
    /\ Trades \subseteq Trade

VARIABLES
    now,
    store,       \* s.db is set
    row,         \* snapshots_1s: the row of the boundary
    inserted,    \* the symbols whose snapshot of the boundary was inserted
    raw,         \* raw_ticks
    request,     \* the HTTP requests, each asked once
    pruner,      \* the table pruneAll is at, with its cutoff
    faults

tables == <<row, inserted, raw>>
vars == <<now, store, tables, request, pruner, faults>>

\* before: history, the requests answered before this one was asked; at: the
\* time of its last query; failed: one of its queries did.
NoAnswer == [code |-> 0, status |-> "none", price |-> 0, count |-> 0, symbol |-> NoRow]
NotAsked == [step |-> "new", row |-> NoRow, before |-> {}, at |-> 0, failed |-> FALSE,
             answer |-> NoAnswer]
Idle == [table |-> "none", cutoff |-> 0]

Init ==
    /\ now = 0 /\ store = FALSE
    /\ row = NoRow /\ inserted = {} /\ raw = {}
    /\ request = [r \in Requests |-> NotAsked]
    /\ pruner = Idle /\ faults = 0

-----------------------------------------------------------------------------
(* The tables *)

AdvanceClock ==
    /\ now < MaxNow /\ now' = now + 1
    /\ UNCHANGED <<store, tables, request, pruner, faults>>

SetStore ==
    /\ ~store /\ store' = TRUE
    /\ UNCHANGED <<now, tables, request, pruner, faults>>

\* Mutant: ON CONFLICT DO UPDATE.
Replacing(new) == new

\* UNIQUE (ts_second), whatever the symbol: ON CONFLICT (ts_second) DO NOTHING.
FirstWins(new) == IF row = NoRow THEN new ELSE row

InsertSnapshot(new) ==
    /\ store /\ Boundary <= now /\ now <= Boundary + WriteDelay
    /\ new.symbol \notin inserted
    /\ row' = FirstWins(new)
    /\ inserted' = inserted \cup {new.symbol}
    /\ UNCHANGED <<now, store, raw, request, pruner, faults>>

\* A row that is there already, by source, trade id and time, stays one.
InsertTrade(t) ==
    /\ store /\ t.at <= now /\ now <= t.at + WriteDelay
    /\ t \notin raw
    /\ raw' = raw \cup {t}
    /\ UNCHANGED <<now, store, row, inserted, request, pruner, faults>>

-----------------------------------------------------------------------------
(* handleSettlement *)

Answered(code) == [NoAnswer EXCEPT !.code = code]

SettleFrom(snap, status) ==
    [code |-> 200, status |-> status, price |-> snap.price, count |-> snap.count,
     symbol |-> snap.symbol]

\* The code a request for ts ends with before any query, 0 for none.
EarlyCode(ts) ==
    IF ts % Interval # 0 \/ ts > now THEN 400
    ELSE IF now - ts < Grace THEN 425
    ELSE IF ~store THEN 503 ELSE 0

AnsweredBefore == {q \in Requests : request[q].step = "done"}
Fault == faults < MaxFaults /\ faults' = faults + 1

Ask(r, ts) ==
    /\ request[r].step = "new" /\ EarlyCode(ts) # 0
    /\ request' = [request EXCEPT ![r] = [@ EXCEPT !.step = "done", !.before = AnsweredBefore,
                                           !.answer = Answered(EarlyCode(ts))]]
    /\ UNCHANGED <<now, store, tables, pruner, faults>>

\* QuerySnapshotAt, once the checks have passed (they only read, and go on passing):
\* a confirmed snapshot is answered at once; whatever the error, the answer is 404.
QuerySnapshotAt(r, ts) ==
    LET confirmed == row # NoRow /\ ~row.stale /\ ~row.degraded
        asked == [request[r] EXCEPT !.step = "done", !.before = AnsweredBefore, !.at = now]
    IN  /\ request[r].step = "new" /\ EarlyCode(ts) = 0
        /\ \/ /\ UNCHANGED faults
              /\ request' = [request EXCEPT ![r] =
                    IF row = NoRow THEN [asked EXCEPT !.answer = Answered(404)]
                    ELSE IF confirmed
                    THEN [asked EXCEPT !.row = row, !.answer = SettleFrom(row, "confirmed")]
                    ELSE [asked EXCEPT !.row = row, !.step = "reaggregate"]]
           \/ /\ Fault
              /\ request' = [request EXCEPT ![r] = [asked EXCEPT !.failed = TRUE,
                                                                !.answer = Answered(404)]]
        /\ UNCHANGED <<now, store, tables, pruner>>

Off(t) == IF t.at < Boundary THEN Boundary - t.at ELSE t.at - Boundary
InWindow == {t \in raw : Off(t) <= Window}

\* DISTINCT ON (source), the closest first: of trades as close as each other, any.
\* No condition on the symbol.
ClosestTrades ==
    {picked \in SUBSET InWindow :
        /\ \A t \in InWindow : \E p \in picked : p.source = t.source
        /\ \A p \in picked :
            /\ \A q \in picked : p.source = q.source => p = q
            /\ \A t \in InWindow : p.source = t.source => Off(p) <= Off(t)}

\* computeMedian of handlers.go: no outlier rejection.
KthPrice(picked, k) == CHOOSE n \in {t.price : t \in picked} :
    /\ Cardinality({t \in picked : t.price < n}) < k
    /\ Cardinality({t \in picked : t.price <= n}) >= k
Median(picked) ==
    LET n == Cardinality(picked)
    IN  (KthPrice(picked, (n + 1) \div 2) + KthPrice(picked, (n \div 2) + 1)) \div 2

Original(snap) == SettleFrom(snap, IF snap.stale THEN "stale" ELSE "degraded")

Healthy(n) == n >= MinHealthy

Reaggregated(snap, picked) ==
    IF Cardinality(picked) <= snap.count THEN Original(snap)
    ELSE [code |-> 200, status |-> IF Healthy(Cardinality(picked)) THEN "confirmed" ELSE "degraded",
          price |-> Median(picked), count |-> Cardinality(picked), symbol |-> snap.symbol]

TryReaggregate(r) ==
    /\ request[r].step = "reaggregate"
    /\ \/ /\ UNCHANGED faults
          /\ \E picked \in ClosestTrades : request' = [request EXCEPT ![r] =
                [@ EXCEPT !.step = "done", !.at = now, !.answer = Reaggregated(request[r].row, picked)]]
       \/ /\ Fault
          /\ request' = [request EXCEPT ![r] = [@ EXCEPT !.step = "done", !.at = now,
                !.failed = TRUE, !.answer = Original(request[r].row)]]
    /\ UNCHANGED <<now, store, tables, pruner>>

-----------------------------------------------------------------------------
(* The pruner: Run's ticker starts pruneAll, which prunes one table and then *)
(* the other, batch after batch until one is not full.                       *)

Before(age) == IF now < age THEN 0 ELSE now - age

\* Mutant: the cutoff is taken once, when the process starts.
PruneTableOnce(table) == [table |-> table, cutoff |-> 0]

PruneTable(table) ==
    [table |-> table, cutoff |-> Before(IF table = "raw" THEN RawRetention ELSE SnapshotRetention)]

\* A retention of no days keeps everything.
StartOf(table) ==
    IF table = "raw" /\ RawRetention > 0 THEN PruneTable("raw")
    ELSE IF table # "none" /\ SnapshotRetention > 0 THEN PruneTable("snapshots") ELSE Idle

After(table) == IF table = "raw" THEN StartOf("snapshots") ELSE Idle

PruneAll ==
    /\ pruner.table = "none" /\ ~Detected /\ store
    /\ pruner' = StartOf("raw")
    /\ UNCHANGED <<now, store, tables, request, faults>>

\* Mutant: an off-by-one in the comparison with the cutoff.
ExpiredEarly(at) == at <= pruner.cutoff

Expired(at) == at < pruner.cutoff

PruneRawBatch ==
    LET expired == {t \in raw : Expired(t.at)}
        batch == IF Cardinality(expired) < BatchSize THEN Cardinality(expired) ELSE BatchSize
    IN  /\ pruner.table = "raw"
        /\ \/ /\ \E gone \in SUBSET expired : Cardinality(gone) = batch /\ raw' = raw \ gone
              /\ pruner' = IF batch < BatchSize THEN After("raw") ELSE pruner
              /\ UNCHANGED faults
           \/ Fault /\ pruner' = After("raw") /\ UNCHANGED raw
        /\ UNCHANGED <<now, store, row, inserted, request>>

PruneSnapshotsBatch ==
    /\ pruner.table = "snapshots"
    /\ \/ row' = (IF Expired(Boundary) THEN NoRow ELSE row) /\ UNCHANGED faults
       \/ Fault /\ UNCHANGED row
    /\ pruner' = Idle
    /\ UNCHANGED <<now, store, inserted, raw, request>>

Prune == PruneAll \/ PruneRawBatch \/ PruneSnapshotsBatch

(* The jobs of TimescaleDB, one per table, drop the chunks that ended longer *)
(* ago than the policy says, whatever the days in PrunerConfig.              *)

ChunkEnd(at, chunk) == (at \div chunk + 1) * chunk

DropRawChunks ==
    /\ TimescaleDB
    /\ raw' = {t \in raw : ChunkEnd(t.at, RawChunk) + RawPolicy > now}
    /\ UNCHANGED <<now, store, row, inserted, request, pruner, faults>>

DropSnapshotChunks ==
    /\ TimescaleDB
    /\ ChunkEnd(Boundary, SnapshotChunk) + SnapshotPolicy <= now
    /\ row' = NoRow
    /\ UNCHANGED <<now, store, inserted, raw, request, pruner, faults>>

Next ==
    \/ AdvanceClock \/ SetStore
    \/ \E s \in SnapshotRows : InsertSnapshot(s)
    \/ \E t \in Trades : InsertTrade(t)
    \/ \E r \in Requests :
        Ask(r, Boundary) \/ QuerySnapshotAt(r, Boundary) \/ TryReaggregate(r)
    \/ Prune \/ DropRawChunks \/ DropSnapshotChunks

Spec == Init /\ [][Next]_vars

\* The pruner's ticker fires, the database answers.
FairSpec == Spec /\ WF_vars(Prune)
-----------------------------------------------------------------------------
(* Properties *)

Answers == {[code |-> c, status |-> "none", price |-> 0, count |-> 0, symbol |-> NoRow] :
                c \in {0, 400, 404, 425, 503}}
           \cup [code : {200}, status : {"confirmed", "degraded", "stale"}, price : Nat,
                 count : Nat, symbol : Symbols]

TypeOK ==
    /\ now \in Nat /\ store \in BOOLEAN
    /\ row \in SnapshotRows \cup {NoRow} /\ inserted \subseteq Symbols /\ raw \subseteq Trades
    /\ request \in [Requests -> [step : {"new", "reaggregate", "done"},
                                 row : SnapshotRows \cup {NoRow}, before : SUBSET Requests,
                                 at : Nat, failed : BOOLEAN, answer : Answers]]
    /\ pruner \in [table : {"none", "raw", "snapshots"}, cutoff : Nat]
    /\ faults \in Nat

Confirmed(r) == request[r].answer.status = "confirmed"

\* A price is confirmed only with enough sources, and never with fewer than the
\* stored snapshot has, whichever of the two reads the answer comes from.
ConfirmedHealthy == \A r \in Requests :
    LET a == request[r].answer
    IN  /\ Confirmed(r) => a.count >= MinHealthy
        /\ a.code = 200 => a.count >= request[r].row.count

\* Nothing an answer at this time rests on can have been deleted yet, by the pruner
\* or by a policy.
RowUnpruned(at) ==
    /\ Detected \/ SnapshotRetention = 0 \/ at <= Boundary + SnapshotRetention
    /\ TimescaleDB => at <= Boundary + SnapshotPolicy
RawUnpruned(at) ==
    /\ Detected \/ RawRetention = 0 \/ at + Window <= Boundary + RawRetention
    /\ TimescaleDB => at + Window <= Boundary + RawPolicy
BeforePruning(r) == RawUnpruned(request[r].at) /\ RowUnpruned(request[r].at)

Later(q, r) == q \in request[r].before /\ request[r].row # NoRow /\ ~request[r].failed

\* A settlement that was confirmed once is confirmed whenever it is asked for again,
\* until the pruner or a policy reaches the trades around it: rows that arrive late
\* only add sources, and the row of the second never changes.  A settlement that was
\* found is found again.
ConfirmedHolds == \A q, r \in Requests :
    /\ Later(q, r) /\ Confirmed(q) /\ BeforePruning(r) /\ request[r].step = "done" => Confirmed(r)
    /\ q \in request[r].before /\ request[q].answer.code = 200 /\ BeforePruning(r)
         /\ request[r].answer.code = 404 => request[r].failed

\* Of two trades of a source neither is as close to the boundary as the other.
Unambiguous == \A t, u \in Trades :
    t.source = u.source /\ Off(t) = Off(u) /\ Off(t) <= Window => t = u

\* A price that was answered from a confirmed row, or once every trade of the window
\* that will be stored is stored, is the price of every later answer, until the
\* pruner or a policy reaches it.
PriceFinal == \A q, r \in Requests :
    (/\ Later(q, r) /\ Confirmed(q) /\ BeforePruning(r) /\ request[r].step = "done"
     /\ \/ ~request[q].row.degraded
        \/ request[q].at > Boundary + Window + WriteDelay /\ Unambiguous)
        => request[r].answer.price = request[q].answer.price

\* Rows whose time has come are deleted when the pruner runs, however many batches
\* that takes and although a failed batch ends the pass.
ExpiredPruned == ~Detected => \A t \in Trades :
    (t \in raw /\ RawRetention > 0 /\ t.at + RawRetention < now) ~> (t \notin raw)
=============================================================================
