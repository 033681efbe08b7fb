----------------------------- MODULE Broadcaster -----------------------------
(***************************************************************************)
(* From the start of the process to the WebSocket hub: main connects to    *)
(* the database and starts the engines (cmd/btick/main.go,                 *)
(* internal/storage/postgres.go), whose events are forwarded by the multi  *)
(* engine and the proxy engine (internal/engine/multi.go, proxy.go) to the *)
(* server's broadcast loop, which coalesces them (internal/api/server.go). *)
(* The events of a key are numbered as its engine makes them.              *)
(***************************************************************************)
EXTENDS Naturals, Sequences, FiniteSets, SequencesExt

CONSTANTS
    Symbols,
    Keys,              \* the type, symbol and source of the messages coalesced
    NoSource,
    UseDB, UseQueryPool,       \* a DSN is configured, and two pools
    EngineCap, MultiCap, ProxyCap,  \* the channels' buffers
    MaxDrain,          \* maxWSBroadcastDrain
    MaxEvents, MaxAttempts     \* bounds: events of a key, failed connections

MessageTypes == {"snapshot_1s", "latest_price", "source_price"}
TickKey(s) == [type |-> "latest_price", symbol |-> s, source |-> NoSource]

ASSUME BroadcasterAssumption ==
    /\ \A k \in Keys : k.type \in MessageTypes /\ k.symbol \in Symbols
    /\ \A s \in Symbols : TickKey(s) \in Keys
    /\ {UseDB, UseQueryPool} \subseteq BOOLEAN
    /\ {EngineCap, MultiCap, ProxyCap, MaxDrain} \subseteq Nat \ {0}
    /\ MaxEvents \in [Keys -> Nat] /\ MaxAttempts \in Nat

VARIABLES
    stage,      \* of database-init: connecting, waiting, running, attached, ended
    pools,      \* the pools that are open
    attempts,   \* failed connections so far
    store,      \* the server's store is set
    made,       \* events of each key; for ticks, the latest state of the engine
    engineCh,   \* TickCh, SnapshotCh and SourcePriceCh of each engine
    multi,      \* what the multi engine's forwarders hold: in hand
    multiCh,
    proxy,      \* what the proxy's forwarders hold
    proxyCh,
    loop,       \* where broadcastLoop is, and its batch
    sent,       \* the last event broadcast of each key
    accepted, coalesced, broadcasts,  \* counters: let in by a channel, replaced, broadcast
    cancelled

startup == <<stage, pools, attempts, store>>
channels == <<engineCh, multi, multiCh, proxy, proxyCh>>
counters == <<accepted, coalesced, broadcasts>>
vars == <<startup, made, channels, loop, sent, counters, cancelled>>

Event == [key : Keys, n : Nat]
Outputs == {<<k.type, k.symbol>> : k \in Keys}
Output(k) == <<k.type, k.symbol>>
TypesUsed == {k.type : k \in Keys}
Collecting == [at |-> "collect", batch |-> <<>>, drained |-> 0]

Init ==
    /\ stage = (IF UseDB THEN "connecting" ELSE "running")
    /\ pools = {} /\ attempts = 0 /\ store = FALSE
    /\ made = [k \in Keys |-> 0] /\ sent = [k \in Keys |-> 0]
    /\ engineCh = [o \in Outputs |-> <<>>] /\ multi = [o \in Outputs |-> <<>>]
    /\ multiCh = [t \in TypesUsed |-> <<>>] /\ proxy = [t \in TypesUsed |-> <<>>]
    /\ proxyCh = [t \in TypesUsed |-> <<>>]
    /\ loop = Collecting
    /\ accepted = 0 /\ coalesced = 0 /\ broadcasts = 0
    /\ cancelled = FALSE

-----------------------------------------------------------------------------
(* waitForDatabaseAndStart *)

\* newDB of the ingest pool, then of the query pool.
OpenPool ==
    /\ stage = "connecting" /\ ~cancelled
    /\ \/ pools = {} /\ pools' = {"ingest"}
       \/ UseQueryPool /\ pools = {"ingest"} /\ pools' = {"ingest", "query"}
    /\ UNCHANGED <<stage, attempts, store, made, channels, loop, sent, counters, cancelled>>

\* Mutant: the ingest pool stays open when the query pool cannot be had.
ConnectFailsLeaking ==
    /\ stage = "connecting" /\ attempts < MaxAttempts
    /\ attempts' = attempts + 1
    /\ UNCHANGED pools
    /\ stage' = (IF cancelled THEN "ended" ELSE "waiting")
    /\ UNCHANGED <<store, made, channels, loop, sent, counters, cancelled>>

\* An attempt fails, of itself or because of the cancellation; a pool that was
\* opened is closed.
ConnectFails ==
    /\ stage = "connecting" /\ pools # (IF UseQueryPool THEN {"ingest", "query"} ELSE {"ingest"})
    /\ \/ cancelled /\ UNCHANGED attempts
       \/ attempts < MaxAttempts /\ attempts' = attempts + 1
    /\ pools' = {}
    /\ stage' = (IF cancelled THEN "ended" ELSE "waiting")
    /\ UNCHANGED <<store, made, channels, loop, sent, counters, cancelled>>

Retry ==
    /\ stage = "waiting"
    /\ stage' = (IF cancelled THEN "ended" ELSE "connecting")
    /\ UNCHANGED <<pools, attempts, store, made, channels, loop, sent, counters, cancelled>>

\* startRuntime: the store is set, the engines run.
StartRuntime ==
    /\ stage = "connecting" /\ pools = (IF UseQueryPool THEN {"ingest", "query"} ELSE {"ingest"})
    /\ stage' = "running" /\ store' = TRUE
    /\ UNCHANGED <<pools, attempts, made, channels, loop, sent, counters, cancelled>>

\* NewMultiEngine starts its forwarders, Attach those of the proxy; an engine that
\* is attached stays.
Attach ==
    /\ stage = "running" /\ stage' = "attached"
    /\ UNCHANGED <<pools, attempts, store, made, channels, loop, sent, counters, cancelled>>

\* The deferred Close, after ctx.Done().
ClosePools ==
    /\ stage = "attached" /\ cancelled /\ pools # {}
    /\ pools' = {}
    /\ UNCHANGED <<stage, attempts, store, made, channels, loop, sent, counters, cancelled>>

Cancel ==
    /\ ~cancelled /\ cancelled' = TRUE
    /\ UNCHANGED <<startup, made, channels, loop, sent, counters>>

-----------------------------------------------------------------------------
(* The engines and the forwarders *)

\* A send that drops when the channel is full, after updateLatestState.
Emit(k) ==
    LET room == Len(engineCh[Output(k)]) < EngineCap
    IN  /\ stage \in {"running", "attached"}
        /\ made[k] < MaxEvents[k]
        /\ made' = [made EXCEPT ![k] = @ + 1]
        /\ engineCh' = IF room THEN [engineCh EXCEPT ![Output(k)] =
                                        Append(@, [key |-> k, n |-> made[k] + 1])] ELSE engineCh
        /\ accepted' = IF room THEN accepted + 1 ELSE accepted
        /\ UNCHANGED <<startup, multi, multiCh, proxy, proxyCh, loop, sent, coalesced, broadcasts,
                       cancelled>>

\* for e := range the engine's channel { m.ch <- e }, without a context.
MultiForward(o) ==
    /\ stage = "attached"
    /\ \/ /\ multi[o] = <<>> /\ engineCh[o] # <<>>
          /\ multi' = [multi EXCEPT ![o] = <<Head(engineCh[o])>>]
          /\ engineCh' = [engineCh EXCEPT ![o] = Tail(@)]
          /\ UNCHANGED multiCh
       \/ /\ multi[o] # <<>> /\ Len(multiCh[o[1]]) < MultiCap
          /\ multiCh' = [multiCh EXCEPT ![o[1]] = @ \o multi[o]]
          /\ multi' = [multi EXCEPT ![o] = <<>>]
          /\ UNCHANGED engineCh
    /\ UNCHANGED <<startup, made, proxy, proxyCh, loop, sent, counters, cancelled>>

\* Mutant: the proxy drops what its channel has no room for.
ProxyForwardDropping(t) ==
    /\ stage = "attached"
    /\ multiCh[t] # <<>>
    /\ multiCh' = [multiCh EXCEPT ![t] = Tail(@)]
    /\ proxyCh' = [proxyCh EXCEPT ![t] = IF Len(@) < ProxyCap THEN Append(@, Head(multiCh[t])) ELSE @]
    /\ UNCHANGED <<startup, made, engineCh, multi, proxy, loop, sent, counters, cancelled>>

\* Mutant: Attach starts its forwarders twice.
ProxyForwardTwice(t) ==
    /\ stage = "attached"
    /\ \/ /\ Len(proxy[t]) < 2 /\ multiCh[t] # <<>>
          /\ proxy' = [proxy EXCEPT ![t] = Append(@, Head(multiCh[t]))]
          /\ multiCh' = [multiCh EXCEPT ![t] = Tail(@)]
          /\ UNCHANGED proxyCh
       \/ /\ Len(proxyCh[t]) < ProxyCap
          /\ \E i \in DOMAIN proxy[t] :
                /\ proxyCh' = [proxyCh EXCEPT ![t] = Append(@, proxy[t][i])]
                /\ proxy' = [proxy EXCEPT ![t] = RemoveAt(@, i)]
          /\ UNCHANGED multiCh
    /\ UNCHANGED <<startup, made, engineCh, multi, loop, sent, counters, cancelled>>

ProxyForward(t) ==
    /\ stage = "attached"
    /\ \/ /\ proxy[t] = <<>> /\ multiCh[t] # <<>>
          /\ proxy' = [proxy EXCEPT ![t] = <<Head(multiCh[t])>>]
          /\ multiCh' = [multiCh EXCEPT ![t] = Tail(@)]
          /\ UNCHANGED proxyCh
       \/ /\ proxy[t] # <<>> /\ Len(proxyCh[t]) < ProxyCap
          /\ proxyCh' = [proxyCh EXCEPT ![t] = @ \o proxy[t]]
          /\ proxy' = [proxy EXCEPT ![t] = <<>>]
          /\ UNCHANGED multiCh
    /\ UNCHANGED <<startup, made, engineCh, multi, loop, sent, counters, cancelled>>

-----------------------------------------------------------------------------
(* broadcastLoop *)

\* Mutant: the message that is there already wins.
RecordFirst(batch, msg) ==
    IF \E i \in DOMAIN batch : batch[i].key = msg.key THEN batch ELSE Append(batch, msg)

\* record: a later message replaces the pending one of its key and takes its place
\* at the end.
Record(batch, msg) ==
    LET pending == {i \in DOMAIN batch : batch[i].key = msg.key}
    IN  Append(IF pending = {} THEN batch ELSE RemoveAt(batch, CHOOSE i \in pending : TRUE), msg)

\* The first message of a batch is waited for; further ones are taken while there
\* are any and the batch has not drained maxWSBroadcastDrain. select picks any.
Collect(t) ==
    /\ loop.at = "collect" /\ loop.drained < MaxDrain
    /\ proxyCh[t] # <<>>
    /\ proxyCh' = [proxyCh EXCEPT ![t] = Tail(@)]
    /\ loop' = [loop EXCEPT !.batch = Record(@, Head(proxyCh[t])), !.drained = @ + 1]
    /\ coalesced' = coalesced + Len(loop.batch) + 1 - Len(loop'.batch)
    /\ UNCHANGED <<startup, made, engineCh, multi, multiCh, proxy, sent, accepted, broadcasts,
                   cancelled>>

StartBroadcast ==
    /\ loop.at = "collect" /\ loop.batch # <<>>
    /\ loop.drained >= MaxDrain \/ \A t \in TypesUsed : proxyCh[t] = <<>>
    /\ loop' = [loop EXCEPT !.at = "send"]
    /\ UNCHANGED <<startup, made, channels, sent, counters, cancelled>>

Broadcast ==
    LET msg == Head(loop.batch)
    IN  /\ loop.at = "send"
        /\ sent' = [sent EXCEPT ![msg.key] = msg.n]
        /\ broadcasts' = broadcasts + 1
        /\ loop' = IF Len(loop.batch) = 1 THEN Collecting ELSE [loop EXCEPT !.batch = Tail(@)]
        /\ UNCHANGED <<startup, made, channels, accepted, coalesced, cancelled>>

\* ctx.Done() is only looked at while waiting for the first message.
LoopReturns ==
    /\ cancelled /\ loop = Collecting
    /\ loop' = [Collecting EXCEPT !.at = "ended"]
    /\ UNCHANGED <<startup, made, channels, sent, counters, cancelled>>

Start == OpenPool \/ ConnectFails \/ Retry \/ StartRuntime \/ Attach \/ ClosePools
BroadcastLoop == (\E t \in TypesUsed : Collect(t)) \/ StartBroadcast \/ Broadcast

Next ==
    \/ Start \/ Cancel
    \/ \E k \in Keys : Emit(k)
    \/ \E o \in Outputs : MultiForward(o)
    \/ \E t \in TypesUsed : ProxyForward(t)
    \/ BroadcastLoop \/ LoopReturns

Spec == Init /\ [][Next]_vars

\* Goroutines run, an attempt to connect ends.
FairSpec ==
    /\ Spec /\ WF_vars(Start) /\ WF_vars(BroadcastLoop) /\ WF_vars(LoopReturns)
    /\ \A o \in Outputs : WF_vars(MultiForward(o))
    /\ \A t \in TypesUsed : WF_vars(ProxyForward(t))
-----------------------------------------------------------------------------
(* Properties *)

TypeOK ==
    /\ stage \in {"connecting", "waiting", "running", "attached", "ended"}
    /\ pools \subseteq {"ingest", "query"} /\ attempts \in Nat /\ store \in BOOLEAN
    /\ made \in [Keys -> Nat] /\ sent \in [Keys -> Nat]
    /\ engineCh \in [Outputs -> Seq(Event)] /\ multi \in [Outputs -> Seq(Event)]
    /\ multiCh \in [TypesUsed -> Seq(Event)] /\ proxy \in [TypesUsed -> Seq(Event)]
    /\ proxyCh \in [TypesUsed -> Seq(Event)]
    /\ loop \in [at : {"collect", "send", "ended"}, batch : Seq(Event), drained : Nat]
    /\ {accepted, coalesced, broadcasts} \subseteq Nat /\ cancelled \in BOOLEAN

\* LatestState of the proxy: nothing until an engine is attached.
LatestState(s) == IF stage = "attached" THEN made[TickKey(s)] ELSE 0

\* The hub's environment: a price is never broadcast that GET /v1/price/latest and
\* a new client's initial state do not know yet, and the prices of a symbol are
\* never broadcast out of order, whatever is dropped, held up and coalesced.
Feed == INSTANCE TickFeed WITH
    latest <- [s \in Symbols |-> made[TickKey(s)]],
    published <- [s \in Symbols |-> sent[TickKey(s)]]
FeedSpec == Feed!FeedSpec

\* Nothing is broadcast before the database has answered and an engine is attached,
\* and no pool is left open by an attempt that failed.
NothingBeforeRuntime ==
    /\ (\E k \in Keys : sent[k] > 0) => stage = "attached" /\ (UseDB => store)
    /\ stage \in {"waiting", "ended"} => pools = {}

Slots(f) == UNION {{<<x, i>> : i \in DOMAIN f[x]} : x \in DOMAIN f}
InTransit ==
    LET held(f) == Cardinality(Slots(f))
    IN  held(engineCh) + held(multi) + held(multiCh) + held(proxy) + held(proxyCh) + Len(loop.batch)

\* Past the engine's channel nothing is lost: every event is under way, was broadcast
\* or was replaced by a later one of its key and counted as coalesced.
Accounted == accepted = broadcasts + coalesced + InTransit

\* The newest event of every key that an engine's channel took reaches the hub,
\* although forwarders block on full channels and coalescing skips the older ones.
LatestDelivered == \A k \in Keys : \A n \in 1..MaxEvents[k] :
    (\E i \in DOMAIN engineCh[Output(k)] : engineCh[Output(k)][i] = [key |-> k, n |-> n])
        ~> (sent[k] >= n \/ cancelled)
=============================================================================
