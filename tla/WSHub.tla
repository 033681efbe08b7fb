------------------------------- MODULE WSHub --------------------------------
(***************************************************************************)
(* The WebSocket hub (internal/api/websocket.go): connections register     *)
(* under a limit, are greeted, then served by a writer and a reader        *)
(* goroutine; the hub's heartbeat, the server's broadcast loop and the     *)
(* adapters' state callbacks broadcast concurrently; slow clients are      *)
(* evicted and the hub sweeps its clients away on cancellation.            *)
(***************************************************************************)
EXTENDS Subscriptions, Naturals, Sequences

CONSTANTS
    Clients,        \* the connections that are attempted
    Adapters,       \* the goroutines that broadcast source states
    MaxClients, SendBuffer, MaxDrops,  \* WSConfig
    Requests,       \* the symbols parameters of the URL, given or not
    Actions,        \* the subscribe and unsubscribe requests clients send
    MaxActions, MaxSeq, MaxTick        \* bounds: requests, broadcasts, ticks

ASSUME HubAssumption ==
    /\ {MaxClients, SendBuffer, MaxDrops} \subseteq Nat \ {0}
    /\ {MaxActions, MaxSeq, MaxTick} \subseteq Nat
    /\ {"hub", "loop"} \cap Adapters = {}
    /\ Requests \subseteq [named : BOOLEAN, symbols : SUBSET (Symbols \cup {Blank})]
    /\ Actions \subseteq [op : {"subscribe", "unsubscribe"}, types : SUBSET Types,
                          symbols : SUBSET (Symbols \cup {Blank})]

VARIABLES
    clients,                \* h.clients
    stage,                  \* where HandleWS is with a connection
    conn,                   \* the connection, "lost" when only the peer knows it is gone
    subs, queue, drops,     \* of a wsClient: subs, sendCh, dropCount
    closes,                 \* how often sendCh was closed
    writing, reading, once, \* the two goroutines and their closeOnce
    taken,                  \* history: what the writer took from sendCh
    initial,                \* history: the prices of the initial state, 0 for none
    asked,                  \* requests read so far
    seq,                    \* h.seq
    bcast,                  \* the Broadcast call each broadcaster is in
    latest,                 \* LatestState of the engines: the last tick, 0 for none
    published,              \* the last tick whose broadcast is complete
    cancelled, swept        \* ctx; the hub's Run has returned

client == <<stage, conn, subs, initial, asked>>
sending == <<queue, drops, closes, taken>>
goroutines == <<writing, reading, once>>
engine == <<latest, published>>
life == <<cancelled, swept>>
vars == <<clients, client, sending, goroutines, seq, bcast, engine, life>>

Broadcasters == {"hub", "loop"} \cup Adapters
Message == [seq : 1..MaxSeq, by : Broadcasters, type : Types,
            symbol : Symbols \cup {NoSymbol}, value : 0..MaxTick]
NoMessage == [seq |-> 0, by |-> "hub", type |-> "heartbeat", symbol |-> NoSymbol, value |-> 0]
Call(at, msg, todo, evict) == [at |-> at, msg |-> msg, todo |-> todo, evict |-> evict]
Idle == Call("idle", NoMessage, {}, {})

Init ==
    /\ clients = {}
    /\ stage = [c \in Clients |-> "away"]
    /\ conn = [c \in Clients |-> "none"]
    /\ subs = [c \in Clients |-> NewSubscriptions]
    /\ initial = [c \in Clients |-> [s \in Symbols |-> 0]]
    /\ asked = [c \in Clients |-> 0]
    /\ queue = [c \in Clients |-> <<>>] /\ taken = [c \in Clients |-> <<>>]
    /\ drops = [c \in Clients |-> 0] /\ closes = [c \in Clients |-> 0]
    /\ writing = {} /\ reading = {} /\ once = [c \in Clients |-> "ready"]
    /\ seq = 0
    /\ bcast = [b \in Broadcasters |-> Idle]
    /\ latest = [s \in Symbols |-> 0] /\ published = [s \in Symbols |-> 0]
    /\ cancelled = FALSE /\ swept = FALSE

\* h.mu: nobody writes h.clients while a broadcaster walks over them.
Unlocked == \A b \in Broadcasters : bcast[b].at # "sending"

-----------------------------------------------------------------------------
(* HandleWS *)

\* The early check, and the upgrade of a connection that passes it.
Connect(c, request) ==
    /\ stage[c] = "away"
    /\ \/ /\ Cardinality(clients) >= MaxClients
          /\ stage' = [stage EXCEPT ![c] = "refused"] /\ UNCHANGED <<conn, subs>>
       \/ /\ Cardinality(clients) < MaxClients
          /\ stage' = [stage EXCEPT ![c] = "upgraded"]
          /\ conn' = [conn EXCEPT ![c] = "open"]
          /\ subs' = [subs EXCEPT ![c] = SetSymbols(@, request)]
    /\ UNCHANGED <<clients, initial, asked, sending, goroutines, seq, bcast, engine, life>>

\* Mutant: the limit is only checked before the upgrade.
RoomUnchecked == TRUE

HasRoom == Cardinality(clients) < MaxClients

Register(c) ==
    /\ stage[c] = "upgraded"
    /\ Unlocked
    /\ \/ /\ HasRoom
          /\ clients' = clients \cup {c}
          /\ stage' = [stage EXCEPT ![c] = "registered"] /\ UNCHANGED conn
       \/ /\ ~HasRoom
          /\ stage' = [stage EXCEPT ![c] = "refused"]
          /\ conn' = [conn EXCEPT ![c] = "closed"] /\ UNCHANGED clients
    /\ UNCHANGED <<subs, initial, asked, sending, goroutines, seq, bcast, engine, life>>

SendWelcome(c) ==
    /\ stage[c] = "registered"
    /\ conn[c] # "closed"
    /\ stage' = [stage EXCEPT ![c] = "welcomed"]
    /\ UNCHANGED <<clients, conn, subs, initial, asked, sending, goroutines, seq, bcast,
                   engine, life>>

\* Mutant: only a client that named no symbols is told the state of all.
InitialStateUnnamed(c) == [s \in Symbols |-> IF subs[c].named THEN 0 ELSE latest[s]]

\* The state of every symbol the client wants, or no_data_yet.
InitialState(c) ==
    [s \in Symbols |-> IF Wants(subs[c], "latest_price", s) THEN latest[s] ELSE 0]

\* The last of the handshake: the two goroutines of the client start.
SendInitialState(c) ==
    /\ stage[c] = "welcomed"
    /\ conn[c] # "closed"
    /\ initial' = [initial EXCEPT ![c] = InitialState(c)]
    /\ stage' = [stage EXCEPT ![c] = "live"]
    /\ writing' = writing \cup {c} /\ reading' = reading \cup {c}
    /\ UNCHANGED <<clients, conn, subs, asked, sending, once, seq, bcast, engine, life>>

\* A write of the handshake fails: the client leaves the map, its queue stays open.
HandshakeFails(c) ==
    /\ stage[c] \in {"registered", "welcomed"}
    /\ conn[c] # "open"
    /\ Unlocked
    /\ clients' = clients \ {c}
    /\ stage' = [stage EXCEPT ![c] = "failed"]
    /\ conn' = [conn EXCEPT ![c] = "closed"]
    /\ UNCHANGED <<subs, initial, asked, sending, goroutines, seq, bcast, engine, life>>

\* The peer closes, or the network does.
PeerGone(c) ==
    /\ conn[c] = "open"
    /\ conn' = [conn EXCEPT ![c] = "lost"]
    /\ UNCHANGED <<clients, stage, subs, initial, asked, sending, goroutines, seq, bcast,
                   engine, life>>

-----------------------------------------------------------------------------
(* The writer and the reader goroutine of a client *)

WriteMessage(c) ==
    /\ c \in writing
    /\ conn[c] # "closed"
    /\ queue[c] # <<>>
    /\ queue' = [queue EXCEPT ![c] = Tail(@)]
    /\ taken' = [taken EXCEPT ![c] = Append(@, Head(queue[c]))]
    /\ UNCHANGED <<clients, client, drops, closes, goroutines, seq, bcast, engine, life>>

\* Mutant: the client is not unregistered.
CloseConnKeeping(c) ==
    IF once[c] = "ready"
    THEN once' = [once EXCEPT ![c] = "done"] /\ conn' = [conn EXCEPT ![c] = "closed"]
    ELSE UNCHANGED <<once, conn>>

\* closeOnce: the first of the two to end closes the connection, then unregisters.
CloseConn(c) ==
    IF once[c] = "ready"
    THEN once' = [once EXCEPT ![c] = "closing"] /\ conn' = [conn EXCEPT ![c] = "closed"]
    ELSE UNCHANGED <<once, conn>>

\* A write or a ping fails, or sendCh is closed and empty.
WriterEnds(c) ==
    /\ c \in writing
    /\ conn[c] # "open" \/ (closes[c] > 0 /\ queue[c] = <<>>)
    /\ writing' = writing \ {c}
    /\ CloseConn(c)
    /\ UNCHANGED <<clients, stage, subs, initial, asked, sending, reading, seq, bcast,
                   engine, life>>

\* A read fails, or no pong came before the read deadline.
ReaderEnds(c) ==
    /\ c \in reading
    /\ conn[c] # "open"
    /\ reading' = reading \ {c}
    /\ CloseConn(c)
    /\ UNCHANGED <<clients, stage, subs, initial, asked, sending, writing, seq, bcast,
                   engine, life>>

Unregister(c) ==
    /\ once[c] = "closing"
    /\ Unlocked
    /\ clients' = clients \ {c}
    /\ once' = [once EXCEPT ![c] = "done"]
    /\ UNCHANGED <<client, sending, writing, reading, seq, bcast, engine, life>>

ReadAction(c, a) ==
    /\ c \in reading
    /\ conn[c] = "open"
    /\ asked[c] < MaxActions
    /\ asked' = [asked EXCEPT ![c] = @ + 1]
    /\ subs' = [subs EXCEPT ![c] = IF a.op = "subscribe"
                                   THEN Subscribe(@, a.types, a.symbols)
                                   ELSE Unsubscribe(@, a.types, a.symbols)]
    /\ UNCHANGED <<clients, stage, conn, initial, sending, goroutines, seq, bcast, engine, life>>

-----------------------------------------------------------------------------
(* Broadcast *)

\* h.seq.Add(1), before any lock, of a message that can be marshalled.
Number(b, type, symbol, value) ==
    /\ bcast[b].at = "idle"
    /\ seq < MaxSeq
    /\ seq' = seq + 1
    /\ bcast' = [bcast EXCEPT ![b] = Call("numbered",
          [seq |-> seq + 1, by |-> b, type |-> type, symbol |-> symbol, value |-> value], {}, {})]
    /\ UNCHANGED <<clients, client, sending, goroutines, engine, life>>

Heartbeat == ~swept /\ Number("hub", "heartbeat", NoSymbol, 0)
BroadcastTick(s) == \E v \in 1..MaxTick :
    published[s] < v /\ v <= latest[s] /\ Number("loop", "latest_price", s, v)
BroadcastSourceStatus(b, s) == Number(b, "source_status", s, 0)

\* A message that cannot be marshalled: its number is used up, nobody is sent it.
MarshalFails(b) ==
    /\ bcast[b].at = "idle"
    /\ b = "hub" => ~swept
    /\ seq < MaxSeq
    /\ seq' = seq + 1
    /\ UNCHANGED <<clients, client, sending, goroutines, bcast, engine, life>>

LockClients(b) ==
    /\ bcast[b].at = "numbered"
    /\ bcast' = [bcast EXCEPT ![b] = Call("sending", @.msg, clients, {})]
    /\ UNCHANGED <<clients, client, sending, goroutines, seq, engine, life>>

\* Mutant: one drop more.
TooSlowLate(n) == n > MaxDrops

TooSlow(n) == n >= MaxDrops

\* One client of the loop: not wanted, queued, or dropped and counted.
SendTo(b, c) ==
    LET msg == bcast[b].msg
        wanted == Wants(subs[c], msg.type, msg.symbol)
        dropped == wanted /\ Len(queue[c]) >= SendBuffer
    IN  /\ bcast[b].at = "sending"
        /\ c \in bcast[b].todo
        /\ queue' = IF wanted /\ ~dropped THEN [queue EXCEPT ![c] = Append(@, msg)] ELSE queue
        /\ drops' = IF dropped THEN [drops EXCEPT ![c] = @ + 1] ELSE drops
        /\ bcast' = [bcast EXCEPT ![b] = Call("sending", msg, @.todo \ {c},
              @.evict \cup (IF dropped /\ TooSlow(drops[c] + 1) THEN {c} ELSE {}))]
        /\ UNCHANGED <<clients, client, closes, taken, goroutines, seq, engine, life>>

UnlockClients(b) ==
    LET msg == bcast[b].msg
    IN  /\ bcast[b].at = "sending"
        /\ bcast[b].todo = {}
        /\ bcast' = [bcast EXCEPT ![b] = IF @.evict = {} THEN Idle
                                          ELSE Call("evicting", msg, {}, @.evict)]
        /\ published' = IF b = "loop" THEN [published EXCEPT ![msg.symbol] = msg.value]
                        ELSE published
        /\ UNCHANGED <<clients, client, sending, goroutines, seq, latest, life>>

\* close(c.sendCh) and c.conn.Close() of clients in the map.
CloseClients(gone) ==
    /\ closes' = [c \in Clients |-> IF c \in gone THEN closes[c] + 1 ELSE closes[c]]
    /\ conn' = [c \in Clients |-> IF c \in gone THEN "closed" ELSE conn[c]]
    /\ clients' = clients \ gone

\* Mutant: a client another call already took away is closed again.
EvictAgain(b) ==
    /\ bcast[b].at = "evicting"
    /\ Unlocked
    /\ CloseClients(bcast[b].evict)
    /\ bcast' = [bcast EXCEPT ![b] = Idle]
    /\ UNCHANGED <<stage, subs, initial, asked, queue, drops, taken, goroutines, seq,
                   engine, life>>

EvictClients(b) ==
    /\ bcast[b].at = "evicting"
    /\ Unlocked
    /\ CloseClients(bcast[b].evict \cap clients)
    /\ bcast' = [bcast EXCEPT ![b] = Idle]
    /\ UNCHANGED <<stage, subs, initial, asked, queue, drops, taken, goroutines, seq,
                   engine, life>>

-----------------------------------------------------------------------------
Cancel ==
    /\ ~cancelled /\ cancelled' = TRUE
    /\ UNCHANGED <<clients, client, sending, goroutines, seq, bcast, engine, swept>>

\* Mutant: the sweep only empties the map.
ShutdownForgetting ==
    /\ cancelled /\ ~swept
    /\ bcast["hub"].at = "idle"
    /\ Unlocked
    /\ clients' = {} /\ swept' = TRUE
    /\ UNCHANGED <<client, sending, goroutines, seq, bcast, engine, cancelled>>

\* Run sees ctx.Done(): shutdownClients, and no heartbeat from then on.
ShutdownClients ==
    /\ cancelled /\ ~swept
    /\ bcast["hub"].at = "idle"
    /\ Unlocked
    /\ CloseClients(clients)
    /\ swept' = TRUE
    /\ UNCHANGED <<stage, subs, initial, asked, queue, drops, taken, goroutines, seq, bcast,
                   engine, cancelled>>

\* The engine of a symbol emits a tick.
EngineTick(s) ==
    /\ latest[s] < MaxTick
    /\ latest' = [latest EXCEPT ![s] = @ + 1]
    /\ UNCHANGED <<clients, client, sending, goroutines, seq, bcast, published, life>>

HandleWS(c) == Register(c) \/ SendWelcome(c) \/ SendInitialState(c) \/ HandshakeFails(c)
Serve(c) == WriteMessage(c) \/ WriterEnds(c) \/ ReaderEnds(c) \/ Unregister(c)
Deliver(b) ==
    LockClients(b) \/ (\E c \in Clients : SendTo(b, c)) \/ UnlockClients(b) \/ EvictClients(b)

Next ==
    \/ \E c \in Clients :
        \/ \E r \in Requests : Connect(c, r)
        \/ HandleWS(c) \/ PeerGone(c) \/ Serve(c)
        \/ \E a \in Actions : ReadAction(c, a)
    \/ Heartbeat
    \/ \E s \in Symbols : BroadcastTick(s) \/ EngineTick(s)
    \/ \E b \in Adapters, s \in Symbols : BroadcastSourceStatus(b, s)
    \/ \E b \in Broadcasters : MarshalFails(b) \/ Deliver(b)
    \/ Cancel \/ ShutdownClients

Spec == Init /\ [][Next]_vars

\* Goroutines run, writes have deadlines, RWMutex does not starve its writers.
FairSpec ==
    /\ Spec
    /\ \A c \in Clients :
        /\ WF_vars(HandleWS(c))
        /\ WF_vars(WriterEnds(c)) /\ WF_vars(ReaderEnds(c)) /\ SF_vars(Unregister(c))
    /\ \A b \in Broadcasters :
        /\ WF_vars(LockClients(b)) /\ WF_vars(\E c \in Clients : SendTo(b, c))
        /\ WF_vars(UnlockClients(b)) /\ SF_vars(EvictClients(b))
    /\ SF_vars(ShutdownClients)
-----------------------------------------------------------------------------
(* Properties *)

Sent(c) == taken[c] \o queue[c]

TypeOK ==
    /\ clients \subseteq Clients
    /\ stage \in [Clients -> {"away", "upgraded", "refused", "registered", "welcomed",
                              "failed", "live"}]
    /\ conn \in [Clients -> {"none", "open", "lost", "closed"}]
    /\ subs \in [Clients -> Subs]
    /\ initial \in [Clients -> [Symbols -> Nat]]
    /\ asked \in [Clients -> Nat] /\ drops \in [Clients -> Nat] /\ closes \in [Clients -> Nat]
    /\ queue \in [Clients -> Seq(Message)] /\ taken \in [Clients -> Seq(Message)]
    /\ writing \subseteq Clients /\ reading \subseteq Clients
    /\ once \in [Clients -> {"ready", "closing", "done"}]
    /\ seq \in 0..MaxSeq
    /\ bcast \in [Broadcasters -> [at : {"idle", "numbered", "sending", "evicting"},
                                   msg : Message \cup {NoMessage},
                                   todo : SUBSET Clients, evict : SUBSET Clients]]
    /\ latest \in [Symbols -> Nat] /\ published \in [Symbols -> Nat]
    /\ cancelled \in BOOLEAN /\ swept \in BOOLEAN

\* A client's queue is closed at most once, and never while a broadcaster could
\* still find the client in the map: the program does not panic on a closed
\* channel, whoever of eviction, shutdown, reader, writer or handshake comes first.
ClosedOnce == \A c \in Clients : closes[c] <= (IF c \in clients THEN 0 ELSE 1)

\* Nobody is sent a message twice, although several broadcasters number and send
\* messages at the same time.
UniqueSeq == \A c \in Clients : \A i, j \in DOMAIN Sent(c) :
    Sent(c)[i].seq = Sent(c)[j].seq => i = j

\* The last price of s a client has been told.
Known(c, s) ==
    {initial[c][s]} \cup {Sent(c)[i].value : i \in
        {j \in DOMAIN Sent(c) : Sent(c)[j].type = "latest_price" /\ Sent(c)[j].symbol = s}}

\* A client is registered before its initial state is read, so no tick falls
\* between the two: a client that dropped nothing and asked for nothing knows
\* every price whose broadcast is complete, or a newer one.
CaughtUp == \A c \in clients, s \in Symbols :
    stage[c] = "live" /\ drops[c] = 0 /\ asked[c] = 0 /\ Wants(subs[c], "latest_price", s)
        => \E v \in Known(c, s) : v >= published[s]

\* The hub as the promise of ClientStream.
Stream == INSTANCE ClientStream WITH
    members <- clients,
    former <- {c \in Clients \ clients : stage[c] \in {"registered", "welcomed", "live", "failed"}},
    closed <- {c \in Clients : closes[c] > 0},
    stream <- [c \in Clients |-> Sent(c)]
StreamSpec == Stream!StreamSpec

\* A registered client whose connection is gone leaves the hub, and neither of
\* its goroutines stays behind.
GoneLeaves == \A c \in Clients :
    (stage[c] = "live" /\ conn[c] # "open") ~> (c \notin clients \cup writing \cup reading)

\* A client that has dropped max_drops messages is taken out of the hub.
SlowLeaves == \A c \in Clients : drops[c] >= MaxDrops ~> c \notin clients

\* Every client that is registered when the hub stops is disconnected.
ShutdownReachesAll == \A c \in Clients :
    (cancelled /\ ~swept /\ c \in clients) ~> conn[c] = "closed"
=============================================================================
