---------------------------- MODULE WSHub_proofs ----------------------------
(***************************************************************************)
(* For any number of connections and broadcasters, any limit and any       *)
(* buffers: no queue is closed twice, nobody is sent a message twice, the   *)
(* hub implements ClientStream, so that the limit is kept and each          *)
(* broadcaster's messages arrive in the order of their numbers, and a      *)
(* client that drops nothing knows every price broadcast since it came.    *)
(***************************************************************************)
EXTENDS WSHub, SequenceTheorems, FiniteSetTheorems, TLAPS

\* A message that is queued is the last of what the client is sent.
LEMMA PushIsAppend ==
    ASSUME NEW T, NEW t \in Seq(T), NEW q \in Seq(T), NEW m \in T
    PROVE  /\ Append(q, m) \in Seq(T)
           /\ t \o q \in Seq(T)
           /\ t \o Append(q, m) \in Seq(T)
           /\ t \o Append(q, m) = Append(t \o q, m)
           /\ Len(t \o Append(q, m)) = Len(t \o q) + 1
           /\ (t \o Append(q, m))[Len(t \o q) + 1] = m
           /\ \A i \in DOMAIN (t \o Append(q, m)) :
                  \/ i \in DOMAIN (t \o q) /\ (t \o Append(q, m))[i] = (t \o q)[i]
                  \/ i = Len(t \o q) + 1 /\ (t \o Append(q, m))[i] = m
<1>1. Append(q, m) \in Seq(T) /\ t \o q \in Seq(T) /\ t \o Append(q, m) \in Seq(T)
  BY AppendProperties, ConcatProperties
<1>2. /\ t \o Append(q, m) = Append(t \o q, m)
      /\ Len(t \o Append(q, m)) = Len(t \o q) + 1
      /\ (t \o Append(q, m))[Len(t \o q) + 1] = m
  BY AppendProperties, ConcatProperties
<1>3. \A i \in DOMAIN (t \o Append(q, m)) :
          \/ i \in DOMAIN (t \o q) /\ (t \o Append(q, m))[i] = (t \o q)[i]
          \/ i = Len(t \o q) + 1 /\ (t \o Append(q, m))[i] = m
  <2> DEFINE s == t \o q
  <2>1. s \in Seq(T)
    BY <1>1
  <2> HIDE DEF s
  <2>2. \A i \in DOMAIN Append(s, m) : \/ i \in DOMAIN s /\ Append(s, m)[i] = s[i]
                                       \/ i = Len(s) + 1 /\ Append(s, m)[i] = m
    BY <2>1, AppendProperties
  <2>3. QED
    BY <1>2, <2>2 DEF s
<1>4. QED
  BY <1>1, <1>2, <1>3

\* The writer takes the oldest message: what the client is sent stays the same.
LEMMA TakeKeeps ==
    ASSUME NEW T, NEW t \in Seq(T), NEW q \in Seq(T), q # <<>>
    PROVE  /\ Append(t, Head(q)) \in Seq(T)
           /\ Tail(q) \in Seq(T)
           /\ Append(t, Head(q)) \o Tail(q) = t \o q
<1>1. /\ Append(t, Head(q)) \in Seq(T) /\ Tail(q) \in Seq(T)
      /\ t \o q \in Seq(T) /\ Append(t, Head(q)) \o Tail(q) \in Seq(T)
  OBVIOUS
<1>2. Len(Append(t, Head(q)) \o Tail(q)) = Len(t \o q)
  OBVIOUS
<1>3. \A i \in 1..Len(t \o q) : (Append(t, Head(q)) \o Tail(q))[i] = (t \o q)[i]
  OBVIOUS
<1>4. QED
  BY <1>1, <1>2, <1>3, SeqEqual

-----------------------------------------------------------------------------
(* Types *)

\* What a broadcaster is doing.
BcastType == [at : {"idle", "numbered", "sending", "evicting"}, msg : Message \cup {NoMessage},
              todo : SUBSET Clients, evict : SUBSET Clients]

\* A broadcaster that does nothing has its type.
LEMMA IdleTyped == Idle \in BcastType /\ Idle.at = "idle" /\ Idle.evict = {} /\ Idle.todo = {}
  BY DEF Idle, Call, BcastType

\* The subscriptions stay subscriptions.
LEMMA SubsTyped ==
    ASSUME NEW s \in Subs
    PROVE  /\ \A r \in Requests : SetSymbols(s, r) \in Subs
           /\ \A a \in Actions : /\ Subscribe(s, a.types, a.symbols) \in Subs
                                 /\ Unsubscribe(s, a.types, a.symbols) \in Subs
<1>1. ASSUME NEW r \in Requests PROVE SetSymbols(s, r) \in Subs
  BY HubAssumption DEF SetSymbols, Subs
<1>2. ASSUME NEW a \in Actions
      PROVE  Subscribe(s, a.types, a.symbols) \in Subs /\ Unsubscribe(s, a.types, a.symbols) \in Subs
  BY HubAssumption DEF Subscribe, Unsubscribe, EffectiveSymbols, Subs, Types
<1>3. QED
  BY <1>1, <1>2

\* The types of the state of the connections.
ClientTypes ==
    /\ clients \subseteq Clients
    /\ stage \in [Clients -> {"away", "upgraded", "refused", "registered", "welcomed",
                              "failed", "live"}]
    /\ conn \in [Clients -> {"none", "open", "lost", "closed"}]
    /\ subs \in [Clients -> Subs]
    /\ initial \in [Clients -> [Symbols -> Nat]]
    /\ asked \in [Clients -> Nat]
    /\ writing \subseteq Clients /\ reading \subseteq Clients
    /\ once \in [Clients -> {"ready", "closing", "done"}]

\* The types of the state of the broadcasts.
SendTypes ==
    /\ queue \in [Clients -> Seq(Message)] /\ taken \in [Clients -> Seq(Message)]
    /\ drops \in [Clients -> Nat] /\ closes \in [Clients -> Nat]
    /\ seq \in 0..MaxSeq
    /\ bcast \in [Broadcasters -> BcastType]
    /\ \A b \in Broadcasters : bcast[b].at # "idle" => bcast[b].msg \in Message
    /\ latest \in [Symbols -> Nat] /\ published \in [Symbols -> Nat]
    /\ cancelled \in BOOLEAN /\ swept \in BOOLEAN

\* The two groups make the type invariant.
LEMMA TypesAre == ClientTypes /\ SendTypes => TypeOK
  BY DEF TypeOK, ClientTypes, SendTypes, BcastType

\* The connections keep their types.
LEMMA ClientTypesStep == ClientTypes /\ SendTypes /\ [Next]_vars => ClientTypes'
<1> SUFFICES ASSUME ClientTypes, SendTypes, [Next]_vars PROVE ClientTypes'
  OBVIOUS
<1> USE DEF ClientTypes
<1>1. ASSUME NEW c \in Clients, NEW r \in Requests, Connect(c, r) PROVE ClientTypes'
  <2>1. SetSymbols(subs[c], r) \in Subs
    BY SubsTyped
  <2>2. subs' \in [Clients -> Subs]
    BY <1>1, <2>1 DEF Connect
  <2>3. QED
    BY <1>1, <2>2 DEF Connect, goroutines
<1>2. ASSUME NEW c \in Clients, Register(c) \/ SendWelcome(c) \/ HandshakeFails(c) \/ PeerGone(c)
      PROVE  ClientTypes'
  BY <1>2 DEF Register, SendWelcome, HandshakeFails, PeerGone, goroutines
<1>3. ASSUME NEW c \in Clients, SendInitialState(c) PROVE ClientTypes'
  <2>1. InitialState(c) \in [Symbols -> Nat]
    BY DEF InitialState, SendTypes
  <2>2. QED
    BY <1>3, <2>1 DEF SendInitialState
<1>4. ASSUME NEW c \in Clients, Serve(c) PROVE ClientTypes'
  BY <1>4 DEF Serve, WriteMessage, WriterEnds, ReaderEnds, Unregister, CloseConn, client, goroutines
<1>5. ASSUME NEW c \in Clients, NEW a \in Actions, ReadAction(c, a) PROVE ClientTypes'
  BY <1>5, SubsTyped DEF ReadAction, goroutines
<1>6. ASSUME NEW b \in Broadcasters, NEW type, NEW symbol, NEW value, Number(b, type, symbol, value)
      PROVE  ClientTypes'
  BY <1>6 DEF Number, client, goroutines
<1>7. ASSUME NEW b \in Broadcasters, Deliver(b) PROVE ClientTypes'
  BY <1>7 DEF Deliver, LockClients, SendTo, UnlockClients, EvictClients, CloseClients, client,
              goroutines
<1>8. ASSUME NEW s \in Symbols, EngineTick(s) PROVE ClientTypes'
  BY <1>8 DEF EngineTick, client, goroutines
<1>9. CASE Cancel \/ ShutdownClients \/ UNCHANGED vars
  BY <1>9 DEF Cancel, ShutdownClients, CloseClients, vars, client, goroutines
<1>10. ASSUME NEW b \in Broadcasters, MarshalFails(b) PROVE ClientTypes'
  BY <1>10 DEF MarshalFails, client, goroutines
<1>11. QED
  BY <1>1, <1>2, <1>3, <1>4, <1>5, <1>6, <1>7, <1>8, <1>9, <1>10
     DEF Next, HandleWS, Heartbeat, BroadcastTick, BroadcastSourceStatus, Broadcasters

\* What the first step of any broadcast does.
Numbered(b, msg) ==
    /\ bcast[b].at = "idle"
    /\ msg.seq = seq + 1 /\ msg.by = b
    /\ seq' = seq + 1 /\ seq' \in 0..MaxSeq
    /\ bcast' = [bcast EXCEPT ![b] = Call("numbered", msg, {}, {})]
    /\ UNCHANGED <<clients, client, sending, goroutines, engine, life>>

\* What is numbered is a message.
LEMMA Numbers ==
    ASSUME NEW b \in Broadcasters, NEW type \in Types, NEW symbol \in Symbols \cup {NoSymbol},
           NEW value \in 0..MaxTick, SendTypes, Number(b, type, symbol, value)
    PROVE  \E msg \in Message : Numbered(b, msg)
<1> DEFINE msg == [seq |-> seq + 1, by |-> b, type |-> type, symbol |-> symbol, value |-> value]
<1>1. msg \in Message /\ msg.seq = seq + 1 /\ msg.by = b
  BY HubAssumption DEF Message, SendTypes, Number
<1>2. seq' \in 0..MaxSeq
  BY HubAssumption DEF SendTypes, Number
<1>3. QED
  BY <1>1, <1>2 DEF Number, Numbered

\* Heartbeats, ticks and source states are numbered alike.
LEMMA AllNumbered ==
    ASSUME SendTypes,
           \/ Heartbeat
           \/ \E s \in Symbols : BroadcastTick(s)
           \/ \E b \in Adapters, s \in Symbols : BroadcastSourceStatus(b, s)
    PROVE  \E b \in Broadcasters : \E msg \in Message : Numbered(b, msg)
<1>1. /\ {"hub", "loop"} \cup Adapters \subseteq Broadcasters
      /\ {"heartbeat", "latest_price", "source_status"} \subseteq Types
      /\ 0 \in 0..MaxTick
  BY HubAssumption DEF Broadcasters, Types
<1>2. CASE Heartbeat
  <2>1. Number("hub", "heartbeat", NoSymbol, 0)
    BY <1>2 DEF Heartbeat
  <2>2. QED
    BY <1>1, <2>1, Numbers
<1>3. ASSUME NEW s \in Symbols, BroadcastTick(s)
      PROVE  \E b \in Broadcasters : \E msg \in Message : Numbered(b, msg)
  <2>1. PICK v \in 1..MaxTick : Number("loop", "latest_price", s, v)
    BY <1>3 DEF BroadcastTick
  <2>2. v \in 0..MaxTick
    BY HubAssumption
  <2>3. QED
    BY <1>1, <2>1, <2>2, Numbers
<1>4. ASSUME NEW b \in Adapters, NEW s \in Symbols, BroadcastSourceStatus(b, s)
      PROVE  \E b2 \in Broadcasters : \E msg \in Message : Numbered(b2, msg)
  <2>1. Number(b, "source_status", s, 0)
    BY <1>4 DEF BroadcastSourceStatus
  <2>2. QED
    BY <1>1, <2>1, Numbers
<1>5. QED
  BY <1>2, <1>3, <1>4

\* The broadcasts keep their types.
LEMMA SendTypesStep == ClientTypes /\ SendTypes /\ [Next]_vars => SendTypes'
<1> SUFFICES ASSUME ClientTypes, SendTypes, [Next]_vars PROVE SendTypes'
  OBVIOUS
<1> USE DEF SendTypes
<1>1. ASSUME NEW c \in Clients,
             \/ \E r \in Requests : Connect(c, r)
             \/ HandleWS(c) \/ PeerGone(c)
             \/ \E a \in Actions : ReadAction(c, a)
      PROVE  SendTypes'
  BY <1>1 DEF Connect, HandleWS, Register, SendWelcome, SendInitialState, HandshakeFails, PeerGone,
              ReadAction, sending, engine, life
<1>2. ASSUME NEW c \in Clients, WriteMessage(c) PROVE SendTypes'
  <2>1. Append(taken[c], Head(queue[c])) \in Seq(Message) /\ Tail(queue[c]) \in Seq(Message)
    BY <1>2, TakeKeeps DEF WriteMessage
  <2>2. QED
    BY <1>2, <2>1 DEF WriteMessage, engine, life
<1>3. ASSUME NEW c \in Clients, WriterEnds(c) \/ ReaderEnds(c) \/ Unregister(c) PROVE SendTypes'
  BY <1>3 DEF WriterEnds, ReaderEnds, Unregister, sending, engine, life
<1>4. CASE \/ Heartbeat
           \/ \E s \in Symbols : BroadcastTick(s)
           \/ \E b \in Adapters, s \in Symbols : BroadcastSourceStatus(b, s)
  <2>1. PICK b \in Broadcasters : \E m \in Message : Numbered(b, m)
    BY <1>4, AllNumbered
  <2>2. PICK msg \in Message : Numbered(b, msg)
    BY <2>1
  <2>3. Call("numbered", msg, {}, {}) \in BcastType /\ Call("numbered", msg, {}, {}).msg = msg
    BY DEF Call, BcastType
  <2>4. QED
    BY <2>2, <2>3 DEF Numbered, sending, engine, life
<1>5. ASSUME NEW b \in Broadcasters, LockClients(b) PROVE SendTypes'
  <2>1. /\ bcast[b].msg \in Message
        /\ Call("sending", bcast[b].msg, clients, {}) \in BcastType
        /\ Call("sending", bcast[b].msg, clients, {}).msg \in Message
    BY <1>5 DEF Call, BcastType, LockClients, ClientTypes
  <2>2. QED
    BY <1>5, <2>1 DEF LockClients, sending, engine, life
<1>6. ASSUME NEW b \in Broadcasters, NEW c \in Clients, SendTo(b, c) PROVE SendTypes'
  <2> DEFINE dropped == Wants(subs[c], bcast[b].msg.type, bcast[b].msg.symbol)
                            /\ Len(queue[c]) >= SendBuffer
             late == bcast[b].evict \cup (IF dropped /\ TooSlow(drops[c] + 1) THEN {c} ELSE {})
             call == Call("sending", bcast[b].msg, bcast[b].todo \ {c}, late)
  <2>1. bcast[b].msg \in Message /\ bcast[b].todo \subseteq Clients /\ bcast[b].evict \subseteq Clients
    BY <1>6 DEF SendTo, BcastType
  <2>2. call \in BcastType /\ call.msg \in Message
    BY <2>1 DEF Call, BcastType
  <2>3. bcast' = [bcast EXCEPT ![b] = call]
    BY <1>6 DEF SendTo
  <2>4. /\ bcast' \in [Broadcasters -> BcastType]
        /\ \A b2 \in Broadcasters : bcast'[b2].at # "idle" => bcast'[b2].msg \in Message
    <3> HIDE DEF call
    <3> QED BY <2>2, <2>3
  <2>5. queue' \in [Clients -> Seq(Message)]
    BY <1>6, <2>1 DEF SendTo
  <2>6. drops' \in [Clients -> Nat]
    BY <1>6 DEF SendTo
  <2>7. QED
    BY <1>6, <2>4, <2>5, <2>6 DEF SendTo, engine, life
<1>7. ASSUME NEW b \in Broadcasters, UnlockClients(b) \/ EvictClients(b) PROVE SendTypes'
  <2> DEFINE call == Call("evicting", bcast[b].msg, {}, bcast[b].evict)
  <2>1. bcast[b].msg \in Message /\ bcast[b].evict \subseteq Clients
    BY <1>7 DEF UnlockClients, EvictClients, BcastType
  <2>0. call \in BcastType /\ call.msg \in Message
    BY <2>1 DEF Call, BcastType
  <2>2. bcast' = [bcast EXCEPT ![b] = call] \/ bcast' = [bcast EXCEPT ![b] = Idle]
    BY <1>7 DEF UnlockClients, EvictClients
  <2>3. /\ bcast' \in [Broadcasters -> BcastType]
        /\ \A b2 \in Broadcasters : bcast'[b2].at # "idle" => bcast'[b2].msg \in Message
    <3> HIDE DEF call
    <3> QED BY <2>0, <2>2, IdleTyped
  <2>4. published' \in [Symbols -> Nat]
    <3>1. bcast[b].msg.value \in Nat
      BY <2>1, HubAssumption DEF Message
    <3>2. CASE UnlockClients(b)
      BY <3>1, <3>2 DEF UnlockClients
    <3>3. CASE EvictClients(b)
      BY <3>3 DEF EvictClients, engine
    <3>4. QED
      BY <1>7, <3>2, <3>3
  <2>5. closes' \in [Clients -> Nat]
    <3>1. CASE UnlockClients(b)
      BY <3>1 DEF UnlockClients, sending
    <3>2. CASE EvictClients(b)
      BY <3>2 DEF EvictClients, CloseClients
    <3>3. QED
      BY <1>7, <3>1, <3>2
  <2>6. UNCHANGED <<queue, taken, drops, seq, latest, cancelled, swept>>
    BY <1>7 DEF UnlockClients, EvictClients, sending, engine, life
  <2>7. QED
    BY <2>3, <2>4, <2>5, <2>6
<1>8. ASSUME NEW s \in Symbols, EngineTick(s) PROVE SendTypes'
  BY <1>8 DEF EngineTick, sending, life
<1>8a. ASSUME NEW b \in Broadcasters, MarshalFails(b) PROVE SendTypes'
  BY <1>8a, HubAssumption DEF MarshalFails, sending, engine, life
<1>9. CASE Cancel \/ ShutdownClients \/ UNCHANGED vars
  <2>1. closes' \in [Clients -> Nat] /\ cancelled' \in BOOLEAN /\ swept' \in BOOLEAN
    <3>1. CASE Cancel
      BY <3>1 DEF Cancel, sending
    <3>2. CASE ShutdownClients
      BY <3>2 DEF ShutdownClients, CloseClients
    <3>3. CASE UNCHANGED vars
      BY <3>3 DEF vars, sending, life
    <3>4. QED
      BY <1>9, <3>1, <3>2, <3>3
  <2>2. UNCHANGED <<queue, taken, drops, seq, bcast, latest, published>>
    BY <1>9 DEF Cancel, ShutdownClients, vars, sending, engine
  <2>3. QED
    BY <2>1, <2>2
<1>10. QED
  BY <1>1, <1>2, <1>3, <1>4, <1>5, <1>6, <1>7, <1>8, <1>8a, <1>9 DEF Next, Serve, Deliver

-----------------------------------------------------------------------------
(* Who is a client, and whose queue is closed *)

\* A client of the map has been registered; a connection that has not, has an open queue.
Members ==
    /\ \A c \in clients : stage[c] \in {"registered", "welcomed", "live"}
    /\ \A c \in Clients : stage[c] \in {"away", "upgraded", "refused"} => closes[c] = 0
    /\ \A b \in Broadcasters : bcast[b].at = "sending" => bcast[b].todo \subseteq clients

\* While a broadcaster walks over the clients none is added or removed.
LEMMA MembersStep ==
    ClientTypes /\ SendTypes /\ Members /\ ClosedOnce /\ [Next]_vars => Members' /\ ClosedOnce'
<1> SUFFICES ASSUME ClientTypes, SendTypes, Members, ClosedOnce, [Next]_vars
             PROVE  Members' /\ ClosedOnce'
  OBVIOUS
<1> USE DEF ClientTypes, SendTypes, Members, ClosedOnce
<1>1. ASSUME NEW c \in Clients, NEW r \in Requests, Connect(c, r) PROVE Members' /\ ClosedOnce'
  BY <1>1 DEF Connect, sending
<1>2. ASSUME NEW c \in Clients, Register(c) PROVE Members' /\ ClosedOnce'
  <2>1. /\ bcast' = bcast /\ closes' = closes
        /\ \A b \in Broadcasters : bcast'[b].at # "sending"
    BY <1>2 DEF Register, Unlocked, sending
  <2>2. /\ closes[c] = 0
        /\ \/ clients' = clients \cup {c} /\ stage' = [stage EXCEPT ![c] = "registered"]
           \/ clients' = clients /\ c \notin clients /\ stage' = [stage EXCEPT ![c] = "refused"]
    BY <1>2 DEF Register
  <2>3. Members'
    BY <2>1, <2>2
  <2>4. ClosedOnce'
    BY <2>1, <2>2
  <2>5. QED
    BY <2>3, <2>4
<1>3. ASSUME NEW c \in Clients, SendWelcome(c) \/ SendInitialState(c) PROVE Members' /\ ClosedOnce'
  BY <1>3 DEF SendWelcome, SendInitialState, sending
<1>3a. ASSUME NEW c \in Clients, HandshakeFails(c) PROVE Members' /\ ClosedOnce'
  <2>1. /\ bcast' = bcast /\ closes' = closes /\ clients' = clients \ {c}
        /\ \A b \in Broadcasters : bcast'[b].at # "sending"
        /\ stage' = [stage EXCEPT ![c] = "failed"]
    BY <1>3a DEF HandshakeFails, Unlocked, sending
  <2>2. QED
    BY <2>1
<1>4. ASSUME NEW c \in Clients,
             \/ PeerGone(c) \/ Serve(c)
             \/ \E a \in Actions : ReadAction(c, a)
      PROVE  Members' /\ ClosedOnce'
  BY <1>4 DEF PeerGone, ReadAction, Serve, WriteMessage, WriterEnds, ReaderEnds, Unregister,
              Unlocked, client, sending
<1>5. CASE \/ Heartbeat
           \/ \E s \in Symbols : BroadcastTick(s)
           \/ \E b \in Adapters, s \in Symbols : BroadcastSourceStatus(b, s)
  <2>1. PICK b \in Broadcasters : \E m \in Message : Numbered(b, m)
    BY <1>5, AllNumbered
  <2>2. PICK msg \in Message : Numbered(b, msg)
    BY <2>1
  <2>3. Call("numbered", msg, {}, {}).at = "numbered"
    BY DEF Call
  <2>4. QED
    BY <2>2, <2>3 DEF Numbered, client, sending
<1>6. ASSUME NEW b \in Broadcasters, LockClients(b) PROVE Members' /\ ClosedOnce'
  BY <1>6 DEF LockClients, Call, client, sending
<1>7. ASSUME NEW b \in Broadcasters, NEW c \in Clients, SendTo(b, c) PROVE Members' /\ ClosedOnce'
  BY <1>7 DEF SendTo, Call, client
<1>8. ASSUME NEW b \in Broadcasters, UnlockClients(b) PROVE Members' /\ ClosedOnce'
  BY <1>8, IdleTyped DEF UnlockClients, Call, client, sending
<1>9. ASSUME NEW b \in Broadcasters, EvictClients(b) PROVE Members' /\ ClosedOnce'
  <2> DEFINE gone == bcast[b].evict \cap clients
  <2>1. /\ stage' = stage /\ clients' = clients \ gone
        /\ closes' = [c \in Clients |-> IF c \in gone THEN closes[c] + 1 ELSE closes[c]]
    BY <1>9 DEF EvictClients, CloseClients
  <2>2. \A b2 \in Broadcasters : bcast'[b2].at # "sending"
    BY <1>9, IdleTyped DEF EvictClients, Unlocked
  <2>3. \A c \in Clients : \/ c \in gone /\ closes'[c] = 1 /\ c \notin clients'
                           \/ c \notin gone /\ closes'[c] = closes[c] /\ (c \in clients' <=> c \in clients)
    BY <2>1
  <2>4. Members'
    BY <2>1, <2>2, <2>3
  <2>5. ClosedOnce'
    BY <2>1, <2>3
  <2>6. QED
    BY <2>4, <2>5
<1>10. CASE ShutdownClients
  <2>1. /\ stage' = stage /\ clients' = {}
        /\ closes' = [c \in Clients |-> IF c \in clients THEN closes[c] + 1 ELSE closes[c]]
        /\ \A b \in Broadcasters : bcast'[b].at # "sending"
    BY <1>10 DEF ShutdownClients, CloseClients, Unlocked
  <2>2. \A c \in Clients : \/ c \in clients /\ closes'[c] = 1
                           \/ c \notin clients /\ closes'[c] = closes[c]
    BY <2>1
  <2>3. Members'
    BY <2>1, <2>2
  <2>4. ClosedOnce'
    BY <2>1, <2>2
  <2>5. QED
    BY <2>3, <2>4
<1>11. CASE \/ Cancel \/ (\E s \in Symbols : EngineTick(s)) \/ UNCHANGED vars
            \/ \E b \in Broadcasters : MarshalFails(b)
  BY <1>11 DEF Cancel, EngineTick, MarshalFails, vars, client, sending
<1>12. QED
  BY <1>3a, <1>1, <1>2, <1>3, <1>4, <1>5, <1>6, <1>7, <1>8, <1>9, <1>10, <1>11
     DEF Next, HandleWS, Deliver

-----------------------------------------------------------------------------
(* What the clients are sent *)

Streams == [c \in Clients |-> Sent(c)]

\* The streams are sequences of messages.
LEMMA StreamsTyped == SendTypes => Streams \in [Clients -> Seq(Message)]
  BY DEF SendTypes, Streams, Sent

\* Only the writer and a broadcast touch a queue.
LEMMA StreamsKept == queue' = queue /\ taken' = taken => Streams' = Streams
  BY DEF Streams, Sent

\* The writer does not change what a client is sent.
LEMMA StreamsTaken ==
    ASSUME SendTypes, NEW c \in Clients, WriteMessage(c)
    PROVE  Streams' = Streams
<1>1. Append(taken[c], Head(queue[c])) \o Tail(queue[c]) = taken[c] \o queue[c]
  BY TakeKeeps DEF WriteMessage, SendTypes
<1>2. /\ taken'[c] \o queue'[c] = taken[c] \o queue[c]
      /\ \A d \in Clients \ {c} : taken'[d] = taken[d] /\ queue'[d] = queue[d]
  BY <1>1 DEF WriteMessage, SendTypes
<1>3. QED
  BY <1>2 DEF Streams, Sent

\* A broadcast appends its message, or nothing.
LEMMA StreamsPushed ==
    ASSUME SendTypes, NEW b \in Broadcasters, NEW c \in Clients, SendTo(b, c)
    PROVE  \/ Streams' = Streams
           \/ Streams' = [Streams EXCEPT ![c] = Append(Streams[c], bcast[b].msg)]
<1> DEFINE msg == bcast[b].msg
<1>1. msg \in Message /\ taken' = taken
  BY DEF SendTo, SendTypes
<1>2. queue' = queue \/ queue' = [queue EXCEPT ![c] = Append(@, msg)]
  BY DEF SendTo
<1>3. taken[c] \o Append(queue[c], msg) = Append(taken[c] \o queue[c], msg)
  BY <1>1, PushIsAppend DEF SendTypes
<1>4. CASE queue' = queue
  BY <1>1, <1>4, StreamsKept
<1>5. CASE queue' = [queue EXCEPT ![c] = Append(@, msg)]
  <2>1. /\ taken'[c] \o queue'[c] = Append(taken[c] \o queue[c], msg)
        /\ \A d \in Clients \ {c} : taken'[d] = taken[d] /\ queue'[d] = queue[d]
    BY <1>1, <1>3, <1>5 DEF SendTypes
  <2>2. QED
    BY <2>1 DEF Streams, Sent
<1>6. QED
  BY <1>2, <1>4, <1>5

\* The broadcast b has still to reach the client c.
Pending(b, c) == bcast[b].at = "numbered" \/ (bcast[b].at = "sending" /\ c \in bcast[b].todo)

\* A message is new to a stream, and later than all of its broadcaster there.
New(msg, s) == \A i \in DOMAIN s : s[i].seq # msg.seq /\ (s[i].by = msg.by => s[i].seq < msg.seq)

\* Numbers are taken before the lock, by several broadcasters at once: each holds a
\* number of its own, and has sent it to nobody it has still to reach.
Calls ==
    /\ \A b \in Broadcasters : bcast[b].at # "idle" => bcast[b].msg.seq <= seq /\ bcast[b].msg.by = b
    /\ \A b1, b2 \in Broadcasters :
           b1 # b2 /\ bcast[b1].at # "idle" /\ bcast[b2].at # "idle"
               => bcast[b1].msg.seq # bcast[b2].msg.seq

Ordered ==
    /\ \A c \in Clients : \A i \in DOMAIN Streams[c] : Streams[c][i].seq <= seq
    /\ \A b \in Broadcasters, c \in Clients : Pending(b, c) => New(bcast[b].msg, Streams[c])
    /\ \A c \in Clients : \A i, j \in DOMAIN Streams[c] :
           Streams[c][i].seq = Streams[c][j].seq => i = j

\* Every broadcaster keeps a number of its own.
LEMMA CallsStep == ClientTypes /\ SendTypes /\ Calls /\ [Next]_vars => Calls'
<1> SUFFICES ASSUME ClientTypes, SendTypes, Calls, [Next]_vars PROVE Calls'
  OBVIOUS
<1> USE DEF SendTypes, Calls
<1>1. CASE bcast' = bcast /\ seq' = seq
  BY <1>1
<1>2. ASSUME NEW b \in Broadcasters, NEW msg \in Message, Numbered(b, msg) PROVE Calls'
  <2>1. /\ bcast'[b].msg = msg
        /\ \A b2 \in Broadcasters : b2 # b => bcast'[b2] = bcast[b2]
    BY <1>2 DEF Numbered, Call
  <2>2. msg.seq = seq + 1 /\ msg.by = b /\ seq' = seq + 1 /\ seq \in Int
    BY <1>2, HubAssumption DEF Numbered
  <2>3. \A b2 \in Broadcasters : bcast[b2].at # "idle" =>
            bcast[b2].msg.seq \in Int /\ bcast[b2].msg.seq <= seq
    BY HubAssumption DEF Message
  <2>4. ASSUME NEW b2 \in Broadcasters, bcast'[b2].at # "idle"
        PROVE  bcast'[b2].msg.seq <= seq' /\ bcast'[b2].msg.by = b2
    <3>1. CASE b2 = b
      BY <2>1, <2>2, <3>1
    <3>2. CASE b2 # b
      BY <2>1, <2>2, <2>3, <2>4, <3>2
    <3>3. QED
      BY <3>1, <3>2
  <2>5. ASSUME NEW b1 \in Broadcasters, NEW b2 \in Broadcasters, b1 # b2,
               bcast'[b1].at # "idle", bcast'[b2].at # "idle"
        PROVE  bcast'[b1].msg.seq # bcast'[b2].msg.seq
    <3>1. CASE b1 = b
      BY <2>1, <2>2, <2>3, <2>5, <3>1
    <3>2. CASE b2 = b
      BY <2>1, <2>2, <2>3, <2>5, <3>2
    <3>3. CASE b1 # b /\ b2 # b
      BY <2>1, <2>5, <3>3
    <3>4. QED
      BY <3>1, <3>2, <3>3
  <2>6. QED
    BY <2>4, <2>5
<1>3. ASSUME NEW b \in Broadcasters,
             \/ LockClients(b) \/ UnlockClients(b) \/ EvictClients(b)
             \/ \E c \in Clients : SendTo(b, c)
      PROVE  Calls'
  <2>1. seq' = seq /\ bcast[b].at # "idle"
    BY <1>3 DEF LockClients, SendTo, UnlockClients, EvictClients
  <2>2. \A b2 \in Broadcasters :
            \/ b2 = b /\ (bcast'[b2].at = "idle" \/ bcast'[b2].msg = bcast[b2].msg)
            \/ b2 # b /\ bcast'[b2] = bcast[b2]
    BY <1>3, IdleTyped DEF LockClients, SendTo, UnlockClients, EvictClients, Call
  <2>3. ASSUME NEW b2 \in Broadcasters, bcast'[b2].at # "idle"
        PROVE  bcast[b2].at # "idle" /\ bcast'[b2].msg = bcast[b2].msg
    BY <2>1, <2>2, <2>3
  <2>4. QED
    BY <2>1, <2>3
<1>4. ASSUME NEW b \in Broadcasters, MarshalFails(b) PROVE Calls'
  <2>1. bcast' = bcast /\ seq \in Int /\ seq' = seq + 1
    BY <1>4, HubAssumption DEF MarshalFails
  <2>2. \A b2 \in Broadcasters : bcast[b2].at # "idle" => bcast[b2].msg.seq \in Int
    BY HubAssumption DEF Message
  <2>3. QED
    BY <2>1, <2>2
<1>5. QED
  <2>1. \/ bcast' = bcast /\ seq' = seq
        \/ \E b \in Broadcasters : MarshalFails(b)
        \/ \E b \in Broadcasters : \E msg \in Message : Numbered(b, msg)
        \/ \E b \in Broadcasters : Deliver(b)
    BY AllNumbered DEF Next, Connect, HandleWS, Register, SendWelcome, SendInitialState,
           HandshakeFails, PeerGone, Serve, WriteMessage, WriterEnds, ReaderEnds, Unregister,
           ReadAction, Cancel, ShutdownClients, EngineTick, vars
  <2>2. QED
    BY <2>1, <1>1, <1>2, <1>3, <1>4 DEF Deliver

\* What a broadcast sends is new to the streams it still has to reach.
LEMMA OrderedStep ==
    ClientTypes /\ SendTypes /\ Members /\ Calls /\ Ordered /\ [Next]_vars => Ordered'
<1> SUFFICES ASSUME ClientTypes, SendTypes, Members, Calls, Ordered, [Next]_vars PROVE Ordered'
  OBVIOUS
<1> USE DEF Ordered, New, Pending
<1>1. Streams \in [Clients -> Seq(Message)]
  BY StreamsTyped
<1>2. \A c \in Clients : \A i \in DOMAIN Streams[c] : Streams[c][i].seq \in Int
  <2> TAKE c \in Clients
  <2> TAKE i \in DOMAIN Streams[c]
  <2>1. Streams[c][i] \in Message
    BY <1>1
  <2>2. QED
    BY <2>1 DEF Message
<1>3. CASE Streams' = Streams /\ bcast' = bcast /\ seq' = seq
  BY <1>3
<1>4. ASSUME NEW b \in Broadcasters, NEW msg \in Message, Numbered(b, msg) PROVE Ordered'
  <2>1. /\ bcast'[b].msg = msg
        /\ \A b2 \in Broadcasters : b2 # b => bcast'[b2] = bcast[b2]
    BY <1>4 DEF Numbered, Call, SendTypes
  <2>2. msg.seq = seq + 1 /\ seq' = seq + 1 /\ seq \in Int
    BY <1>4, HubAssumption DEF Numbered, SendTypes
  <2>3. Streams' = Streams
    BY <1>4, StreamsKept DEF Numbered, sending
  <2>4. \A c \in Clients : \A i \in DOMAIN Streams[c] : Streams[c][i].seq < msg.seq
    BY <1>2, <2>2
  <2>5. ASSUME NEW b2 \in Broadcasters, NEW c \in Clients, Pending(b2, c)'
        PROVE  New(bcast[b2].msg, Streams[c])'
    <3>1. CASE b2 = b
      BY <1>2, <2>1, <2>2, <2>3, <2>4, <3>1
    <3>2. CASE b2 # b
      BY <2>1, <2>3, <2>5, <3>2
    <3>3. QED
      BY <3>1, <3>2
  <2>6. \A c \in Clients : \A i \in DOMAIN Streams'[c] : Streams'[c][i].seq <= seq'
    BY <1>2, <2>2, <2>3
  <2>7. QED
    BY <2>3, <2>5, <2>6
<1>5. ASSUME NEW b \in Broadcasters, LockClients(b) \/ UnlockClients(b) \/ EvictClients(b)
      PROVE  Ordered'
  <2>1. Streams' = Streams /\ seq' = seq
    BY <1>5, StreamsKept DEF LockClients, UnlockClients, EvictClients, sending
  <2>2. ASSUME NEW b2 \in Broadcasters, NEW c \in Clients, Pending(b2, c)'
        PROVE  Pending(b2, c) /\ bcast'[b2].msg = bcast[b2].msg
    <3>1. CASE LockClients(b)
      BY <2>2, <3>1 DEF LockClients, Call, SendTypes
    <3>2. CASE UnlockClients(b) \/ EvictClients(b)
      <4>1. bcast'[b].at \in {"idle", "evicting"} /\ (b2 # b => bcast'[b2] = bcast[b2])
        BY <3>2, IdleTyped DEF UnlockClients, EvictClients, Call, SendTypes
      <4>2. QED
        BY <2>2, <4>1
    <3>3. QED
      BY <1>5, <3>1, <3>2
  <2>3. QED
    BY <2>1, <2>2
<1>6. ASSUME NEW b \in Broadcasters, NEW c \in Clients, SendTo(b, c) PROVE Ordered'
  <2> DEFINE msg == bcast[b].msg
             n == Len(Streams[c])
  <2>1. /\ bcast[b].at = "sending" /\ c \in bcast[b].todo /\ seq' = seq
        /\ msg \in Message /\ msg.seq <= seq
    BY <1>6 DEF SendTo, SendTypes, Calls
  <2>2. Pending(b, c) /\ New(msg, Streams[c])
    BY <2>1
  <2>3. ASSUME NEW b2 \in Broadcasters, NEW d \in Clients, Pending(b2, d)'
        PROVE  /\ Pending(b2, d) /\ bcast'[b2].msg = bcast[b2].msg
               /\ b2 = b => d # c
               /\ b2 # b => bcast[b2].msg.seq # msg.seq /\ bcast[b2].msg.by # msg.by
    <3>1. bcast' \in [Broadcasters -> BcastType] /\ bcast \in [Broadcasters -> BcastType]
      BY SendTypesStep DEF SendTypes
    <3>2. /\ bcast'[b].at = "sending" /\ bcast'[b].msg = msg /\ bcast'[b].todo = bcast[b].todo \ {c}
          /\ b2 # b => bcast'[b2] = bcast[b2]
      BY <1>6, <3>1 DEF SendTo, Call
    <3>3. CASE b2 = b
      BY <2>1, <2>3, <3>2, <3>3
    <3>4. CASE b2 # b
      BY <2>1, <2>3, <3>2, <3>4 DEF Calls
    <3>5. QED
      BY <3>3, <3>4
  <2>4. CASE Streams' = Streams
    BY <2>1, <2>3, <2>4
  <2>5. CASE Streams' = [Streams EXCEPT ![c] = Append(Streams[c], msg)]
    <3>1. /\ DOMAIN Streams'[c] = 1..(n + 1) /\ DOMAIN Streams[c] = 1..n /\ n \in Nat
          /\ \A i \in 1..n : Streams'[c][i] = Streams[c][i]
          /\ Streams'[c][n + 1] = msg
      BY <1>1, <2>1, <2>5, AppendProperties
    <3>2. \A d \in Clients : d # c => Streams'[d] = Streams[d]
      BY <1>1, <2>5
    <3> HIDE DEF msg, n
    <3>3. \A d \in Clients : \A i \in DOMAIN Streams'[d] : Streams'[d][i].seq <= seq'
      BY <2>1, <3>1, <3>2
    <3>4. ASSUME NEW b2 \in Broadcasters, NEW d \in Clients, Pending(b2, d)'
          PROVE  New(bcast[b2].msg, Streams[d])'
      <4>1. CASE d # c
        BY <2>3, <3>2, <3>4, <4>1
      <4>2. CASE d = c
        BY <2>3, <3>1, <3>4, <4>2
      <4>3. QED
        BY <4>1, <4>2
    <3>5. ASSUME NEW d \in Clients, NEW i \in DOMAIN Streams'[d], NEW j \in DOMAIN Streams'[d],
                 Streams'[d][i].seq = Streams'[d][j].seq
          PROVE  i = j
      <4>1. CASE d # c
        BY <3>2, <3>5, <4>1
      <4>2. CASE d = c
        BY <2>2, <3>1, <3>5, <4>2
      <4>3. QED
        BY <4>1, <4>2
    <3>6. QED
      BY <3>3, <3>4, <3>5
  <2>6. QED
    BY <1>6, <2>4, <2>5, StreamsPushed
<1>7. ASSUME NEW c \in Clients, WriteMessage(c) PROVE Ordered'
  BY <1>3, <1>7, StreamsTaken DEF WriteMessage
<1>7a. ASSUME NEW b \in Broadcasters, MarshalFails(b) PROVE Ordered'
  <2>1. bcast' = bcast /\ seq \in Int /\ seq' = seq + 1
    BY <1>7a, HubAssumption DEF MarshalFails, SendTypes
  <2>2. Streams' = Streams
    BY <1>7a, StreamsKept DEF MarshalFails, sending
  <2>3. QED
    BY <1>2, <2>1, <2>2
<1>8. QED
  <2>1. \/ queue' = queue /\ taken' = taken /\ bcast' = bcast /\ seq' = seq
        \/ \E b \in Broadcasters : MarshalFails(b)
        \/ \E c \in Clients : WriteMessage(c)
        \/ \E b \in Broadcasters : \E msg \in Message : Numbered(b, msg)
        \/ \E b \in Broadcasters : Deliver(b)
    BY AllNumbered DEF Next, Connect, HandleWS, Register, SendWelcome, SendInitialState,
           HandshakeFails, PeerGone, Serve, WriterEnds, ReaderEnds, Unregister,
           ReadAction, Cancel, ShutdownClients, EngineTick, vars, sending
  <2>2. QED
    BY <2>1, <1>3, <1>4, <1>5, <1>6, <1>7, <1>7a, StreamsKept DEF Deliver

-----------------------------------------------------------------------------
(* Theorems *)

HubInv == ClientTypes /\ SendTypes /\ Members /\ ClosedOnce /\ Calls /\ Ordered

\* The hub starts in the invariant.
LEMMA InitHubInv == Init => HubInv
<1> SUFFICES ASSUME Init PROVE HubInv
  OBVIOUS
<1>1. NewSubscriptions \in Subs
  BY DEF NewSubscriptions, Subs, Types
<1>2. ClientTypes
  BY <1>1 DEF Init, ClientTypes
<1>3. SendTypes
  <2>1. seq \in 0..MaxSeq
    BY HubAssumption DEF Init
  <2>2. queue \in [Clients -> Seq(Message)] /\ taken \in [Clients -> Seq(Message)]
    BY DEF Init
  <2>3. /\ bcast \in [Broadcasters -> BcastType]
        /\ \A b \in Broadcasters : bcast[b].at = "idle"
    <3> HIDE DEF Idle
    <3> QED BY IdleTyped DEF Init
  <2>4. /\ drops \in [Clients -> Nat] /\ closes \in [Clients -> Nat]
        /\ latest \in [Symbols -> Nat] /\ published \in [Symbols -> Nat]
        /\ cancelled \in BOOLEAN /\ swept \in BOOLEAN
    BY DEF Init
  <2>5. QED
    BY <2>1, <2>2, <2>3, <2>4 DEF SendTypes
<1>4. Members /\ ClosedOnce /\ Calls
  BY IdleTyped DEF Init, Members, ClosedOnce, Calls
<1>5. \A c \in Clients : Streams[c] = <<>>
  BY DEF Init, Streams, Sent
<1>6. Ordered
  BY <1>5, IdleTyped DEF Init, Ordered, Pending, New
<1>7. QED
  BY <1>2, <1>3, <1>4, <1>6 DEF HubInv

\* The invariant of the hub: types, membership, calls in flight and streams.
THEOREM HubInvariant == Spec => []HubInv
<1>1. HubInv /\ [Next]_vars => HubInv'
  BY ClientTypesStep, SendTypesStep, MembersStep, CallsStep, OrderedStep DEF HubInv
<1>2. QED
  BY <1>1, InitHubInv, PTL DEF Spec

\* Every variable of the hub keeps its type.
THEOREM HubTypeCorrect == Spec => []TypeOK
<1>1. HubInv => TypeOK
  BY TypesAre DEF HubInv
<1>2. QED
  BY <1>1, HubInvariant, PTL

\* For any number of clients and broadcasters no queue is closed twice, nor while
\* its client can be found in the map (evictClients, shutdownClients).
THEOREM HubClosesOnce == Spec => []ClosedOnce
<1>1. HubInv => ClosedOnce
  BY DEF HubInv
<1>2. QED
  BY <1>1, HubInvariant, PTL

\* For any number of concurrent calls of Broadcast, nobody is sent a message twice.
THEOREM HubUniqueSeq == Spec => []UniqueSeq
<1>1. HubInv => UniqueSeq
  BY DEF HubInv, Ordered, Streams, UniqueSeq
<1>2. QED
  BY <1>1, HubInvariant, PTL

-----------------------------------------------------------------------------
(* The hub implements ClientStream *)

Former == {c \in Clients \ clients : stage[c] \in {"registered", "welcomed", "live", "failed"}}
Closed == {c \in Clients : closes[c] > 0}

\* A step that takes clients away, or nobody.
LEMMA LeaveImplements ==
    ASSUME ClientTypes, SendTypes, Members, ClosedOnce, Streams' = Streams,
           NEW gone \in SUBSET clients, NEW queues \in SUBSET gone,
           clients' = clients \ gone, Former' = Former \cup gone, Closed' = Closed \cup queues
    PROVE  Stream!StreamNext
<1>1. \A c \in queues : c \notin Closed
  BY DEF ClosedOnce, Closed, ClientTypes, SendTypes
<1>2. clients \ clients' = gone /\ Closed' \ Closed = queues
  BY <1>1
<1>3. /\ clients \ clients' \subseteq clients /\ Closed' \ Closed \subseteq clients \ clients'
      /\ clients' = clients \ (clients \ clients')
      /\ Former' = Former \cup (clients \ clients')
      /\ Closed' = Closed \cup (Closed' \ Closed)
  BY <1>2
<1>4. QED
  BY <1>3 DEF Stream!StreamNext, Stream!Leave, Streams, Former, Closed

\* A step that changes none of them.
LEMMA NothingImplements ==
    ASSUME Streams' = Streams, clients' = clients, Former' = Former, Closed' = Closed
    PROVE  UNCHANGED Stream!streamVars
  BY DEF Stream!streamVars, Streams, Former, Closed

\* A connection that is registered joins.
LEMMA JoinImplements ==
    ASSUME ClientTypes, Members, NEW c \in Clients, Register(c), HasRoom
    PROVE  Stream!StreamNext
<1>1. /\ clients' = clients \cup {c} /\ c \notin clients \cup Former
      /\ stage' = [stage EXCEPT ![c] = "registered"]
  BY DEF Register, ClientTypes, Members, Former
<1>2. Former' = Former /\ Closed' = Closed /\ Streams' = Streams
  BY <1>1, StreamsKept DEF Register, ClientTypes, Former, Closed, sending
<1>3. /\ c \notin clients \cup Former
      /\ Cardinality(clients) < MaxClients
      /\ clients' = clients \cup {c}
      /\ Former' = Former /\ Closed' = Closed /\ Streams' = Streams
  BY <1>1, <1>2 DEF HasRoom
<1>4. Stream!Cardinality(clients) = Cardinality(clients)
  BY DEF Stream!Cardinality, Cardinality
<1>5. Stream!Join(c)
  BY <1>3, <1>4 DEF Stream!Join, Former, Closed, Streams
<1>6. QED
  BY <1>5 DEF Stream!StreamNext

\* A message that is queued is one a client of the map has still to get.
LEMMA PushImplements ==
    ASSUME ClientTypes, SendTypes, Members, Calls, Ordered,
           NEW b \in Broadcasters, NEW c \in Clients, SendTo(b, c)
    PROVE  Stream!StreamNext \/ UNCHANGED Stream!streamVars
<1> DEFINE msg == bcast[b].msg
<1>1. /\ msg \in Message /\ c \in clients /\ Pending(b, c)
      /\ clients' = clients /\ stage' = stage /\ closes' = closes
  BY DEF SendTo, SendTypes, Members, Pending, client
<1>2. Former' = Former /\ Closed' = Closed
  BY <1>1 DEF Former, Closed
<1>3. New(msg, Streams[c])
  BY <1>1 DEF Ordered
<1>4. CASE Streams' = Streams
  BY <1>1, <1>2, <1>4, NothingImplements
<1>5. CASE Streams' = [Streams EXCEPT ![c] = Append(Streams[c], msg)]
  <2>1. Streams \in [Clients -> Seq(Message)]
    BY StreamsTyped
  <2>2. Streams'[c] = Append(Streams[c], msg)
    BY <1>5, <2>1
  <2>3. Len(Streams'[c]) = Len(Streams[c]) + 1 /\ Streams'[c][Len(Streams[c]) + 1] = msg
    BY <1>1, <2>1, <2>2, AppendProperties
  <2>4. /\ clients' = clients /\ Former' = Former /\ Closed' = Closed /\ c \in clients
        /\ \A i \in DOMAIN Streams[c] :
               Streams[c][i].by = Streams'[c][Len(Streams[c]) + 1].by
                   => Streams[c][i].seq < Streams'[c][Len(Streams[c]) + 1].seq
    BY <1>1, <1>2, <1>3, <2>3 DEF New
  <2>5. Streams' = [Streams EXCEPT ![c] = Append(Streams[c], Streams'[c][Len(Streams[c]) + 1])]
    BY <1>5, <2>3
  <2>6. QED
    BY <2>3, <2>4, <2>5 DEF Stream!StreamNext, Stream!Push, Stream!Follows, Streams, Former, Closed
<1>6. QED
  BY <1>4, <1>5, StreamsPushed

\* Every step of the hub is a step of ClientStream, or changes nothing of it.
LEMMA StreamStep == HubInv /\ [Next]_vars => [Stream!StreamNext]_(Stream!streamVars)
<1> SUFFICES ASSUME HubInv, [Next]_vars PROVE [Stream!StreamNext]_(Stream!streamVars)
  OBVIOUS
<1> USE DEF HubInv
<1> DEFINE Implements == Stream!StreamNext \/ UNCHANGED Stream!streamVars
<1> HIDE DEF Implements
<1>1. ASSUME Streams' = Streams, clients' = clients, Former' = Former, Closed' = Closed
      PROVE  Implements
  BY <1>1, NothingImplements DEF Implements
<1>2. ASSUME NEW c \in Clients, NEW r \in Requests, Connect(c, r) PROVE Implements
  <2>1. clients' = clients /\ Closed' = Closed /\ Streams' = Streams
    BY <1>2, StreamsKept DEF Connect, sending, Closed
  <2>2. Former' = Former
    BY <1>2 DEF Connect, ClientTypes, Former
  <2>3. QED
    BY <2>1, <2>2, <1>1
<1>3. ASSUME NEW c \in Clients, Register(c) PROVE Implements
  <2>1. CASE HasRoom
    BY <1>3, <2>1, JoinImplements DEF Implements
  <2>2. CASE ~HasRoom
    <3>1. clients' = clients /\ Closed' = Closed /\ Streams' = Streams
      BY <1>3, <2>2, StreamsKept DEF Register, sending, Closed
    <3>2. Former' = Former
      BY <1>3, <2>2 DEF Register, ClientTypes, Former
    <3>3. QED
      BY <3>1, <3>2, <1>1
  <2>3. QED
    BY <2>1, <2>2
<1>4. ASSUME NEW c \in Clients, SendWelcome(c) \/ SendInitialState(c) PROVE Implements
  <2>1. clients' = clients /\ Closed' = Closed /\ Streams' = Streams
    BY <1>4, StreamsKept DEF SendWelcome, SendInitialState, sending, Closed
  <2>2. Former' = Former
    BY <1>4 DEF SendWelcome, SendInitialState, ClientTypes, Former
  <2>3. QED
    BY <2>1, <2>2, <1>1
<1>5. ASSUME NEW c \in Clients, HandshakeFails(c) \/ Unregister(c) PROVE Implements
  <2> DEFINE gone == clients \cap {c}
  <2>1. clients' = clients \ gone /\ Closed' = Closed /\ Streams' = Streams
    BY <1>5, StreamsKept DEF HandshakeFails, Unregister, sending, Closed
  <2>2. /\ stage' = stage \/ (stage[c] \in {"registered", "welcomed"}
                              /\ stage' = [stage EXCEPT ![c] = "failed"])
        /\ \A d \in clients : stage[d] \in {"registered", "welcomed", "live"}
    BY <1>5 DEF HandshakeFails, Unregister, client, Members
  <2>3. Former' = Former \cup gone
    BY <2>1, <2>2 DEF ClientTypes, Former
  <2>4. Closed' = Closed \cup {}
    BY <2>1
  <2>5. QED
    BY <2>1, <2>3, <2>4, LeaveImplements DEF Implements
<1>6. ASSUME NEW c \in Clients, PeerGone(c) \/ WriterEnds(c) \/ ReaderEnds(c) PROVE Implements
  <2>1. clients' = clients /\ stage' = stage /\ closes' = closes /\ Streams' = Streams
    BY <1>6, StreamsKept DEF PeerGone, WriterEnds, ReaderEnds, sending
  <2>2. Former' = Former /\ Closed' = Closed
    BY <2>1 DEF Former, Closed
  <2>3. QED
    BY <2>1, <2>2, <1>1
<1>7. ASSUME NEW c \in Clients, WriteMessage(c) PROVE Implements
  <2>1. clients' = clients /\ Former' = Former /\ Closed' = Closed
    BY <1>7 DEF WriteMessage, client, Former, Closed
  <2>2. QED
    BY <1>1, <1>7, <2>1, StreamsTaken
<1>8. ASSUME \/ \E c \in Clients, a \in Actions : ReadAction(c, a)
             \/ \E b \in Broadcasters, msg \in Message : Numbered(b, msg)
             \/ \E b \in Broadcasters : LockClients(b) \/ UnlockClients(b) \/ MarshalFails(b)
             \/ Cancel \/ (\E s \in Symbols : EngineTick(s)) \/ UNCHANGED vars
      PROVE  Implements
  <2>1. UNCHANGED <<clients, stage, closes, queue, taken>>
    BY <1>8 DEF ReadAction, Numbered, MarshalFails, LockClients, UnlockClients, Cancel, EngineTick,
                vars, client, sending
  <2>2. Former' = Former /\ Closed' = Closed /\ Streams' = Streams
    BY <2>1, StreamsKept DEF Former, Closed
  <2>3. QED
    BY <2>1, <2>2, <1>1
<1>9. ASSUME NEW b \in Broadcasters, NEW c \in Clients, SendTo(b, c) PROVE Implements
  BY <1>9, PushImplements DEF Implements
<1>10. ASSUME NEW gone \in SUBSET clients, CloseClients(gone),
              UNCHANGED <<stage, queue, taken>>
       PROVE  Implements
  <2>1. Streams' = Streams /\ clients' = clients \ gone
    BY <1>10, StreamsKept DEF CloseClients
  <2>2. Former' = Former \cup gone
    BY <1>10 DEF CloseClients, Former, Members, ClientTypes
  <2>3. Closed' = Closed \cup gone
    BY <1>10 DEF CloseClients, Closed, SendTypes, ClientTypes
  <2>4. QED
    BY <2>1, <2>2, <2>3, LeaveImplements DEF Implements
<1>11. ASSUME NEW b \in Broadcasters, EvictClients(b) PROVE Implements
  BY <1>10, <1>11 DEF EvictClients
<1>12. ASSUME ShutdownClients PROVE Implements
  BY <1>10, <1>12 DEF ShutdownClients
<1>13. Implements
  <2>1. \/ \E c \in Clients : \/ \E r \in Requests : Connect(c, r)
                              \/ Register(c) \/ SendWelcome(c) \/ SendInitialState(c)
                              \/ HandshakeFails(c) \/ PeerGone(c) \/ WriteMessage(c)
                              \/ WriterEnds(c) \/ ReaderEnds(c) \/ Unregister(c)
                              \/ \E a \in Actions : ReadAction(c, a)
        \/ \E b \in Broadcasters, msg \in Message : Numbered(b, msg)
        \/ \E b \in Broadcasters : \/ LockClients(b) \/ UnlockClients(b) \/ EvictClients(b)
                                   \/ MarshalFails(b)
                                   \/ \E c \in Clients : SendTo(b, c)
        \/ Cancel \/ ShutdownClients
        \/ (\E s \in Symbols : EngineTick(s)) \/ UNCHANGED vars
    BY AllNumbered DEF Next, HandleWS, Serve, Deliver
  <2>2. QED
    BY <2>1, <1>2, <1>3, <1>4, <1>5, <1>6, <1>7, <1>8, <1>9, <1>11, <1>12
<1>14. QED
  BY <1>13 DEF Implements

\* For any number of clients, broadcasters and messages the hub implements
\* ClientStream: a connection is a member once, members keep to the limit, a queue
\* is closed only by taking its client away and gets nothing after that, and each
\* broadcaster's messages are in the order of their numbers. It says nothing of
\* what is dropped: a queue that is full loses the message (CaughtUp is about
\* clients that lost none).
THEOREM HubImplementsStream == Spec => StreamSpec
<1>1. Init => Stream!StreamInit
  <2> SUFFICES ASSUME Init PROVE Stream!StreamInit
    OBVIOUS
  <2>1. clients = {} /\ Former = {} /\ Closed = {}
    BY DEF Init, Former, Closed
  <2>2. Streams = [c \in Clients |-> <<>>]
    BY DEF Init, Streams, Sent
  <2>3. QED
    BY <2>1, <2>2, Zenon DEF Stream!StreamInit, Former, Closed, Streams
<1>2. HubInv /\ [Next]_vars => [Stream!StreamNext]_(Stream!streamVars)
  BY StreamStep
<1>3. QED
  BY <1>1, <1>2, HubInvariant, PTL DEF Spec, StreamSpec, Stream!StreamSpec

-----------------------------------------------------------------------------
(* What the clients know *)

\* The client c was told a price of s that is not before n.
Heard(c, s, n) ==
    \/ initial[c][s] >= n
    \/ \E i \in DOMAIN Streams[c] : /\ Streams[c][i].type = "latest_price" /\ Streams[c][i].symbol = s
                                    /\ Streams[c][i].value >= n

\* A client that is to know the prices of s.
Listening(c, s) == drops[c] = 0 /\ asked[c] = 0 /\ Wants(subs[c], "latest_price", s)

\* A call of the broadcast loop is of a price the engine knows, and whom it has
\* passed has heard it; a client that came later is told the state of the engine.
Told ==
    /\ \A s \in Symbols : published[s] <= latest[s]
    /\ bcast["loop"].at \in {"numbered", "sending"} =>
           /\ bcast["loop"].msg.type = "latest_price" /\ bcast["loop"].msg.symbol \in Symbols
           /\ bcast["loop"].msg.value <= latest[bcast["loop"].msg.symbol]
    /\ bcast["loop"].at = "sending" =>
           \A c \in clients \ bcast["loop"].todo :
               Listening(c, bcast["loop"].msg.symbol) =>
                   Heard(c, bcast["loop"].msg.symbol, bcast["loop"].msg.value)
    /\ \A c \in clients, s \in Symbols :
           stage[c] = "live" /\ Listening(c, s) => Heard(c, s, published[s])

LEMMA ToldCatchesUp == ClientTypes /\ SendTypes /\ Told => CaughtUp
<1> SUFFICES ASSUME ClientTypes, SendTypes, Told, NEW c \in clients, NEW s \in Symbols,
                    stage[c] = "live", Listening(c, s)
             PROVE  \E v \in Known(c, s) : v >= published[s]
  BY DEF CaughtUp, Listening
<1>1. Heard(c, s, published[s]) /\ c \in Clients
  BY DEF Told, ClientTypes
<1>2. CASE initial[c][s] >= published[s]
  BY <1>2 DEF Known
<1>3. ASSUME NEW i \in DOMAIN Streams[c], Streams[c][i].type = "latest_price",
             Streams[c][i].symbol = s, Streams[c][i].value >= published[s]
      PROVE  \E v \in Known(c, s) : v >= published[s]
  <2>1. Streams[c] = Sent(c)
    BY <1>1 DEF Streams
  <2>2. Sent(c)[i].value \in Known(c, s)
    BY <1>3, <2>1 DEF Known
  <2> QED BY <1>3, <2>1, <2>2
<1> QED BY <1>1, <1>2, <1>3 DEF Heard

LEMMA ToldInit == Init => Told
<1> SUFFICES ASSUME Init PROVE Told
  OBVIOUS
<1>1. bcast["loop"].at = "idle"
  BY IdleTyped DEF Init, Broadcasters
<1> QED BY <1>1 DEF Init, Told

\* What a client heard once, it heard.
LEMMA HeardKept ==
    ASSUME ClientTypes, SendTypes, initial' = initial, Streams' = Streams
    PROVE  \A c \in Clients : \A s, n : Heard(c, s, n) => Heard(c, s, n)'
  BY DEF Heard

LEMMA HeardPushed ==
    ASSUME ClientTypes, SendTypes, NEW b \in Broadcasters, NEW d \in Clients, SendTo(b, d)
    PROVE  \A c \in Clients : \A s, n : Heard(c, s, n) => Heard(c, s, n)'
<1>1. initial' = initial
  BY DEF SendTo, client
<1>2. CASE Streams' = Streams
  BY <1>1, <1>2 DEF Heard
<1>3. CASE Streams' = [Streams EXCEPT ![d] = Append(Streams[d], bcast[b].msg)]
  <2>1. Streams \in [Clients -> Seq(Message)] /\ bcast[b].msg \in Message
    BY StreamsTyped DEF SendTypes, SendTo
  <2>2. ASSUME NEW c \in Clients, NEW i \in DOMAIN Streams[c]
        PROVE  i \in DOMAIN Streams'[c] /\ Streams'[c][i] = Streams[c][i]
    <3>1. Streams[c] \in Seq(Message)
      BY <2>1
    <3>2. CASE c = d
      <4>1. Streams'[c] = Append(Streams[c], bcast[b].msg)
        BY <1>3, <2>1, <3>2
      <4> QED BY <2>1, <3>1, <4>1, AppendProperties
    <3>3. CASE c # d
      BY <1>3, <2>1, <3>3
    <3> QED BY <3>2, <3>3
  <2> QED BY <1>1, <2>2 DEF Heard
<1> QED BY <1>2, <1>3, StreamsPushed

\* A step that takes nothing from what the clients know and completes no broadcast
\* of a price.
LEMMA ToldKept ==
    ASSUME Told, ClientTypes, SendTypes, SendTypes',
           published' = published, \A s \in Symbols : latest[s] <= latest'[s],
           \/ bcast'["loop"] = bcast["loop"] /\ (bcast["loop"].at = "sending" => clients' \subseteq clients)
           \/ bcast'["loop"].at \in {"idle", "evicting"},
           \A c \in clients' : c \in clients \/ stage'[c] # "live",
           \A c \in clients' \cap clients : stage'[c] = "live" => stage[c] = "live",
           \A c \in clients', s \in Symbols : Listening(c, s)' => Listening(c, s),
           \A c \in Clients : \A s, n : Heard(c, s, n) => Heard(c, s, n)'
    PROVE  Told'
<1> DEFINE msg == bcast["loop"].msg
<1>1. \A s \in Symbols : published'[s] <= latest'[s]
  BY DEF Told, SendTypes
<1>2. \A c \in clients', s \in Symbols :
          stage'[c] = "live" /\ Listening(c, s)' => Heard(c, s, published[s])'
  BY DEF Told, ClientTypes
<1>3. CASE bcast'["loop"].at \in {"idle", "evicting"}
  BY <1>1, <1>2, <1>3 DEF Told
<1>4. CASE bcast'["loop"] = bcast["loop"] /\ (bcast["loop"].at = "sending" => clients' \subseteq clients)
  <2>1. ASSUME bcast["loop"].at \in {"numbered", "sending"}
        PROVE  /\ msg.type = "latest_price" /\ msg.symbol \in Symbols
               /\ msg.value <= latest'[msg.symbol]
    <3>1. /\ msg.type = "latest_price" /\ msg.symbol \in Symbols
          /\ msg.value <= latest[msg.symbol]
      BY <2>1 DEF Told
    <3>2. msg \in Message /\ "loop" \in Broadcasters
      BY <2>1 DEF SendTypes, Broadcasters
    <3>3. msg.value \in Nat
      BY <3>2, HubAssumption DEF Message
    <3> HIDE DEF msg
    <3> QED BY <3>1, <3>3 DEF SendTypes
  <2>2. ASSUME bcast["loop"].at = "sending", NEW c \in clients' \ bcast["loop"].todo,
               Listening(c, msg.symbol)'
        PROVE  Heard(c, msg.symbol, msg.value)'
    <3>1. c \in clients \ bcast["loop"].todo /\ c \in Clients /\ msg.symbol \in Symbols
      BY <1>4, <2>1, <2>2 DEF ClientTypes
    <3>2. Listening(c, msg.symbol)
      BY <1>4, <2>2, <3>1
    <3>3. Heard(c, msg.symbol, msg.value)
      BY <2>2, <3>1, <3>2 DEF Told
    <3> QED BY <1>4, <3>1, <3>3
  <2> QED BY <1>1, <1>2, <1>4, <2>1, <2>2 DEF Told
<1> QED BY <1>3, <1>4

\* The connections that come and go, and what they ask.
LEMMA ToldClients ==
    ASSUME HubInv, Told, HubInv', NEW c \in Clients,
           \/ \E r \in Requests : Connect(c, r)
           \/ Register(c) \/ SendWelcome(c) \/ HandshakeFails(c) \/ PeerGone(c) \/ Serve(c)
           \/ \E a \in Actions : ReadAction(c, a)
    PROVE  Told'
<1> USE DEF HubInv
<1>1. UNCHANGED <<initial, drops, bcast, latest, published>>
  BY DEF Connect, Register, SendWelcome, HandshakeFails, PeerGone, Serve, WriteMessage, WriterEnds,
         ReaderEnds, Unregister, ReadAction, client, sending, engine
<1>2. Streams' = Streams
  <2>1. CASE WriteMessage(c)
    BY <2>1, StreamsTaken
  <2>2. CASE UNCHANGED <<queue, taken>>
    BY <2>2, StreamsKept
  <2> QED BY <2>1, <2>2 DEF Connect, Register, SendWelcome, HandshakeFails, PeerGone, Serve, WriterEnds,
         ReaderEnds, Unregister, ReadAction, sending
<1>3. \A d \in Clients : \A s, n : Heard(d, s, n) => Heard(d, s, n)'
  BY <1>1, <1>2, HeardKept
<1>4. /\ bcast["loop"].at = "sending" => clients' \subseteq clients
      /\ \A d \in clients' : d \in clients \/ stage'[d] # "live"
      /\ \A d \in clients' \cap clients : stage'[d] = "live" => stage[d] = "live"
  <2>1. CASE Register(c)
    <3>1. bcast["loop"].at # "sending"
      BY <2>1 DEF Register, Unlocked, Broadcasters
    <3>2. clients' \subseteq clients \cup {c} /\ \A d \in clients' : stage'[d] = stage[d] \/ stage'[d] # "live"
      BY <2>1 DEF Register, ClientTypes
    <3>3. stage'[c] # "live"
      BY <2>1 DEF Register, ClientTypes
    <3> QED BY <3>1, <3>2, <3>3
  <2>2. CASE \E r \in Requests : Connect(c, r)
    BY <2>2 DEF Connect, ClientTypes
  <2>3. CASE SendWelcome(c) \/ HandshakeFails(c) \/ PeerGone(c)
    BY <2>3 DEF SendWelcome, HandshakeFails, PeerGone, ClientTypes
  <2>4. CASE Serve(c) \/ \E a \in Actions : ReadAction(c, a)
    BY <2>4 DEF Serve, WriteMessage, WriterEnds, ReaderEnds, Unregister, ReadAction, client
  <2> QED BY <2>1, <2>2, <2>3, <2>4
<1>5. ASSUME NEW d \in clients', NEW s \in Symbols, Listening(d, s)' PROVE Listening(d, s)
  <2>1. CASE \E r \in Requests : Connect(c, r)
    <3>1. d # c /\ clients' = clients
      BY <2>1 DEF Connect, Members
    <3> QED BY <1>1, <1>5, <2>1, <3>1 DEF Listening, Connect, ClientTypes
  <2>2. CASE \E a \in Actions : ReadAction(c, a)
    <3>1. asked[c] \in Nat /\ asked' = [asked EXCEPT ![c] = @ + 1] /\ clients' \subseteq Clients
      BY <2>2 DEF ReadAction, ClientTypes
    <3>2. d # c
      BY <1>5, <3>1 DEF Listening, ClientTypes
    <3>3. subs'[d] = subs[d] /\ asked'[d] = asked[d] /\ drops' = drops
      BY <2>2, <3>2 DEF ReadAction, ClientTypes, sending
    <3> QED BY <1>5, <3>3 DEF Listening
  <2>3. CASE UNCHANGED <<subs, asked>>
    BY <1>1, <1>5, <2>3 DEF Listening
  <2> QED BY <2>1, <2>2, <2>3 DEF Register, SendWelcome, HandshakeFails, PeerGone, Serve, WriteMessage,
                                  WriterEnds, ReaderEnds, Unregister, client
<1>6. \A s \in Symbols : latest[s] <= latest'[s]
  BY <1>1 DEF SendTypes
<1> QED BY <1>1, <1>3, <1>4, <1>5, <1>6, ToldKept

\* The initial state is the state of the engines, of which every broadcast is part.
LEMMA ToldInitially ==
    ASSUME HubInv, Told, HubInv', NEW c \in Clients, SendInitialState(c)
    PROVE  Told'
<1> USE DEF HubInv
<1>1. /\ UNCHANGED <<clients, subs, asked, drops, bcast, latest, published, queue, taken>>
      /\ initial' = [initial EXCEPT ![c] = InitialState(c)]
      /\ stage' = [stage EXCEPT ![c] = "live"]
  BY DEF SendInitialState, sending, engine
<1>2. Streams' = Streams
  BY <1>1, StreamsKept
<1>3. ASSUME NEW d \in Clients, NEW s \in Symbols PROVE Listening(d, s)' <=> Listening(d, s)
  BY <1>1 DEF Listening
<1>4. ASSUME NEW s \in Symbols, Listening(c, s), NEW n, latest[s] >= n PROVE Heard(c, s, n)'
  <2>1. initial'[c][s] = latest[s]
    BY <1>1, <1>4 DEF InitialState, Listening, ClientTypes
  <2> QED BY <1>4, <2>1 DEF Heard
<1>5. ASSUME NEW d \in Clients, d # c, NEW s, NEW n, Heard(d, s, n) PROVE Heard(d, s, n)'
  <2>1. initial'[d] = initial[d]
    BY <1>1, <1>5 DEF ClientTypes
  <2> QED BY <1>2, <1>5, <2>1 DEF Heard
<1>6. \A s \in Symbols : published'[s] <= latest'[s]
  BY <1>1 DEF Told
<1>7. ASSUME NEW d \in clients', NEW s \in Symbols, stage'[d] = "live", Listening(d, s)'
      PROVE  Heard(d, s, published[s])'
  <2>1. d \in clients /\ d \in Clients /\ Listening(d, s)
    BY <1>1, <1>3, <1>7 DEF ClientTypes
  <2>2. CASE d = c
    <3>1. published[s] \in Nat /\ latest[s] \in Nat /\ published[s] <= latest[s]
      BY DEF SendTypes, Told
    <3>2. latest[s] >= published[s]
      BY <3>1
    <3> QED BY <1>1, <1>4, <2>1, <2>2, <3>2
  <2>3. CASE d # c
    <3>1. Heard(d, s, published[s])
      BY <1>1, <1>7, <2>1, <2>3 DEF Told, ClientTypes
    <3> QED BY <1>1, <1>5, <2>1, <2>3, <3>1
  <2> QED BY <2>2, <2>3
<1>8. ASSUME bcast["loop"].at = "sending", NEW d \in clients' \ bcast["loop"].todo,
             Listening(d, bcast["loop"].msg.symbol)'
      PROVE  Heard(d, bcast["loop"].msg.symbol, bcast["loop"].msg.value)'
  <2>1. /\ d \in clients \ bcast["loop"].todo /\ d \in Clients
        /\ bcast["loop"].msg.symbol \in Symbols
        /\ bcast["loop"].msg.value <= latest[bcast["loop"].msg.symbol]
    BY <1>1, <1>8 DEF ClientTypes, Told
  <2>2. Listening(d, bcast["loop"].msg.symbol)
    BY <1>1, <1>8 DEF Listening
  <2>3. CASE d = c
    <3>1. bcast["loop"].msg \in Message
      BY <1>8 DEF SendTypes, Broadcasters
    <3>2. latest[bcast["loop"].msg.symbol] \in Nat /\ bcast["loop"].msg.value \in Nat
      <4>1. \A m \in Message : m.value \in Nat
        BY HubAssumption DEF Message
      <4>2. \A s \in Symbols : latest[s] \in Nat
        BY DEF SendTypes
      <4> QED BY <2>1, <3>1, <4>1, <4>2
    <3>3. latest[bcast["loop"].msg.symbol] >= bcast["loop"].msg.value
      BY <2>1, <3>2
    <3> QED BY <1>1, <1>4, <2>1, <2>2, <2>3, <3>3
  <2>4. CASE d # c
    <3>1. Heard(d, bcast["loop"].msg.symbol, bcast["loop"].msg.value)
      BY <1>8, <2>1, <2>2 DEF Told
    <3> QED BY <1>1, <1>5, <2>1, <2>4, <3>1
  <2> QED BY <2>3, <2>4
<1> QED BY <1>1, <1>6, <1>7, <1>8 DEF Told

\* The number a broadcaster takes, of a price of the engine in the broadcast loop.
LEMMA ToldNumber ==
    ASSUME HubInv, Told, HubInv',
           \/ Heartbeat
           \/ \E s \in Symbols : BroadcastTick(s)
           \/ \E b \in Adapters, s \in Symbols : BroadcastSourceStatus(b, s)
    PROVE  Told'
<1> USE DEF HubInv
<1>1. UNCHANGED <<clients, stage, subs, initial, asked, drops, queue, taken, latest, published>>
  BY DEF Heartbeat, BroadcastTick, BroadcastSourceStatus, Number, client, sending, engine
<1>2. Streams' = Streams
  BY <1>1, StreamsKept
<1>3. \A c \in Clients : \A s, n : Heard(c, s, n) => Heard(c, s, n)'
  BY <1>1, <1>2, HeardKept
<1>4. \A c \in Clients, s \in Symbols : Listening(c, s)' <=> Listening(c, s)
  BY <1>1 DEF Listening
<1>5. CASE bcast'["loop"] = bcast["loop"]
  <2>1. \A s \in Symbols : latest[s] <= latest'[s]
    BY <1>1 DEF SendTypes
  <2> QED BY <1>1, <1>3, <1>4, <1>5, <2>1, ToldKept DEF ClientTypes
<1>6. ASSUME NEW s \in Symbols, BroadcastTick(s) PROVE Told'
  <2>1. PICK v \in 1..MaxTick : v <= latest[s] /\ Number("loop", "latest_price", s, v)
    BY <1>6 DEF BroadcastTick
  <2>2. bcast' = [bcast EXCEPT !["loop"] = Call("numbered",
            [seq |-> seq + 1, by |-> "loop", type |-> "latest_price", symbol |-> s, value |-> v], {}, {})]
    BY <2>1 DEF Number
  <2>3. /\ bcast'["loop"].at = "numbered" /\ bcast'["loop"].msg.type = "latest_price"
        /\ bcast'["loop"].msg.symbol = s /\ bcast'["loop"].msg.value = v
    BY <2>2 DEF Call, SendTypes, Broadcasters
  <2>4. /\ \A r \in Symbols : published'[r] <= latest'[r]
        /\ \A c \in clients', r \in Symbols :
               stage'[c] = "live" /\ Listening(c, r)' => Heard(c, r, published[r])'
    BY <1>1, <1>3, <1>4 DEF Told, ClientTypes
  <2> QED BY <1>1, <2>1, <2>3, <2>4 DEF Told
<1>7. CASE Heartbeat \/ \E b \in Adapters, s \in Symbols : BroadcastSourceStatus(b, s)
  <2>1. PICK b \in {"hub"} \cup Adapters : \E m : bcast' = [bcast EXCEPT ![b] = m]
    BY <1>7 DEF Heartbeat, BroadcastSourceStatus, Number
  <2>2. b # "loop"
    BY HubAssumption
  <2>3. bcast'["loop"] = bcast["loop"]
    BY <2>1, <2>2 DEF SendTypes, Broadcasters
  <2> QED BY <1>5, <2>3
<1> QED BY <1>6, <1>7

LEMMA ToldDeliver ==
    ASSUME HubInv, Told, HubInv', NEW b \in Broadcasters, Deliver(b) PROVE Told'
<1> USE DEF HubInv
<1> DEFINE msg == bcast["loop"].msg
<1>0. "loop" \in Broadcasters
  BY DEF Broadcasters
<1>1. UNCHANGED <<subs, initial, asked, stage, latest>> /\ \A s \in Symbols : latest[s] <= latest'[s]
  <2>1. UNCHANGED <<subs, initial, asked, stage, latest>>
    BY DEF Deliver, LockClients, SendTo, UnlockClients, EvictClients, client, engine
  <2>2. \A s \in Symbols : latest[s] \in Nat
    BY DEF SendTypes
  <2> QED BY <2>1, <2>2
<1>2. CASE LockClients(b)
  <2>1. UNCHANGED <<clients, drops, published, queue, taken>>
    BY <1>2 DEF LockClients, sending, engine
  <2>2. Streams' = Streams
    BY <2>1, StreamsKept
  <2>3. \A c \in Clients : \A s, n : Heard(c, s, n) => Heard(c, s, n)'
    BY <1>1, <2>2, HeardKept
  <2>4. \A c \in Clients, s \in Symbols : Listening(c, s)' <=> Listening(c, s)
    BY <1>1, <2>1 DEF Listening
  <2>5. CASE b # "loop"
    <3>1. bcast'["loop"] = bcast["loop"]
      BY <1>0, <1>2, <2>5 DEF LockClients, SendTypes
    <3> QED BY <1>1, <2>1, <2>3, <2>4, <3>1, ToldKept DEF ClientTypes
  <2>6. CASE b = "loop"
    <3>1. /\ bcast["loop"].at = "numbered" /\ bcast'["loop"].msg = msg /\ bcast'["loop"].todo = clients
      BY <1>0, <1>2, <2>6 DEF LockClients, SendTypes, Call
    <3>2. /\ \A r \in Symbols : published'[r] <= latest'[r]
          /\ \A c \in clients', r \in Symbols :
                 stage'[c] = "live" /\ Listening(c, r)' => Heard(c, r, published[r])'
      BY <1>1, <2>1, <2>3, <2>4 DEF Told, ClientTypes
    <3>3. msg.type = "latest_price" /\ msg.symbol \in Symbols /\ msg.value <= latest[msg.symbol]
      BY <3>1 DEF Told
    <3> QED BY <1>1, <2>1, <3>1, <3>2, <3>3 DEF Told
  <2> QED BY <2>5, <2>6
<1>3. ASSUME NEW d \in Clients, SendTo(b, d) PROVE Told'
  <2>1. clients' = clients /\ published' = published
    BY <1>3 DEF SendTo, engine
  <2>2. \A c \in Clients : \A s, n : Heard(c, s, n) => Heard(c, s, n)'
    BY <1>3, HeardPushed
  <2>3. \A c \in Clients : drops'[c] = drops[c] \/ (c = d /\ drops'[c] = drops[c] + 1)
    BY <1>3 DEF SendTo, SendTypes
  <2>4. ASSUME NEW c \in Clients, NEW s \in Symbols, Listening(c, s)' PROVE Listening(c, s)
    <3>1. drops[c] \in Nat
      BY DEF SendTypes
    <3>2. drops[c] = 0
      BY <2>3, <2>4, <3>1 DEF Listening
    <3> QED BY <1>1, <2>4, <3>2 DEF Listening
  <2>5. CASE b # "loop"
    <3>1. bcast'["loop"] = bcast["loop"]
      BY <1>0, <1>3, <2>5 DEF SendTo, SendTypes
    <3> QED BY <1>1, <2>1, <2>2, <2>4, <3>1, ToldKept DEF ClientTypes
  <2>6. CASE b = "loop"
    <3>0. bcast["loop"].at = "sending" /\ bcast["loop"].msg \in Message
      BY <1>0, <1>3, <2>6 DEF SendTo, SendTypes
    <3>1. PICK m \in Message : m = bcast["loop"].msg
      BY <3>0
    <3>2. /\ bcast'["loop"].at = "sending" /\ bcast'["loop"].msg = m
          /\ bcast'["loop"].todo = bcast["loop"].todo \ {d}
      BY <1>0, <1>3, <2>6, <3>1 DEF SendTo, SendTypes, Call
    <3>3. m.type = "latest_price" /\ m.symbol \in Symbols /\ m.value <= latest[m.symbol]
      BY <3>0, <3>1 DEF Told
    <3>4. /\ \A r \in Symbols : published'[r] <= latest'[r]
          /\ \A c \in clients', r \in Symbols :
                 stage'[c] = "live" /\ Listening(c, r)' => Heard(c, r, published[r])'
      BY <1>1, <2>1, <2>2, <2>4 DEF Told, ClientTypes
    <3>5. ASSUME Listening(d, m.symbol)' PROVE Heard(d, m.symbol, m.value)'
      <4>1. Listening(d, m.symbol)
        BY <2>4, <3>3, <3>5
      <4>2. drops[d] = 0 /\ drops'[d] = 0 /\ Wants(subs[d], m.type, m.symbol)
        BY <3>3, <3>5, <4>1 DEF Listening
      <4>3. queue' = [queue EXCEPT ![d] = Append(@, m)] /\ taken' = taken
        BY <1>3, <2>6, <3>1, <4>2 DEF SendTo, SendTypes
      <4>4. taken[d] \in Seq(Message) /\ queue[d] \in Seq(Message)
        BY DEF SendTypes
      <4>5. Streams'[d] = taken[d] \o Append(queue[d], m)
        BY <4>3 DEF Streams, Sent, SendTypes
      <4>6. PICK i \in DOMAIN Streams'[d] : Streams'[d][i] = m
        <5>0. taken[d] \o queue[d] \in Seq(Message)
          BY <4>4, ConcatProperties
        <5>1. \A t, q \in Seq(Message) : t \o Append(q, m) = Append(t \o q, m)
          BY <3>1, PushIsAppend
        <5>2. \A q \in Seq(Message) :
                  Len(q) + 1 \in DOMAIN Append(q, m) /\ Append(q, m)[Len(q) + 1] = m
          BY AppendProperties
        <5> QED BY <4>4, <4>5, <5>0, <5>1, <5>2
      <4>7. m.value >= m.value
        BY HubAssumption DEF Message
      <4> QED BY <3>3, <4>6, <4>7 DEF Heard
    <3>6. ASSUME NEW c \in clients' \ bcast'["loop"].todo, Listening(c, m.symbol)'
          PROVE  Heard(c, m.symbol, m.value)'
      <4>1. CASE c = d
        BY <3>5, <3>6, <4>1
      <4>2. CASE c # d
        <5>1. c \in clients \ bcast["loop"].todo /\ c \in Clients /\ Listening(c, m.symbol)
          BY <2>1, <2>4, <3>2, <3>3, <3>6, <4>2 DEF ClientTypes
        <5>2. Heard(c, m.symbol, m.value)
          BY <3>0, <3>1, <5>1 DEF Told
        <5> QED BY <2>2, <5>1, <5>2
      <4> QED BY <4>1, <4>2
    <3> QED BY <1>1, <3>2, <3>3, <3>4, <3>6 DEF Told
  <2> QED BY <2>5, <2>6
<1>4. CASE UnlockClients(b)
  <2>1. UNCHANGED <<clients, drops, queue, taken>> /\ bcast[b].todo = {} /\ bcast[b].at = "sending"
    BY <1>4 DEF UnlockClients, sending
  <2>2. Streams' = Streams
    BY <2>1, StreamsKept
  <2>3. \A c \in Clients : \A s, n : Heard(c, s, n) => Heard(c, s, n)'
    BY <1>1, <2>2, HeardKept
  <2>4. \A c \in Clients, s \in Symbols : Listening(c, s)' <=> Listening(c, s)
    BY <1>1, <2>1 DEF Listening
  <2>5. CASE b # "loop"
    <3>1. bcast'["loop"] = bcast["loop"] /\ published' = published
      BY <1>0, <1>4, <2>5 DEF UnlockClients, SendTypes
    <3> QED BY <1>1, <2>1, <2>3, <2>4, <3>1, ToldKept DEF ClientTypes
  <2>6. CASE b = "loop"
    <3>1. PICK m \in Message : m = bcast["loop"].msg
      BY <1>0, <2>1, <2>6 DEF SendTypes
    <3>2. m.symbol \in Symbols /\ m.value <= latest[m.symbol]
      BY <2>1, <2>6, <3>1 DEF Told
    <3>3. published' = [published EXCEPT ![m.symbol] = m.value]
      BY <1>4, <2>6, <3>1 DEF UnlockClients
    <3>4. bcast'["loop"].at \in {"idle", "evicting"}
      BY <1>0, <1>4, <2>6, IdleTyped DEF UnlockClients, SendTypes, Call
    <3>5. \A r \in Symbols : published'[r] <= latest'[r]
      BY <1>1, <3>2, <3>3 DEF Told, SendTypes
    <3>6. ASSUME NEW c \in clients', NEW r \in Symbols, stage'[c] = "live", Listening(c, r)'
          PROVE  Heard(c, r, published[r])'
      <4>1. c \in clients /\ c \in Clients /\ Listening(c, r) /\ stage[c] = "live"
        BY <1>1, <2>1, <2>4, <3>6 DEF ClientTypes
      <4>2. CASE r = m.symbol
        <5>1. Heard(c, r, m.value)
          BY <2>1, <2>6, <3>1, <4>1, <4>2 DEF Told
        <5>2. published'[r] = m.value
          BY <3>3, <4>2 DEF SendTypes
        <5> QED BY <2>3, <4>1, <5>1, <5>2
      <4>3. CASE r # m.symbol
        <5>1. published'[r] = published[r]
          BY <3>3, <4>3 DEF SendTypes
        <5>2. Heard(c, r, published[r])
          BY <4>1 DEF Told
        <5> QED BY <2>3, <4>1, <5>1, <5>2
      <4> QED BY <4>2, <4>3
    <3> QED BY <3>4, <3>5, <3>6 DEF Told
  <2> QED BY <2>5, <2>6
<1>5. CASE EvictClients(b)
  <2>1. UNCHANGED <<drops, queue, taken, published>> /\ clients' \subseteq clients
    BY <1>5 DEF EvictClients, CloseClients, engine
  <2>2. Streams' = Streams
    BY <2>1, StreamsKept
  <2>3. \A c \in Clients : \A s, n : Heard(c, s, n) => Heard(c, s, n)'
    BY <1>1, <2>2, HeardKept
  <2>4. \A c \in Clients, s \in Symbols : Listening(c, s)' <=> Listening(c, s)
    BY <1>1, <2>1 DEF Listening
  <2>5. bcast'["loop"] = bcast["loop"] \/ bcast'["loop"].at \in {"idle", "evicting"}
    BY <1>0, <1>5, IdleTyped DEF EvictClients, SendTypes
  <2> QED BY <1>1, <2>1, <2>3, <2>4, <2>5, ToldKept DEF ClientTypes
<1> QED BY <1>2, <1>3, <1>4, <1>5 DEF Deliver

\* Ticks of the engines, and the shutdown.
LEMMA ToldOthers ==
    ASSUME HubInv, Told, HubInv',
           \/ (\E s \in Symbols : EngineTick(s)) \/ Cancel \/ ShutdownClients \/ UNCHANGED vars
           \/ \E b \in Broadcasters : MarshalFails(b)
    PROVE  Told'
<1> USE DEF HubInv
<1>1. /\ UNCHANGED <<stage, subs, initial, asked, drops, bcast, published, queue, taken>>
      /\ clients' \subseteq clients
  BY DEF EngineTick, Cancel, ShutdownClients, CloseClients, MarshalFails, vars, client, sending,
         engine
<1>2. Streams' = Streams
  BY <1>1, StreamsKept
<1>3. \A c \in Clients : \A s, n : Heard(c, s, n) => Heard(c, s, n)'
  BY <1>1, <1>2, HeardKept
<1>4. \A c \in Clients, s \in Symbols : Listening(c, s)' <=> Listening(c, s)
  BY <1>1 DEF Listening
<1>5. \A s \in Symbols : latest[s] <= latest'[s]
  <2>1. \A s \in Symbols : latest[s] \in Nat
    BY DEF SendTypes
  <2>2. \A s \in Symbols : latest'[s] = latest[s] \/ latest'[s] = latest[s] + 1
    BY DEF EngineTick, Cancel, ShutdownClients, MarshalFails, vars, engine, SendTypes
  <2> QED BY <2>1, <2>2
<1> QED BY <1>1, <1>3, <1>4, <1>5, ToldKept DEF ClientTypes

\* A client that dropped nothing and asked for nothing knows every price whose
\* broadcast is complete, whatever the order of registration, initial state and
\* broadcasts, for any number of clients and symbols.
THEOREM HubCaughtUp == Spec => []CaughtUp
<1>1. HubInv /\ HubInv' /\ Told /\ [Next]_vars => Told'
  <2> SUFFICES ASSUME HubInv, HubInv', Told, [Next]_vars PROVE Told'
    OBVIOUS
  <2>1. CASE \E c \in Clients : \/ \E r \in Requests : Connect(c, r)
                               \/ HandleWS(c) \/ PeerGone(c) \/ Serve(c)
                               \/ \E a \in Actions : ReadAction(c, a)
    BY <2>1, ToldClients, ToldInitially DEF HandleWS
  <2>2. CASE \/ Heartbeat
             \/ \E s \in Symbols : BroadcastTick(s)
             \/ \E b \in Adapters, s \in Symbols : BroadcastSourceStatus(b, s)
    BY <2>2, ToldNumber
  <2>3. CASE \E b \in Broadcasters : Deliver(b)
    BY <2>3, ToldDeliver
  <2>4. CASE \/ (\E s \in Symbols : EngineTick(s)) \/ Cancel \/ ShutdownClients \/ UNCHANGED vars
             \/ \E b \in Broadcasters : MarshalFails(b)
    BY <2>4, ToldOthers
  <2> QED BY <2>1, <2>2, <2>3, <2>4 DEF Next
<1>2. HubInv /\ Told => CaughtUp
  BY ToldCatchesUp DEF HubInv
<1>3. Init => Told
  BY ToldInit
<1> QED BY <1>1, <1>2, <1>3, HubInvariant, PTL DEF Spec

=============================================================================
