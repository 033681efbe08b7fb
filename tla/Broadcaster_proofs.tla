------------------------- MODULE Broadcaster_proofs -------------------------
(***************************************************************************)
(* Types, the start, the order of the events of a key from its engine to   *)
(* the hub, and that none is lost past the engine's channel, for any keys,  *)
(* capacities and bounds.                                                  *)
(***************************************************************************)
EXTENDS Broadcaster, SequenceTheorems, FiniteSetTheorems, TLAPS

-----------------------------------------------------------------------------
(* Keys, channels and batches *)

\* The channels a key goes through.
LEMMA Names ==
    /\ \A k \in Keys : Output(k) \in Outputs /\ k.type \in TypesUsed /\ Output(k)[1] = k.type
    /\ \A o \in Outputs : o[1] \in TypesUsed
    /\ \A k, l \in Keys : Output(k) = Output(l) => k.type = l.type
  BY DEF Output, Outputs, TypesUsed

\* A sequence without one of its elements.
LEMMA Removed ==
    ASSUME NEW S, NEW q \in Seq(S), NEW i \in DOMAIN q
    PROVE  /\ RemoveAt(q, i) \in Seq(S)
           /\ Len(RemoveAt(q, i)) = Len(q) - 1
           /\ \A j \in DOMAIN RemoveAt(q, i) : RemoveAt(q, i)[j] = IF j < i THEN q[j] ELSE q[j + 1]
<1> DEFINE a == SubSeq(q, 1, i - 1)
           b == SubSeq(q, i + 1, Len(q))
<1>1. Len(q) \in Nat /\ i \in 1..Len(q)
  OBVIOUS
<1>2. /\ a \in Seq(S) /\ Len(a) = i - 1
      /\ \A j \in 1..i - 1 : a[j] = q[j]
  BY <1>1
<1>3. /\ b \in Seq(S) /\ Len(b) = Len(q) - i
      /\ \A j \in 1..Len(q) - i : b[j] = q[i + j]
  BY <1>1
<1> HIDE DEF a, b
<1>4. /\ a \o b \in Seq(S) /\ Len(a \o b) = Len(q) - 1 /\ DOMAIN (a \o b) = 1..Len(q) - 1
      /\ \A j \in 1..Len(q) - 1 : (a \o b)[j] = IF j < i THEN a[j] ELSE b[j - (i - 1)]
  <2>1. /\ a \o b \in Seq(S) /\ Len(a \o b) = Len(a) + Len(b)
        /\ \A j \in 1..Len(a) + Len(b) : (a \o b)[j] = IF j <= Len(a) THEN a[j] ELSE b[j - Len(a)]
    BY <1>2, <1>3, ConcatProperties
  <2>2. Len(a) + Len(b) = Len(q) - 1 /\ \A j \in Nat : j <= Len(a) <=> j < i
    BY <1>1, <1>2, <1>3
  <2>3. DOMAIN (a \o b) = 1..Len(q) - 1
    BY <2>1, <2>2
  <2> QED BY <1>1, <1>2, <2>1, <2>2, <2>3
<1>5. ASSUME NEW j \in 1..Len(q) - 1 PROVE (a \o b)[j] = IF j < i THEN q[j] ELSE q[j + 1]
  <2>1. CASE j < i
    BY <1>1, <1>2, <1>4, <2>1
  <2>2. CASE ~(j < i)
    <3>1. j - (i - 1) \in 1..Len(q) - i /\ i + (j - (i - 1)) = j + 1
      BY <1>1, <2>2
    <3> QED BY <1>3, <1>4, <2>2, <3>1
  <2> QED BY <2>1, <2>2
<1> QED BY <1>4, <1>5 DEF RemoveAt, a, b

\* A message recorded goes behind messages of the batch, whose order stays.
LEMMA Recorded ==
    ASSUME NEW batch \in Seq(Event), NEW msg \in Event
    PROVE  \E rest \in Seq(Event) :
               /\ Record(batch, msg) = Append(rest, msg)
               /\ Len(rest) <= Len(batch)
               /\ \A i \in DOMAIN rest : \E a \in DOMAIN batch : rest[i] = batch[a]
               /\ \A i, j \in DOMAIN rest : i < j =>
                     \E a, b \in DOMAIN batch : a < b /\ rest[i] = batch[a] /\ rest[j] = batch[b]
<1> DEFINE pending == {i \in DOMAIN batch : batch[i].key = msg.key}
<1>1. CASE pending = {}
  <2>1. Record(batch, msg) = Append(batch, msg)
    BY <1>1 DEF Record
  <2> QED BY <2>1
<1>2. CASE pending # {}
  <2> DEFINE c == CHOOSE i \in pending : TRUE
             rest == RemoveAt(batch, c)
  <2>1. c \in DOMAIN batch
    BY <1>2
  <2>2. Record(batch, msg) = Append(rest, msg)
    BY <1>2 DEF Record
  <2> HIDE DEF c, rest, pending
  <2>3. /\ rest \in Seq(Event) /\ Len(rest) = Len(batch) - 1
        /\ \A j \in DOMAIN rest : rest[j] = IF j < c THEN batch[j] ELSE batch[j + 1]
    BY <2>1, Removed DEF rest
  <2>4. Len(batch) \in Nat /\ DOMAIN batch = 1..Len(batch) /\ DOMAIN rest = 1..Len(batch) - 1
        /\ c \in 1..Len(batch)
    BY <2>1, <2>3
  <2>5. ASSUME NEW j \in DOMAIN rest
        PROVE  /\ (IF j < c THEN j ELSE j + 1) \in DOMAIN batch
               /\ rest[j] = batch[IF j < c THEN j ELSE j + 1]
    BY <2>3, <2>4
  <2>6. \A i \in DOMAIN rest : \E a \in DOMAIN batch : rest[i] = batch[a]
    BY <2>5
  <2>7. ASSUME NEW i \in DOMAIN rest, NEW j \in DOMAIN rest, i < j
        PROVE  \E a, b \in DOMAIN batch : a < b /\ rest[i] = batch[a] /\ rest[j] = batch[b]
    <3>1. (IF i < c THEN i ELSE i + 1) < (IF j < c THEN j ELSE j + 1)
      BY <2>4, <2>7
    <3> QED BY <2>5, <3>1
  <2>8. Len(rest) <= Len(batch)
    BY <2>3, <2>4
  <2> QED BY <2>2, <2>3, <2>6, <2>7, <2>8
<1> QED BY <1>1, <1>2

LEMMA RecordType ==
    \A batch \in Seq(Event), msg \in Event :
        /\ Record(batch, msg) \in Seq(Event) /\ Record(batch, msg) # <<>>
        /\ Len(Record(batch, msg)) \in 1..Len(batch) + 1
<1> SUFFICES ASSUME NEW batch \in Seq(Event), NEW msg \in Event
             PROVE  /\ Record(batch, msg) \in Seq(Event) /\ Record(batch, msg) # <<>>
                    /\ Len(Record(batch, msg)) \in 1..Len(batch) + 1
  OBVIOUS
<1>1. PICK rest \in Seq(Event) : Record(batch, msg) = Append(rest, msg) /\ Len(rest) <= Len(batch)
  BY Recorded
<1>2. Append(rest, msg) \in Seq(Event) /\ Append(rest, msg) # <<>> /\ Len(Append(rest, msg)) = Len(rest) + 1
  OBVIOUS
<1>3. Len(rest) \in Nat /\ Len(batch) \in Nat
  OBVIOUS
<1> QED BY <1>1, <1>2, <1>3

-----------------------------------------------------------------------------
(* Types *)

\* A forwarder's hand holds one event, and a batch is sent while it has messages.
HandsInv ==
    /\ \A o \in Outputs : Len(multi[o]) <= 1
    /\ \A t \in TypesUsed : Len(proxy[t]) <= 1
    /\ loop.at = "send" => loop.batch # <<>>

Typed == TypeOK /\ HandsInv

LEMMA TypeInit == Init => Typed
<1> SUFFICES ASSUME Init PROVE Typed
  OBVIOUS
<1>1. <<>> \in Seq(Event) /\ Len(<<>>) = 0
  OBVIOUS
<1>2. TypeOK
  <2>1. /\ stage \in {"connecting", "waiting", "running", "attached", "ended"}
        /\ pools \subseteq {"ingest", "query"} /\ attempts \in Nat /\ store \in BOOLEAN
        /\ made \in [Keys -> Nat] /\ sent \in [Keys -> Nat]
        /\ cancelled \in BOOLEAN
    BY DEF Init
  <2>4. accepted \in Nat /\ coalesced \in Nat /\ broadcasts \in Nat
    BY DEF Init
  <2>2. /\ engineCh \in [Outputs -> Seq(Event)] /\ multi \in [Outputs -> Seq(Event)]
        /\ multiCh \in [TypesUsed -> Seq(Event)] /\ proxy \in [TypesUsed -> Seq(Event)]
        /\ proxyCh \in [TypesUsed -> Seq(Event)]
    BY <1>1 DEF Init
  <2>3. loop \in [at : {"collect", "send", "ended"}, batch : Seq(Event), drained : Nat]
    BY <1>1 DEF Init, Collecting
  <2> QED BY <2>1, <2>2, <2>3, <2>4 DEF TypeOK
<1>3. HandsInv
  BY <1>1 DEF Init, HandsInv, Collecting
<1> QED BY <1>2, <1>3 DEF Typed

\* An element taken from one sequence and put at the end of another.
LEMMA Passing ==
    \A q, r \in Seq(Event) :
        /\ q # <<>> => /\ Head(q) \in Event /\ Tail(q) \in Seq(Event)
                       /\ <<Head(q)>> \in Seq(Event) /\ Len(<<Head(q)>>) = 1
        /\ q \o r \in Seq(Event)
  OBVIOUS

LEMMA TypeStep == Typed /\ [Next]_vars => Typed'
<1> SUFFICES ASSUME Typed, [Next]_vars PROVE Typed'
  OBVIOUS
<1> USE DEF Typed
<1>0. <<>> \in Seq(Event) /\ Len(<<>>) = 0
  OBVIOUS
<1>1. CASE Start \/ Cancel
  <2>1. UNCHANGED <<made, engineCh, multi, multiCh, proxy, proxyCh, loop, sent, accepted, coalesced, broadcasts>>
    BY <1>1 DEF Start, OpenPool, ConnectFails, Retry, StartRuntime, Attach, ClosePools, Cancel,
                channels, counters
  <2>2. /\ stage' \in {"connecting", "waiting", "running", "attached", "ended"}
        /\ pools' \subseteq {"ingest", "query"} /\ attempts' \in Nat /\ store' \in BOOLEAN /\ cancelled' \in BOOLEAN
    <3>0. /\ stage \in {"connecting", "waiting", "running", "attached", "ended"}
          /\ pools \subseteq {"ingest", "query"} /\ attempts \in Nat /\ store \in BOOLEAN /\ cancelled \in BOOLEAN
      BY DEF TypeOK
    <3>1. CASE OpenPool
      BY <3>0, <3>1 DEF OpenPool
    <3>2. CASE ConnectFails
      BY <3>0, <3>2 DEF ConnectFails
    <3>3. CASE Retry \/ StartRuntime
      BY <3>0, <3>3 DEF Retry, StartRuntime
    <3>4. CASE Attach \/ ClosePools
      BY <3>0, <3>4 DEF Attach, ClosePools
    <3>5. CASE Cancel
      BY <3>0, <3>5 DEF Cancel, startup
    <3> QED BY <1>1, <3>1, <3>2, <3>3, <3>4, <3>5 DEF Start
  <2> QED BY <2>1, <2>2 DEF TypeOK, HandsInv
<1>2. ASSUME NEW k \in Keys, Emit(k) PROVE Typed'
  <2>1. Output(k) \in Outputs /\ engineCh[Output(k)] \in Seq(Event) /\ made[k] \in Nat /\ made[k] + 1 \in Nat
    BY Names DEF TypeOK
  <2>2. [key |-> k, n |-> made[k] + 1] \in Event
    BY <2>1 DEF Event
  <2>3. Append(engineCh[Output(k)], [key |-> k, n |-> made[k] + 1]) \in Seq(Event)
    BY <2>1, <2>2
  <2>4. engineCh' \in [Outputs -> Seq(Event)]
    BY <1>2, <2>1, <2>3 DEF Emit, TypeOK
  <2>5. made' \in [Keys -> Nat]
    BY <1>2, <2>1 DEF Emit, TypeOK
  <2>6. accepted' \in Nat
    BY <1>2 DEF Emit, TypeOK
  <2> QED BY <1>2, <2>4, <2>5, <2>6 DEF Emit, TypeOK, HandsInv, startup
<1>3. ASSUME NEW o \in Outputs, MultiForward(o) PROVE Typed'
  <2>1. o[1] \in TypesUsed
    BY Names
  <2>2. engineCh[o] \in Seq(Event) /\ multi[o] \in Seq(Event) /\ multiCh[o[1]] \in Seq(Event)
    BY <2>1 DEF TypeOK
  <2>3. CASE /\ multi[o] = <<>> /\ engineCh[o] # <<>>
             /\ multi' = [multi EXCEPT ![o] = <<Head(engineCh[o])>>]
             /\ engineCh' = [engineCh EXCEPT ![o] = Tail(@)]
             /\ UNCHANGED multiCh
    <3>1. multi' \in [Outputs -> Seq(Event)] /\ engineCh' \in [Outputs -> Seq(Event)]
      BY <2>2, <2>3, Passing DEF TypeOK
    <3>2. \A p \in Outputs : Len(multi'[p]) <= 1
      BY <2>2, <2>3, Passing DEF TypeOK, HandsInv
    <3> QED BY <1>3, <2>3, <3>1, <3>2 DEF MultiForward, TypeOK, HandsInv, startup, counters
  <2>4. CASE /\ multi[o] # <<>> /\ Len(multiCh[o[1]]) < MultiCap
             /\ multiCh' = [multiCh EXCEPT ![o[1]] = @ \o multi[o]]
             /\ multi' = [multi EXCEPT ![o] = <<>>]
             /\ UNCHANGED engineCh
    <3>1. multi' \in [Outputs -> Seq(Event)] /\ multiCh' \in [TypesUsed -> Seq(Event)]
      BY <1>0, <2>1, <2>2, <2>4, Passing DEF TypeOK
    <3>2. \A p \in Outputs : Len(multi'[p]) <= 1
      BY <1>0, <2>2, <2>4 DEF TypeOK, HandsInv
    <3> QED BY <1>3, <2>4, <3>1, <3>2 DEF MultiForward, TypeOK, HandsInv, startup, counters
  <2> QED BY <1>3, <2>3, <2>4 DEF MultiForward
<1>4. ASSUME NEW t \in TypesUsed, ProxyForward(t) PROVE Typed'
  <2>2. multiCh[t] \in Seq(Event) /\ proxy[t] \in Seq(Event) /\ proxyCh[t] \in Seq(Event)
    BY DEF TypeOK
  <2>3. CASE /\ proxy[t] = <<>> /\ multiCh[t] # <<>>
             /\ proxy' = [proxy EXCEPT ![t] = <<Head(multiCh[t])>>]
             /\ multiCh' = [multiCh EXCEPT ![t] = Tail(@)]
             /\ UNCHANGED proxyCh
    <3>1. proxy' \in [TypesUsed -> Seq(Event)] /\ multiCh' \in [TypesUsed -> Seq(Event)]
      BY <2>2, <2>3, Passing DEF TypeOK
    <3>2. \A p \in TypesUsed : Len(proxy'[p]) <= 1
      BY <2>2, <2>3, Passing DEF TypeOK, HandsInv
    <3> QED BY <1>4, <2>3, <3>1, <3>2 DEF ProxyForward, TypeOK, HandsInv, startup, counters
  <2>4. CASE /\ proxy[t] # <<>> /\ Len(proxyCh[t]) < ProxyCap
             /\ proxyCh' = [proxyCh EXCEPT ![t] = @ \o proxy[t]]
             /\ proxy' = [proxy EXCEPT ![t] = <<>>]
             /\ UNCHANGED multiCh
    <3>1. proxy' \in [TypesUsed -> Seq(Event)] /\ proxyCh' \in [TypesUsed -> Seq(Event)]
      BY <1>0, <2>2, <2>4, Passing DEF TypeOK
    <3>2. \A p \in TypesUsed : Len(proxy'[p]) <= 1
      BY <1>0, <2>2, <2>4 DEF TypeOK, HandsInv
    <3> QED BY <1>4, <2>4, <3>1, <3>2 DEF ProxyForward, TypeOK, HandsInv, startup, counters
  <2> QED BY <1>4, <2>3, <2>4 DEF ProxyForward
<1>5. ASSUME NEW t \in TypesUsed, Collect(t) PROVE Typed'
  <2> DEFINE r == Record(loop.batch, Head(proxyCh[t]))
  <2>1. /\ proxyCh[t] \in Seq(Event) /\ proxyCh[t] # <<>>
        /\ loop.batch \in Seq(Event) /\ loop.drained \in Nat
    BY <1>5 DEF Collect, TypeOK
  <2>2. r \in Seq(Event) /\ Len(r) \in 1..Len(loop.batch) + 1
    BY <2>1, Passing, RecordType
  <2> HIDE DEF r
  <2>3. loop' = [at |-> "collect", batch |-> r, drained |-> loop.drained + 1]
    BY <1>5 DEF Collect, TypeOK, r
  <2>4. coalesced' \in Nat
    <3>1. Len(loop.batch) \in Nat /\ coalesced \in Nat
      BY <2>1 DEF TypeOK
    <3>2. loop'.batch = r /\ coalesced' = coalesced + Len(loop.batch) + 1 - Len(loop'.batch)
      <4>1. loop'.batch = r
        BY <2>3
      <4>2. coalesced' = coalesced + Len(loop.batch) + 1 - Len(loop'.batch)
        BY <1>5, Zenon DEF Collect
      <4> QED BY <4>1, <4>2
    <3>3. coalesced' = coalesced + Len(loop.batch) + 1 - Len(r)
      BY <3>2
    <3> QED BY <2>2, <3>1, <3>3
  <2>5. proxyCh' \in [TypesUsed -> Seq(Event)]
    BY <1>5, <2>1, Passing DEF Collect, TypeOK
  <2>6. loop' \in [at : {"collect", "send", "ended"}, batch : Seq(Event), drained : Nat]
        /\ loop'.at # "send"
    BY <2>1, <2>2, <2>3
  <2>7. UNCHANGED <<stage, pools, attempts, store, made, engineCh, multi, multiCh, proxy, sent, accepted,
                    broadcasts, cancelled>>
    BY <1>5 DEF Collect, startup
  <2> QED BY <2>4, <2>5, <2>6, <2>7 DEF TypeOK, HandsInv
<1>6. CASE StartBroadcast
  BY <1>6 DEF StartBroadcast, TypeOK, HandsInv, startup, channels, counters
<1>7. CASE Broadcast
  <2>1. loop.batch \in Seq(Event) /\ loop.batch # <<>>
    BY <1>7 DEF Broadcast, TypeOK, HandsInv
  <2>2. Head(loop.batch) \in Event /\ Tail(loop.batch) \in Seq(Event)
        /\ (Len(loop.batch) # 1 => Tail(loop.batch) # <<>>)
    <3>1. \A q \in Seq(Event) : q # <<>> /\ Len(q) # 1 => Tail(q) # <<>>
      <4> SUFFICES ASSUME NEW q \in Seq(Event), q # <<>>, Len(q) # 1 PROVE Tail(q) # <<>>
        OBVIOUS
      <4>1. Len(Tail(q)) = Len(q) - 1 /\ Len(q) \in Nat
        OBVIOUS
      <4> QED BY <4>1
    <3> QED BY <2>1, <3>1, Passing
  <2>3. sent' \in [Keys -> Nat]
    BY <1>7, <2>2 DEF Broadcast, TypeOK, Event
  <2>4. loop' \in [at : {"collect", "send", "ended"}, batch : Seq(Event), drained : Nat]
    BY <1>0, <1>7, <2>2 DEF Broadcast, TypeOK, Collecting
  <2>5. loop'.at = "send" => loop'.batch # <<>>
    BY <1>7, <2>2 DEF Broadcast, TypeOK, Collecting
  <2>6. broadcasts' \in Nat
    BY <1>7 DEF Broadcast, TypeOK
  <2>7. UNCHANGED <<stage, pools, attempts, store, made, engineCh, multi, multiCh, proxy, proxyCh, accepted,
                    coalesced, cancelled>>
    BY <1>7 DEF Broadcast, startup, channels
  <2> QED BY <2>3, <2>4, <2>5, <2>6, <2>7 DEF TypeOK, HandsInv
<1>8. CASE LoopReturns
  BY <1>0, <1>8 DEF LoopReturns, TypeOK, HandsInv, startup, channels, counters, Collecting
<1>9. CASE UNCHANGED vars
  BY <1>9 DEF vars, TypeOK, HandsInv, startup, channels, counters
<1> QED BY <1>1, <1>2, <1>3, <1>4, <1>5, <1>6, <1>7, <1>8, <1>9 DEF Next, BroadcastLoop

\* Every variable of the start, of the forwarders and of the broadcast loop keeps
\* its type, for any keys, capacities and bounds.
THEOREM BroadcasterTypeCorrect == Spec => []TypeOK
<1>1. Spec => []Typed
  BY TypeInit, TypeStep, PTL DEF Spec
<1> QED BY <1>1, PTL DEF Typed

-----------------------------------------------------------------------------
(* The start *)

\* Nothing is past the engines' channels before Attach.
StageInv ==
    /\ stage \in {"running", "attached"} => (UseDB => store)
    /\ stage \in {"waiting", "ended"} => pools = {}
    /\ stage # "attached" =>
          /\ \A o \in Outputs : multi[o] = <<>>
          /\ \A t \in TypesUsed : multiCh[t] = <<>> /\ proxy[t] = <<>> /\ proxyCh[t] = <<>>
          /\ loop.batch = <<>>
          /\ \A k \in Keys : sent[k] = 0

LEMMA StageInit == Init => StageInv
  BY DEF Init, StageInv, Collecting

LEMMA StageStep == Typed /\ StageInv /\ [Next]_vars => StageInv'
<1> SUFFICES ASSUME Typed, StageInv, [Next]_vars PROVE StageInv'
  OBVIOUS
<1> USE DEF Typed, StageInv
<1>1. CASE Start
  <2>1. UNCHANGED <<multi, multiCh, proxy, proxyCh, loop, sent>> /\ (stage # "attached" \/ stage' = stage)
    BY <1>1 DEF Start, OpenPool, ConnectFails, Retry, StartRuntime, Attach, ClosePools, channels
  <2>2. UNCHANGED <<multi, multiCh, proxy, proxyCh, loop, sent>>
    BY <1>1 DEF Start, OpenPool, ConnectFails, Retry, StartRuntime, Attach, ClosePools, channels
  <2>3. /\ stage' \in {"running", "attached"} => (UseDB => store')
        /\ stage' \in {"waiting", "ended"} => pools' = {}
    BY <1>1 DEF Start, OpenPool, ConnectFails, Retry, StartRuntime, Attach, ClosePools
  <2> QED BY <2>1, <2>2, <2>3
<1>2. CASE (\E k \in Keys : Emit(k)) \/ Cancel \/ StartBroadcast \/ LoopReturns \/ UNCHANGED vars
  <2>1. UNCHANGED <<stage, store, pools, multi, multiCh, proxy, proxyCh, sent>> /\ loop'.batch = loop.batch
    BY <1>2 DEF Emit, Cancel, StartBroadcast, LoopReturns, vars, startup, channels, Collecting, TypeOK
  <2> QED BY <2>1
<1>3. CASE \E o \in Outputs : MultiForward(o)
  BY <1>3 DEF MultiForward, startup
<1>4. CASE \E t \in TypesUsed : ProxyForward(t)
  BY <1>4 DEF ProxyForward, startup
<1>5. CASE (\E t \in TypesUsed : Collect(t)) \/ Broadcast
  <2>1. stage = "attached" /\ UNCHANGED <<stage, store, pools>>
    BY <1>5 DEF Collect, Broadcast, startup, HandsInv
  <2> QED BY <2>1
<1> QED BY <1>1, <1>2, <1>3, <1>4, <1>5 DEF Next, BroadcastLoop

\* Whatever the capacities, nothing is broadcast before the database has answered
\* and an engine is attached, and an attempt that fails leaves no pool open.
THEOREM BroadcasterNothingBeforeRuntime == Spec => []NothingBeforeRuntime
<1>1. Typed /\ StageInv => NothingBeforeRuntime
  <2> SUFFICES ASSUME Typed, StageInv PROVE NothingBeforeRuntime
    OBVIOUS
  <2>1. ASSUME NEW k \in Keys, sent[k] > 0 PROVE stage = "attached"
    BY <2>1 DEF StageInv
  <2> QED BY <2>1 DEF NothingBeforeRuntime, StageInv
<1> QED BY <1>1, TypeInit, TypeStep, StageInit, StageStep, PTL DEF Spec

-----------------------------------------------------------------------------
(* Channels carry their own keys *)

Carries(q, K) == \A i \in DOMAIN q : q[i].key \in K
OfOutput(o) == {k \in Keys : Output(k) = o}
OfType(t) == {k \in Keys : k.type = t}

RoutedInv ==
    /\ \A o \in Outputs : Carries(engineCh[o], OfOutput(o)) /\ Carries(multi[o], OfOutput(o))
    /\ \A t \in TypesUsed : /\ Carries(multiCh[t], OfType(t)) /\ Carries(proxy[t], OfType(t))
                            /\ Carries(proxyCh[t], OfType(t))

LEMMA CarriesMoves ==
    \A q, r \in Seq(Event) : \A K :
        /\ Carries(<<>>, K)
        /\ Carries(q, K) /\ q # <<>> =>
              Head(q).key \in K /\ Carries(<<Head(q)>>, K) /\ Carries(Tail(q), K)
        /\ Carries(q, K) /\ Carries(r, K) => Carries(q \o r, K)
<1> SUFFICES ASSUME NEW q \in Seq(Event), NEW r \in Seq(Event), NEW K
             PROVE  /\ Carries(<<>>, K)
                    /\ Carries(q, K) /\ q # <<>> =>
                          Head(q).key \in K /\ Carries(<<Head(q)>>, K) /\ Carries(Tail(q), K)
                    /\ Carries(q, K) /\ Carries(r, K) => Carries(q \o r, K)
  OBVIOUS
<1>1. Carries(<<>>, K)
  BY DEF Carries
<1>2. ASSUME Carries(q, K), q # <<>>
      PROVE  Head(q).key \in K /\ Carries(<<Head(q)>>, K) /\ Carries(Tail(q), K)
  <2>1. 1 \in DOMAIN q /\ Head(q) = q[1]
    BY <1>2
  <2>2. \A i \in DOMAIN Tail(q) : i + 1 \in DOMAIN q /\ Tail(q)[i] = q[i + 1]
    BY <1>2
  <2> QED BY <1>2, <2>1, <2>2 DEF Carries
<1>3. ASSUME Carries(q, K), Carries(r, K) PROVE Carries(q \o r, K)
  <2> SUFFICES ASSUME NEW i \in DOMAIN (q \o r) PROVE (q \o r)[i].key \in K
    BY DEF Carries
  <2>1. CASE i <= Len(q)
    <3>1. i \in DOMAIN q /\ (q \o r)[i] = q[i]
      BY <2>1
    <3> QED BY <1>3, <3>1 DEF Carries
  <2>2. CASE ~(i <= Len(q))
    <3>1. i - Len(q) \in DOMAIN r /\ (q \o r)[i] = r[i - Len(q)]
      BY <2>2
    <3> QED BY <1>3, <3>1 DEF Carries
  <2> QED BY <2>1, <2>2
<1> QED BY <1>1, <1>2, <1>3

LEMMA RoutedInit == Init => RoutedInv
  BY CarriesMoves DEF Init, RoutedInv, Carries

LEMMA RoutedStep == Typed /\ RoutedInv /\ [Next]_vars => RoutedInv'
<1> SUFFICES ASSUME Typed, RoutedInv, [Next]_vars PROVE RoutedInv'
  OBVIOUS
<1> USE DEF Typed
<1>1. CASE Start \/ Cancel \/ StartBroadcast \/ Broadcast \/ LoopReturns \/ UNCHANGED vars
  <2>1. UNCHANGED <<engineCh, multi, multiCh, proxy, proxyCh>>
    BY <1>1 DEF Start, OpenPool, ConnectFails, Retry, StartRuntime, Attach, ClosePools, Cancel,
                StartBroadcast, Broadcast, LoopReturns, vars, channels
  <2> QED BY <2>1 DEF RoutedInv
<1>2. ASSUME NEW k \in Keys, Emit(k) PROVE RoutedInv'
  <2> DEFINE e == [key |-> k, n |-> made[k] + 1]
  <2>0. e \in Event /\ e.key = k
    <3>1. made[k] + 1 \in Nat
      BY DEF TypeOK
    <3> QED BY <3>1 DEF Event
  <2> HIDE DEF e
  <2>1. engineCh[Output(k)] \in Seq(Event) /\ Output(k) \in Outputs /\ <<e>> \in Seq(Event)
    BY <2>0, Names DEF TypeOK
  <2>2. Carries(engineCh[Output(k)], OfOutput(Output(k))) /\ Carries(<<e>>, OfOutput(Output(k)))
    BY <2>0, <2>1 DEF RoutedInv, Carries, OfOutput
  <2>3. Append(engineCh[Output(k)], e) = engineCh[Output(k)] \o <<e>>
    BY <2>0, <2>1
  <2>4. Carries(engineCh[Output(k)] \o <<e>>, OfOutput(Output(k)))
    BY <2>1, <2>2, CarriesMoves, Zenon
  <2>5. \A o \in Outputs : Carries(engineCh'[o], OfOutput(o))
    BY <1>2, <2>1, <2>3, <2>4 DEF Emit, RoutedInv, TypeOK, e
  <2> QED BY <1>2, <2>5 DEF Emit, RoutedInv
<1>3. ASSUME NEW o \in Outputs, MultiForward(o) PROVE RoutedInv'
  <2>1. o[1] \in TypesUsed /\ OfOutput(o) \subseteq OfType(o[1])
    BY Names DEF OfOutput, OfType
  <2>2. engineCh[o] \in Seq(Event) /\ multi[o] \in Seq(Event) /\ multiCh[o[1]] \in Seq(Event)
    BY <2>1 DEF TypeOK
  <2>3. Carries(multi[o], OfType(o[1])) /\ Carries(multiCh[o[1]], OfType(o[1]))
    BY <2>1 DEF RoutedInv, Carries
  <2>4. Carries(multiCh[o[1]] \o multi[o], OfType(o[1])) /\ Carries(<<>>, OfOutput(o))
    <3>1. Carries(multiCh[o[1]] \o multi[o], OfType(o[1]))
      <4>1. \A q, r \in Seq(Event) : \A K : Carries(q, K) /\ Carries(r, K) => Carries(q \o r, K)
        BY CarriesMoves
      <4> QED BY <2>2, <2>3, <4>1
    <3>2. Carries(<<>>, OfOutput(o))
      BY DEF Carries
    <3> QED BY <3>1, <3>2
  <2>5. engineCh[o] # <<>> => Carries(<<Head(engineCh[o])>>, OfOutput(o)) /\ Carries(Tail(engineCh[o]), OfOutput(o))
    BY <2>2, CarriesMoves DEF RoutedInv
  <2>6. \A p \in Outputs : Carries(engineCh'[p], OfOutput(p)) /\ Carries(multi'[p], OfOutput(p))
    BY <1>3, <2>4, <2>5 DEF MultiForward, RoutedInv, TypeOK
  <2>7. \A t \in TypesUsed : Carries(multiCh'[t], OfType(t))
    BY <1>3, <2>1, <2>4 DEF MultiForward, RoutedInv, TypeOK
  <2> QED BY <1>3, <2>6, <2>7 DEF MultiForward, RoutedInv
<1>4. ASSUME NEW t \in TypesUsed, ProxyForward(t) PROVE RoutedInv'
  <2>2. multiCh[t] \in Seq(Event) /\ proxy[t] \in Seq(Event) /\ proxyCh[t] \in Seq(Event)
    BY DEF TypeOK
  <2>3. Carries(proxyCh[t] \o proxy[t], OfType(t)) /\ Carries(<<>>, OfType(t))
    BY <2>2, CarriesMoves DEF RoutedInv
  <2>4. multiCh[t] # <<>> => Carries(<<Head(multiCh[t])>>, OfType(t)) /\ Carries(Tail(multiCh[t]), OfType(t))
    BY <2>2, CarriesMoves DEF RoutedInv
  <2>5. \A u \in TypesUsed : Carries(multiCh'[u], OfType(u)) /\ Carries(proxy'[u], OfType(u))
                             /\ Carries(proxyCh'[u], OfType(u))
    BY <1>4, <2>3, <2>4 DEF ProxyForward, RoutedInv, TypeOK
  <2> QED BY <1>4, <2>5 DEF ProxyForward, RoutedInv
<1>5. ASSUME NEW t \in TypesUsed, Collect(t) PROVE RoutedInv'
  <2>1. proxyCh[t] \in Seq(Event) /\ proxyCh[t] # <<>>
    BY <1>5 DEF Collect, TypeOK
  <2>2. Carries(Tail(proxyCh[t]), OfType(t))
    BY <2>1, CarriesMoves DEF RoutedInv
  <2>3. \A u \in TypesUsed : Carries(proxyCh'[u], OfType(u))
    BY <1>5, <2>2 DEF Collect, RoutedInv, TypeOK
  <2> QED BY <1>5, <2>3 DEF Collect, RoutedInv
<1> QED BY <1>1, <1>2, <1>3, <1>4, <1>5 DEF Next, BroadcastLoop

-----------------------------------------------------------------------------
(* The order of the events of a key *)

\* The numbers of the events of a key in a sequence.
Of(k, q) == {q[i].n : i \in {j \in DOMAIN q : q[j].key = k}}

\* The events of every key are in order.
Rising(q) == \A i, j \in DOMAIN q : i < j /\ q[i].key = q[j].key => q[i].n < q[j].n

\* The way of the events of a key, from the batch back to its engine.
Path(k) == <<Of(k, loop.batch), Of(k, proxyCh[k.type]), Of(k, proxy[k.type]), Of(k, multiCh[k.type]),
             Of(k, multi[Output(k)]), Of(k, engineCh[Output(k)])>>

\* Sets of numbers, all of one less than all of the next, between two numbers.
Chain(c, low, high) ==
    \A a \in 1..6 : \A n \in c[a] :
        /\ low < n /\ n <= high
        /\ \A b \in 1..6 : \A m \in c[b] : a < b => n < m

OrderInv ==
    /\ Rising(loop.batch)
    /\ \A t \in TypesUsed : Rising(proxyCh[t]) /\ Rising(proxy[t]) /\ Rising(multiCh[t])
    /\ \A o \in Outputs : Rising(multi[o]) /\ Rising(engineCh[o])
    /\ \A k \in Keys : Chain(Path(k), sent[k], made[k]) /\ sent[k] <= made[k]

\* The first event of a sequence comes before the rest.
LEMMA TakeHead ==
    ASSUME NEW q \in Seq(Event), q # <<>>, Rising(q)
    PROVE  /\ Rising(Tail(q)) /\ Rising(<<Head(q)>>)
           /\ \A k : Of(k, Tail(q)) \subseteq Of(k, q)
           /\ \A k : Of(k, <<Head(q)>>) = IF k = Head(q).key THEN {Head(q).n} ELSE {}
           /\ Head(q).n \in Of(Head(q).key, q)
           /\ \A m \in Of(Head(q).key, Tail(q)) : Head(q).n < m
<1>1. 1 \in DOMAIN q /\ Head(q) = q[1]
  OBVIOUS
<1>2. \A i \in DOMAIN Tail(q) : i + 1 \in DOMAIN q /\ Tail(q)[i] = q[i + 1] /\ 1 < i + 1
  OBVIOUS
<1>3. Rising(Tail(q))
  <2> SUFFICES ASSUME NEW i \in DOMAIN Tail(q), NEW j \in DOMAIN Tail(q), i < j,
                      Tail(q)[i].key = Tail(q)[j].key
               PROVE  Tail(q)[i].n < Tail(q)[j].n
    BY DEF Rising
  <2>1. i + 1 < j + 1
    OBVIOUS
  <2> QED BY <1>2, <2>1 DEF Rising
<1>4. Rising(<<Head(q)>>) /\ \A k : Of(k, <<Head(q)>>) = IF k = Head(q).key THEN {Head(q).n} ELSE {}
  <2>1. DOMAIN <<Head(q)>> = {1} /\ <<Head(q)>>[1] = Head(q)
    OBVIOUS
  <2> QED BY <2>1 DEF Rising, Of
<1>5. \A k : Of(k, Tail(q)) \subseteq Of(k, q)
  BY <1>2 DEF Of
<1>6. Head(q).n \in Of(Head(q).key, q)
  BY <1>1 DEF Of
<1>7. \A m \in Of(Head(q).key, Tail(q)) : Head(q).n < m
  BY <1>1, <1>2 DEF Of, Rising
<1> QED BY <1>3, <1>4, <1>5, <1>6, <1>7

\* An event goes behind those of its key that came before it.
LEMMA PutLast ==
    ASSUME NEW q \in Seq(Event), NEW e \in Event, Rising(q), \A m \in Of(e.key, q) : m < e.n
    PROVE  /\ Rising(Append(q, e))
           /\ \A k : Of(k, Append(q, e)) = Of(k, q) \cup (IF k = e.key THEN {e.n} ELSE {})
<1>1. /\ DOMAIN Append(q, e) = DOMAIN q \cup {Len(q) + 1} /\ Len(q) \in Nat
      /\ Append(q, e)[Len(q) + 1] = e
      /\ \A i \in DOMAIN q : Append(q, e)[i] = q[i] /\ i <= Len(q) /\ i \in Nat
  OBVIOUS
<1>2. Rising(Append(q, e))
  <2> SUFFICES ASSUME NEW i \in DOMAIN Append(q, e), NEW j \in DOMAIN Append(q, e), i < j,
                      Append(q, e)[i].key = Append(q, e)[j].key
               PROVE  Append(q, e)[i].n < Append(q, e)[j].n
    BY DEF Rising
  <2>1. i \in DOMAIN q
    BY <1>1
  <2>2. CASE j \in DOMAIN q
    BY <1>1, <2>1, <2>2 DEF Rising
  <2>3. CASE j = Len(q) + 1
    <3>1. q[i].key = e.key /\ q[i].n \in Of(e.key, q)
      BY <1>1, <2>1, <2>3 DEF Of
    <3> QED BY <1>1, <2>1, <2>3, <3>1
  <2> QED BY <1>1, <2>2, <2>3
<1>3. ASSUME NEW k PROVE Of(k, Append(q, e)) = Of(k, q) \cup (IF k = e.key THEN {e.n} ELSE {})
  <2>1. \A i \in DOMAIN q : i \in DOMAIN Append(q, e) /\ Append(q, e)[i] = q[i]
    BY <1>1
  <2>2. Of(k, Append(q, e)) \subseteq Of(k, q) \cup (IF k = e.key THEN {e.n} ELSE {})
    BY <1>1 DEF Of
  <2>3. Of(k, q) \subseteq Of(k, Append(q, e))
    BY <2>1 DEF Of
  <2>4. k = e.key => e.n \in Of(k, Append(q, e))
    BY <1>1 DEF Of
  <2> QED BY <2>2, <2>3, <2>4
<1> QED BY <1>2, <1>3

\* A number passes from a set to the next one.
LEMMA ChainMove ==
    ASSUME NEW c, NEW d, NEW low, NEW high, NEW a \in 1..5, NEW n \in c[a + 1],
           Chain(c, low, high), \A m \in d[a + 1] : n < m,
           \A j \in 1..6 : d[j] \subseteq c[j] \/ (j = a /\ d[j] \subseteq c[j] \cup {n})
    PROVE  Chain(d, low, high)
<1>1. a + 1 \in 1..6 /\ a \in 1..6 /\ a < a + 1
  OBVIOUS
<1>2. ASSUME NEW i \in 1..6, NEW x \in d[i] PROVE low < x /\ x <= high
  BY <1>1, <1>2 DEF Chain
<1>3. ASSUME NEW i \in 1..6, NEW x \in d[i], NEW j \in 1..6, NEW y \in d[j], i < j PROVE x < y
  <2>1. CASE x \in c[i] /\ y \in c[j]
    BY <1>3, <2>1 DEF Chain
  <2>2. CASE x \notin c[i]
    <3>1. i = a /\ x = n
      BY <1>3, <2>2
    <3>2. CASE j = a + 1
      BY <1>3, <3>1, <3>2
    <3>3. CASE j # a + 1
      <4>1. a + 1 < j /\ j # a
        BY <1>3, <3>1, <3>3
      <4>2. y \in c[j]
        BY <1>3, <4>1
      <4> QED BY <1>1, <3>1, <4>1, <4>2 DEF Chain
    <3> QED BY <3>2, <3>3
  <2>3. CASE y \notin c[j]
    <3>1. j = a /\ y = n /\ i # a /\ i < a + 1
      BY <1>3, <2>3
    <3>2. x \in c[i]
      BY <1>3, <3>1
    <3> QED BY <1>1, <3>1, <3>2 DEF Chain
  <2> QED BY <2>1, <2>2, <2>3
<1> QED BY <1>2, <1>3 DEF Chain

\* The places of the way of a key, before and after a step.
Places(k) ==
    /\ Path(k)[1] = Of(k, loop.batch) /\ Path(k)[2] = Of(k, proxyCh[k.type])
    /\ Path(k)[3] = Of(k, proxy[k.type]) /\ Path(k)[4] = Of(k, multiCh[k.type])
    /\ Path(k)[5] = Of(k, multi[Output(k)]) /\ Path(k)[6] = Of(k, engineCh[Output(k)])
    /\ Path(k)'[1] = Of(k, loop'.batch) /\ Path(k)'[2] = Of(k, proxyCh'[k.type])
    /\ Path(k)'[3] = Of(k, proxy'[k.type]) /\ Path(k)'[4] = Of(k, multiCh'[k.type])
    /\ Path(k)'[5] = Of(k, multi'[Output(k)]) /\ Path(k)'[6] = Of(k, engineCh'[Output(k)])

LEMMA PathPlaces == \A k : Places(k)
  BY DEF Places, Path, Of, Output

LEMMA OfNumbers == \A q \in Seq(Event) : \A k : Of(k, q) \subseteq Nat
<1> SUFFICES ASSUME NEW q \in Seq(Event), NEW k, NEW i \in DOMAIN q PROVE q[i].n \in Nat
  BY DEF Of
<1>1. q[i] \in Event
  OBVIOUS
<1> QED BY <1>1 DEF Event

LEMMA Six == 1..6 = {1, 2, 3, 4, 5, 6}
  OBVIOUS

\* An event passes to the next place of its way, and nothing else is added anywhere.
LEMMA PathMoves ==
    ASSUME OrderInv, NEW a \in 1..5, NEW e \in Event, UNCHANGED <<sent, made>>,
           e.n \in Path(e.key)[a + 1], \A m \in Path(e.key)'[a + 1] : e.n < m,
           \A k \in Keys : \A j \in 1..6 :
               Path(k)'[j] \subseteq Path(k)[j] \/ (j = a /\ k = e.key /\ Path(k)'[j] \subseteq Path(k)[j] \cup {e.n})
    PROVE  \A k \in Keys : Chain(Path(k)', sent'[k], made'[k]) /\ sent'[k] <= made'[k]
<1> SUFFICES ASSUME NEW k \in Keys PROVE Chain(Path(k)', sent'[k], made'[k]) /\ sent'[k] <= made'[k]
  OBVIOUS
<1>1. Chain(Path(k), sent[k], made[k]) /\ sent[k] <= made[k] /\ sent' = sent /\ made' = made
  BY DEF OrderInv
<1>2. CASE k # e.key
  <2>1. \A j \in 1..6 : Path(k)'[j] \subseteq Path(k)[j]
    BY <1>2
  <2>2. Chain(Path(k)', sent[k], made[k])
    BY <1>1, <2>1 DEF Chain
  <2> QED BY <1>1, <2>2
<1>3. CASE k = e.key
  <2>1. \A j \in 1..6 : Path(k)'[j] \subseteq Path(k)[j] \/ (j = a /\ Path(k)'[j] \subseteq Path(k)[j] \cup {e.n})
    OBVIOUS
  <2>2. Chain(Path(k)', sent[k], made[k])
    BY <1>1, <1>3, <2>1, ChainMove
  <2> QED BY <1>1, <2>2
<1> QED BY <1>2, <1>3

LEMMA OrderInit == Init => OrderInv
<1> SUFFICES ASSUME Init PROVE OrderInv
  OBVIOUS
<1>1. Rising(<<>>) /\ \A k : Of(k, <<>>) = {}
  BY DEF Rising, Of
<1>2. \A k \in Keys : \A j \in 1..6 : Path(k)[j] = {}
  <2> SUFFICES ASSUME NEW k \in Keys PROVE \A j \in {1, 2, 3, 4, 5, 6} : Path(k)[j] = {}
    BY Six
  <2>1. Places(k) /\ Output(k) \in Outputs /\ k.type \in TypesUsed
    BY PathPlaces, Names
  <2>2. /\ loop.batch = <<>> /\ proxyCh[k.type] = <<>> /\ proxy[k.type] = <<>> /\ multiCh[k.type] = <<>>
        /\ multi[Output(k)] = <<>> /\ engineCh[Output(k)] = <<>>
    BY <2>1 DEF Init, Collecting
  <2> QED BY <1>1, <2>1, <2>2 DEF Places
<1>3. \A k \in Keys : Chain(Path(k), sent[k], made[k])
  BY <1>2 DEF Chain
<1> QED BY <1>1, <1>3 DEF Init, OrderInv, Collecting

\* Nothing of an empty sequence, and one of a sequence of one.
LEMMA OfFew ==
    /\ Rising(<<>>) /\ \A k : Of(k, <<>>) = {}
    /\ \A e : Rising(<<e>>) /\ \A k : Of(k, <<e>>) = IF k = e.key THEN {e.n} ELSE {}
<1>1. Rising(<<>>) /\ \A k : Of(k, <<>>) = {}
  BY DEF Rising, Of
<1>2. ASSUME NEW e PROVE Rising(<<e>>) /\ \A k : Of(k, <<e>>) = IF k = e.key THEN {e.n} ELSE {}
  <2>1. DOMAIN <<e>> = {1} /\ <<e>>[1] = e
    OBVIOUS
  <2> QED BY <2>1 DEF Rising, Of
<1> QED BY <1>1, <1>2

\* A sequence that holds at most one event and is not empty.
LEMMA OneEvent ==
    ASSUME NEW q \in Seq(Event), q # <<>>, Len(q) <= 1
    PROVE  \E e \in Event : q = <<e>>
<1>1. Len(q) = 1 /\ q[1] \in Event
  <2>1. Len(q) \in Nat /\ Len(q) # 0
    OBVIOUS
  <2>2. Len(q) = 1
    BY <2>1
  <2> QED BY <2>2
<1>2. q = <<q[1]>>
  BY <1>1
<1> QED BY <1>1, <1>2

LEMMA OrderEmit ==
    ASSUME Typed, OrderInv, NEW k \in Keys, Emit(k)
    PROVE  OrderInv'
<1> USE DEF Typed
<1> DEFINE o == Output(k)
           q == engineCh[o]
<1>1. PICK e \in Event : e = [key |-> k, n |-> made[k] + 1]
  <2>1. made[k] + 1 \in Nat
    BY DEF TypeOK
  <2> QED BY <2>1 DEF Event
<1>2. /\ o \in Outputs /\ q \in Seq(Event) /\ Rising(q) /\ made[k] \in Nat /\ sent[k] \in Nat
      /\ e.key = k /\ e.n = made[k] + 1 /\ e.n \in Nat
  BY <1>1, Names DEF TypeOK, OrderInv
<1>3. UNCHANGED <<multi, multiCh, proxy, proxyCh, loop, sent>> /\ made' = [made EXCEPT ![k] = made[k] + 1]
      /\ (engineCh' = engineCh \/ engineCh' = [engineCh EXCEPT ![o] = Append(q, e)])
  BY <1>1, <1>2, Zenon DEF Emit
<1>4. \A m \in Of(k, q) : m <= made[k]
  <2>1. Of(k, q) = Path(k)[6] /\ Chain(Path(k), sent[k], made[k]) /\ 6 \in 1..6
    BY PathPlaces DEF OrderInv, Places
  <2> QED BY <2>1 DEF Chain
<1>5. \A m \in Of(k, q) : m \in Nat
  BY <1>2, OfNumbers
<1>6. \A m \in Of(k, q) : m < e.n
  BY <1>2, <1>4, <1>5
<1>7. /\ Rising(Append(q, e))
      /\ \A l : Of(l, Append(q, e)) = Of(l, q) \cup (IF l = k THEN {e.n} ELSE {})
  BY <1>2, <1>6, PutLast
<1>8. \A p \in Outputs : Rising(engineCh'[p])
  BY <1>2, <1>3, <1>7 DEF OrderInv, TypeOK
<1>9. ASSUME NEW l \in Keys PROVE Chain(Path(l)', sent'[l], made'[l]) /\ sent'[l] <= made'[l]
  <2>1. Chain(Path(l), sent[l], made[l]) /\ sent[l] <= made[l] /\ sent[l] \in Nat /\ made[l] \in Nat
        /\ Output(l) \in Outputs /\ l.type \in TypesUsed
    BY Names DEF OrderInv, TypeOK
  <2>0. Places(l)
    BY PathPlaces
  <2>2. \A j \in 1..5 : Path(l)'[j] = Path(l)[j]
    <3>1. /\ Path(l)'[1] = Path(l)[1] /\ Path(l)'[2] = Path(l)[2] /\ Path(l)'[3] = Path(l)[3]
          /\ Path(l)'[4] = Path(l)[4] /\ Path(l)'[5] = Path(l)[5]
      BY <1>3, <2>0 DEF Places
    <3>2. 1..5 = {1, 2, 3, 4, 5}
      OBVIOUS
    <3> QED BY <3>1, <3>2
  <2>5. engineCh' = engineCh \/ engineCh'[Output(l)] = IF Output(l) = o THEN Append(q, e) ELSE engineCh[Output(l)]
    BY <1>2, <1>3, <2>1 DEF TypeOK
  <2>3. CASE l # k
    <3>1. Path(l)'[6] \subseteq Path(l)[6]
      BY <1>7, <2>0, <2>3, <2>5 DEF Places
    <3>2. \A j \in 1..6 : Path(l)'[j] \subseteq Path(l)[j]
      BY <2>2, <3>1
    <3>3. sent'[l] = sent[l] /\ made'[l] = made[l]
      BY <1>3, <2>3 DEF TypeOK
    <3> QED BY <2>1, <3>2, <3>3 DEF Chain
  <2>4. CASE l = k
    <3>1. Path(l)'[6] \subseteq Path(l)[6] \cup {e.n}
      BY <1>7, <2>0, <2>4, <2>5 DEF Places
    <3>2. sent'[l] = sent[l] /\ made'[l] = made[l] + 1
      BY <1>3, <2>4 DEF TypeOK
    <3>3. \A j \in 1..6 : \A n \in Path(l)[j] : n \in Nat
      <4>1. /\ loop.batch \in Seq(Event) /\ proxyCh[l.type] \in Seq(Event) /\ proxy[l.type] \in Seq(Event)
            /\ multiCh[l.type] \in Seq(Event) /\ multi[Output(l)] \in Seq(Event)
            /\ engineCh[Output(l)] \in Seq(Event)
        BY <2>1 DEF TypeOK
      <4>2. /\ Path(l)[1] \subseteq Nat /\ Path(l)[2] \subseteq Nat /\ Path(l)[3] \subseteq Nat
            /\ Path(l)[4] \subseteq Nat /\ Path(l)[5] \subseteq Nat /\ Path(l)[6] \subseteq Nat
        BY <2>0, <4>1, OfNumbers DEF Places
      <4> QED BY <4>2, Six
    <3>4. ASSUME NEW j \in 1..6, NEW n \in Path(l)'[j]
          PROVE  (n \in Path(l)[j] /\ n \in Nat /\ sent[l] < n /\ n <= made[l]) \/ (j = 6 /\ n = made[l] + 1)
      <4>1. n \in Path(l)[j] \/ (j = 6 /\ n = made[l] + 1)
        BY <1>2, <2>2, <2>4, <3>1
      <4> QED BY <2>1, <3>3, <4>1 DEF Chain
    <3>5. ASSUME NEW j \in 1..6, NEW n \in Path(l)'[j] PROVE sent[l] < n /\ n <= made[l] + 1
      BY <2>1, <3>4
    <3>6. ASSUME NEW j \in 1..6, NEW n \in Path(l)'[j], NEW i \in 1..6, NEW m \in Path(l)'[i], j < i
          PROVE  n < m
      <4>1. n \in Path(l)[j] /\ n \in Nat /\ n <= made[l]
        BY <3>4, <3>6
      <4>2. CASE m = made[l] + 1
        BY <2>1, <4>1, <4>2
      <4>3. CASE m \in Path(l)[i]
        BY <2>1, <3>6, <4>1, <4>3 DEF Chain
      <4> QED BY <3>4, <4>2, <4>3
    <3>7. Chain(Path(l)', sent'[l], made'[l])
      BY <3>2, <3>5, <3>6 DEF Chain
    <3> QED BY <2>1, <3>2, <3>7
  <2> QED BY <2>3, <2>4
<1> QED BY <1>3, <1>8, <1>9 DEF OrderInv

LEMMA OrderMulti ==
    ASSUME Typed, RoutedInv, OrderInv, NEW o \in Outputs, MultiForward(o)
    PROVE  OrderInv'
<1> USE DEF Typed
<1>1. /\ o[1] \in TypesUsed /\ engineCh[o] \in Seq(Event) /\ multi[o] \in Seq(Event)
      /\ multiCh[o[1]] \in Seq(Event)
      /\ Rising(engineCh[o]) /\ Rising(multi[o]) /\ Rising(multiCh[o[1]])
      /\ UNCHANGED <<loop, proxy, proxyCh, sent, made>>
  BY Names DEF TypeOK, OrderInv, MultiForward
<1>2. CASE /\ multi[o] = <<>> /\ engineCh[o] # <<>>
           /\ multi' = [multi EXCEPT ![o] = <<Head(engineCh[o])>>]
           /\ engineCh' = [engineCh EXCEPT ![o] = Tail(@)]
           /\ UNCHANGED multiCh
  <2>1. PICK e \in Event : e = Head(engineCh[o])
    BY <1>1, <1>2
  <2>2. /\ Rising(Tail(engineCh[o])) /\ Rising(<<e>>)
        /\ \A k : Of(k, Tail(engineCh[o])) \subseteq Of(k, engineCh[o])
        /\ \A k : Of(k, <<e>>) = IF k = e.key THEN {e.n} ELSE {}
        /\ e.n \in Of(e.key, engineCh[o])
        /\ \A m \in Of(e.key, Tail(engineCh[o])) : e.n < m
    BY <1>1, <1>2, <2>1, TakeHead
  <2>3. e.key \in Keys /\ Output(e.key) = o
    BY <1>1, <1>2, <2>1, CarriesMoves DEF RoutedInv, OfOutput
  <2>4. /\ multi' = [multi EXCEPT ![o] = <<e>>] /\ engineCh' = [engineCh EXCEPT ![o] = Tail(engineCh[o])]
        /\ multi'[o] = <<e>> /\ engineCh'[o] = Tail(engineCh[o])
        /\ \A p \in Outputs \ {o} : multi'[p] = multi[p] /\ engineCh'[p] = engineCh[p]
    BY <1>2, <2>1 DEF TypeOK
  <2>5. ASSUME NEW k \in Keys
        PROVE  \A j \in 1..6 : Path(k)'[j] \subseteq Path(k)[j]
                               \/ (j = 5 /\ k = e.key /\ Path(k)'[j] \subseteq Path(k)[j] \cup {e.n})
    <3>0. Places(k) /\ Output(k) \in Outputs
      BY PathPlaces, Names
    <3>1. /\ Path(k)'[1] = Path(k)[1] /\ Path(k)'[2] = Path(k)[2]
          /\ Path(k)'[3] = Path(k)[3] /\ Path(k)'[4] = Path(k)[4]
      BY <1>1, <1>2, <3>0 DEF Places
    <3>2. Path(k)'[6] \subseteq Path(k)[6]
      BY <2>2, <2>4, <3>0 DEF Places
    <3>3. Path(k)'[5] \subseteq Path(k)[5] \/ (k = e.key /\ Path(k)'[5] \subseteq Path(k)[5] \cup {e.n})
      BY <2>2, <2>4, <3>0 DEF Places
    <3> QED BY <3>1, <3>2, <3>3, Six
  <2>6. e.n \in Path(e.key)[5 + 1] /\ \A m \in Path(e.key)'[5 + 1] : e.n < m
    <3>1. Places(e.key) /\ 5 + 1 = 6
      BY PathPlaces
    <3> QED BY <2>2, <2>3, <2>4, <3>1 DEF Places
  <2>7. \A k \in Keys : Chain(Path(k)', sent'[k], made'[k]) /\ sent'[k] <= made'[k]
    BY <1>1, <2>5, <2>6, PathMoves
  <2>8. \A p \in Outputs : Rising(multi'[p]) /\ Rising(engineCh'[p])
    BY <2>2, <2>4 DEF OrderInv, TypeOK
  <2> QED BY <1>1, <1>2, <2>7, <2>8 DEF OrderInv
<1>3. CASE /\ multi[o] # <<>> /\ Len(multiCh[o[1]]) < MultiCap
           /\ multiCh' = [multiCh EXCEPT ![o[1]] = @ \o multi[o]]
           /\ multi' = [multi EXCEPT ![o] = <<>>]
           /\ UNCHANGED engineCh
  <2> DEFINE q == multiCh[o[1]]
  <2>1. PICK e \in Event : multi[o] = <<e>>
    BY <1>1, <1>3, OneEvent DEF HandsInv
  <2>2. e.key \in Keys /\ Output(e.key) = o /\ e.key.type = o[1]
    <3>1. Head(multi[o]) = e
      BY <2>1
    <3>3. Carries(multi[o], OfOutput(o))
      BY DEF RoutedInv
    <3>2. Head(multi[o]).key \in OfOutput(o)
      BY <1>1, <1>3, <3>3, CarriesMoves
    <3> QED BY <3>1, <3>2, Names DEF OfOutput
  <2>3. /\ multiCh' = [multiCh EXCEPT ![o[1]] = Append(q, e)] /\ multiCh'[o[1]] = Append(q, e)
        /\ multi'[o] = <<>>
        /\ \A p \in Outputs \ {o} : multi'[p] = multi[p]
        /\ \A t \in TypesUsed \ {o[1]} : multiCh'[t] = multiCh[t]
    <3>1. q \o <<e>> = Append(q, e)
      BY <1>1
    <3> QED BY <1>1, <1>3, <2>1, <3>1 DEF TypeOK
  <2>4. e.n \in Path(e.key)[4 + 1] /\ \A m \in Path(e.key)'[4 + 1] : e.n < m
    <3>1. Places(e.key) /\ 4 + 1 = 5
      BY PathPlaces
    <3>2. e.n \in Path(e.key)[5]
      <4>1. Of(e.key, <<e>>) = {e.n}
        BY OfFew
      <4>2. Path(e.key)[5] = Of(e.key, multi[o])
        BY <2>2, <3>1 DEF Places
      <4> QED BY <2>1, <4>1, <4>2
    <3>3. Path(e.key)'[5] = {}
      BY <2>2, <2>3, <3>1, OfFew DEF Places
    <3> QED BY <3>1, <3>2, <3>3
  <2>5. \A m \in Of(e.key, q) : m < e.n
    <3>0. Places(e.key) /\ 4 + 1 = 5
      BY PathPlaces
    <3>1. Of(e.key, q) = Path(e.key)[4] /\ e.n \in Path(e.key)[5]
      BY <2>2, <2>4, <3>0 DEF Places
    <3>2. Chain(Path(e.key), sent[e.key], made[e.key]) /\ 4 \in 1..6 /\ 5 \in 1..6 /\ 4 < 5
      BY <2>2 DEF OrderInv
    <3> QED BY <3>1, <3>2 DEF Chain
  <2>6. Rising(Append(q, e)) /\ \A k : Of(k, Append(q, e)) = Of(k, q) \cup (IF k = e.key THEN {e.n} ELSE {})
    BY <1>1, <2>5, PutLast
  <2> HIDE DEF q
  <2>7. ASSUME NEW k \in Keys
        PROVE  \A j \in 1..6 : Path(k)'[j] \subseteq Path(k)[j]
                               \/ (j = 4 /\ k = e.key /\ Path(k)'[j] \subseteq Path(k)[j] \cup {e.n})
    <3>0. Places(k) /\ Output(k) \in Outputs /\ k.type \in TypesUsed
      BY PathPlaces, Names
    <3>1. Path(k)'[1] = Path(k)[1] /\ Path(k)'[2] = Path(k)[2] /\ Path(k)'[3] = Path(k)[3] /\ Path(k)'[6] = Path(k)[6]
      BY <1>1, <1>3, <3>0 DEF Places
    <3>2. Path(k)'[5] \subseteq Path(k)[5]
      BY <2>3, <3>0, OfFew DEF Places
    <3>3. Path(k)'[4] \subseteq Path(k)[4] \/ (k = e.key /\ Path(k)'[4] \subseteq Path(k)[4] \cup {e.n})
      BY <2>3, <2>6, <3>0 DEF Places, q
    <3> QED BY <3>1, <3>2, <3>3, Six
  <2>8. \A k \in Keys : Chain(Path(k)', sent'[k], made'[k]) /\ sent'[k] <= made'[k]
    <3>1. 4 \in 1..5 /\ UNCHANGED <<sent, made>>
      BY <1>1
    <3> QED BY <2>4, <2>7, <3>1, PathMoves
  <2>9. (\A p \in Outputs : Rising(multi'[p])) /\ (\A t \in TypesUsed : Rising(multiCh'[t]))
    BY <1>3, <2>3, <2>6, OfFew DEF OrderInv, TypeOK
  <2> QED BY <1>1, <1>3, <2>8, <2>9 DEF OrderInv
<1> QED BY <1>2, <1>3 DEF MultiForward

LEMMA OrderProxy ==
    ASSUME Typed, RoutedInv, OrderInv, NEW t \in TypesUsed, ProxyForward(t)
    PROVE  OrderInv'
<1> USE DEF Typed
<1>1. /\ multiCh[t] \in Seq(Event) /\ proxy[t] \in Seq(Event) /\ proxyCh[t] \in Seq(Event)
      /\ Rising(multiCh[t]) /\ Rising(proxy[t]) /\ Rising(proxyCh[t])
      /\ UNCHANGED <<loop, multi, engineCh, sent, made>>
  BY DEF TypeOK, OrderInv, ProxyForward
<1>2. CASE /\ proxy[t] = <<>> /\ multiCh[t] # <<>>
           /\ proxy' = [proxy EXCEPT ![t] = <<Head(multiCh[t])>>]
           /\ multiCh' = [multiCh EXCEPT ![t] = Tail(@)]
           /\ UNCHANGED proxyCh
  <2>1. PICK e \in Event : e = Head(multiCh[t])
    BY <1>1, <1>2
  <2>2. /\ Rising(Tail(multiCh[t])) /\ Rising(<<e>>)
        /\ \A k : Of(k, Tail(multiCh[t])) \subseteq Of(k, multiCh[t])
        /\ \A k : Of(k, <<e>>) = IF k = e.key THEN {e.n} ELSE {}
        /\ e.n \in Of(e.key, multiCh[t])
        /\ \A m \in Of(e.key, Tail(multiCh[t])) : e.n < m
    BY <1>1, <1>2, <2>1, TakeHead
  <2>3. e.key \in Keys /\ e.key.type = t
    BY <1>1, <1>2, <2>1, CarriesMoves DEF RoutedInv, OfType
  <2>4. /\ proxy'[t] = <<e>> /\ multiCh'[t] = Tail(multiCh[t])
        /\ \A u \in TypesUsed \ {t} : proxy'[u] = proxy[u] /\ multiCh'[u] = multiCh[u]
    BY <1>2, <2>1 DEF TypeOK
  <2>5. ASSUME NEW k \in Keys
        PROVE  \A j \in 1..6 : Path(k)'[j] \subseteq Path(k)[j]
                               \/ (j = 3 /\ k = e.key /\ Path(k)'[j] \subseteq Path(k)[j] \cup {e.n})
    <3>0. Places(k) /\ k.type \in TypesUsed
      BY PathPlaces, Names
    <3>1. /\ Path(k)'[1] = Path(k)[1] /\ Path(k)'[2] = Path(k)[2]
          /\ Path(k)'[5] = Path(k)[5] /\ Path(k)'[6] = Path(k)[6]
      BY <1>1, <1>2, <3>0 DEF Places
    <3>2. Path(k)'[4] \subseteq Path(k)[4]
      BY <2>2, <2>4, <3>0 DEF Places
    <3>3. Path(k)'[3] \subseteq Path(k)[3] \/ (k = e.key /\ Path(k)'[3] \subseteq Path(k)[3] \cup {e.n})
      BY <2>2, <2>4, <3>0 DEF Places
    <3> QED BY <3>1, <3>2, <3>3, Six
  <2>6. e.n \in Path(e.key)[3 + 1] /\ \A m \in Path(e.key)'[3 + 1] : e.n < m
    <3>1. Places(e.key) /\ 3 + 1 = 4
      BY PathPlaces
    <3> QED BY <2>2, <2>3, <2>4, <3>1 DEF Places
  <2>7. \A k \in Keys : Chain(Path(k)', sent'[k], made'[k]) /\ sent'[k] <= made'[k]
    <3>1. 3 \in 1..5 /\ UNCHANGED <<sent, made>>
      BY <1>1
    <3> QED BY <2>5, <2>6, <3>1, PathMoves
  <2>8. \A u \in TypesUsed : Rising(proxy'[u]) /\ Rising(multiCh'[u])
    BY <2>2, <2>4 DEF OrderInv
  <2> QED BY <1>1, <1>2, <2>7, <2>8 DEF OrderInv
<1>3. CASE /\ proxy[t] # <<>> /\ Len(proxyCh[t]) < ProxyCap
           /\ proxyCh' = [proxyCh EXCEPT ![t] = @ \o proxy[t]]
           /\ proxy' = [proxy EXCEPT ![t] = <<>>]
           /\ UNCHANGED multiCh
  <2> DEFINE q == proxyCh[t]
  <2>1. PICK e \in Event : proxy[t] = <<e>>
    BY <1>1, <1>3, OneEvent DEF HandsInv
  <2>2. e.key \in Keys /\ e.key.type = t
    <3>1. Head(proxy[t]) = e
      BY <2>1
    <3>2. Carries(proxy[t], OfType(t))
      BY DEF RoutedInv
    <3>3. Head(proxy[t]).key \in OfType(t)
      BY <1>1, <1>3, <3>2, CarriesMoves
    <3> QED BY <3>1, <3>3 DEF OfType
  <2>3. /\ proxyCh'[t] = Append(q, e) /\ proxy'[t] = <<>>
        /\ \A u \in TypesUsed \ {t} : proxy'[u] = proxy[u] /\ proxyCh'[u] = proxyCh[u]
    <3>1. q \o <<e>> = Append(q, e)
      BY <1>1
    <3> QED BY <1>1, <1>3, <2>1, <3>1 DEF TypeOK
  <2>4. e.n \in Path(e.key)[2 + 1] /\ \A m \in Path(e.key)'[2 + 1] : e.n < m
    <3>1. Places(e.key) /\ 2 + 1 = 3
      BY PathPlaces
    <3>2. e.n \in Path(e.key)[3]
      <4>1. Of(e.key, <<e>>) = {e.n}
        BY OfFew
      <4>2. Path(e.key)[3] = Of(e.key, proxy[t])
        BY <2>2, <3>1 DEF Places
      <4> QED BY <2>1, <4>1, <4>2
    <3>3. Path(e.key)'[3] = {}
      BY <2>2, <2>3, <3>1, OfFew DEF Places
    <3> QED BY <3>1, <3>2, <3>3
  <2>5. \A m \in Of(e.key, q) : m < e.n
    <3>0. Places(e.key) /\ 2 + 1 = 3
      BY PathPlaces
    <3>1. Of(e.key, q) = Path(e.key)[2] /\ e.n \in Path(e.key)[3]
      BY <2>2, <2>4, <3>0 DEF Places
    <3>2. Chain(Path(e.key), sent[e.key], made[e.key]) /\ 2 \in 1..6 /\ 3 \in 1..6 /\ 2 < 3
      BY <2>2 DEF OrderInv
    <3> QED BY <3>1, <3>2 DEF Chain
  <2>6. Rising(Append(q, e)) /\ \A k : Of(k, Append(q, e)) = Of(k, q) \cup (IF k = e.key THEN {e.n} ELSE {})
    BY <1>1, <2>5, PutLast
  <2> HIDE DEF q
  <2>7. ASSUME NEW k \in Keys
        PROVE  \A j \in 1..6 : Path(k)'[j] \subseteq Path(k)[j]
                               \/ (j = 2 /\ k = e.key /\ Path(k)'[j] \subseteq Path(k)[j] \cup {e.n})
    <3>0. Places(k) /\ k.type \in TypesUsed
      BY PathPlaces, Names
    <3>1. Path(k)'[1] = Path(k)[1] /\ Path(k)'[4] = Path(k)[4] /\ Path(k)'[5] = Path(k)[5] /\ Path(k)'[6] = Path(k)[6]
      BY <1>1, <1>3, <3>0 DEF Places
    <3>2. Path(k)'[3] \subseteq Path(k)[3]
      BY <2>3, <3>0, OfFew DEF Places
    <3>3. Path(k)'[2] \subseteq Path(k)[2] \/ (k = e.key /\ Path(k)'[2] \subseteq Path(k)[2] \cup {e.n})
      <4>1. CASE k.type = t
        <5>1. Path(k)'[2] = Of(k, Append(q, e)) /\ Path(k)[2] = Of(k, q)
          BY <2>3, <3>0, <4>1 DEF Places, q
        <5> QED BY <2>6, <5>1
      <4>2. CASE k.type # t
        BY <2>3, <3>0, <4>2 DEF Places
      <4> QED BY <4>1, <4>2
    <3> QED BY <3>1, <3>2, <3>3, Six
  <2>8. \A k \in Keys : Chain(Path(k)', sent'[k], made'[k]) /\ sent'[k] <= made'[k]
    <3>1. 2 \in 1..5 /\ UNCHANGED <<sent, made>>
      BY <1>1
    <3> QED BY <2>4, <2>7, <3>1, PathMoves
  <2>9. \A u \in TypesUsed : Rising(proxy'[u]) /\ Rising(proxyCh'[u])
    BY <2>3, <2>6, OfFew DEF OrderInv
  <2> QED BY <1>1, <1>3, <2>8, <2>9 DEF OrderInv
<1> QED BY <1>2, <1>3 DEF ProxyForward

\* What stays of a batch is in order as the batch was.
LEMMA RestRising ==
    ASSUME NEW batch, NEW rest, Rising(batch),
           \A i \in DOMAIN rest : \E a \in DOMAIN batch : rest[i] = batch[a],
           \A i, j \in DOMAIN rest : i < j =>
               \E a, b \in DOMAIN batch : a < b /\ rest[i] = batch[a] /\ rest[j] = batch[b]
    PROVE  Rising(rest) /\ \A k : Of(k, rest) \subseteq Of(k, batch)
<1>1. Rising(rest)
  <2> SUFFICES ASSUME NEW i \in DOMAIN rest, NEW j \in DOMAIN rest, i < j, rest[i].key = rest[j].key
               PROVE  rest[i].n < rest[j].n
    BY DEF Rising
  <2>1. PICK a, b \in DOMAIN batch : a < b /\ rest[i] = batch[a] /\ rest[j] = batch[b]
    OBVIOUS
  <2> QED BY <2>1 DEF Rising
<1>2. ASSUME NEW k, NEW i \in DOMAIN rest, rest[i].key = k PROVE rest[i].n \in Of(k, batch)
  <2>1. PICK a \in DOMAIN batch : rest[i] = batch[a]
    OBVIOUS
  <2> QED BY <1>2, <2>1 DEF Of
<1> QED BY <1>1, <1>2 DEF Of

LEMMA OrderCollect ==
    ASSUME Typed, RoutedInv, OrderInv, NEW t \in TypesUsed, Collect(t)
    PROVE  OrderInv'
<1> USE DEF Typed
<1>1. /\ proxyCh[t] \in Seq(Event) /\ proxyCh[t] # <<>> /\ loop.batch \in Seq(Event)
      /\ Rising(proxyCh[t]) /\ Rising(loop.batch)
      /\ UNCHANGED <<multiCh, proxy, multi, engineCh, sent, made>>
  BY DEF TypeOK, OrderInv, Collect
<1>2. PICK e \in Event : e = Head(proxyCh[t])
  BY <1>1
<1>3. PICK rest \in Seq(Event) :
          /\ Record(loop.batch, e) = Append(rest, e)
          /\ \A i \in DOMAIN rest : \E a \in DOMAIN loop.batch : rest[i] = loop.batch[a]
          /\ \A i, j \in DOMAIN rest : i < j =>
                \E a, b \in DOMAIN loop.batch : a < b /\ rest[i] = loop.batch[a] /\ rest[j] = loop.batch[b]
  BY <1>1, Recorded
<1>4. Rising(rest) /\ \A k : Of(k, rest) \subseteq Of(k, loop.batch)
  BY <1>1, <1>3, RestRising
<1>5. /\ Rising(Tail(proxyCh[t]))
      /\ \A k : Of(k, Tail(proxyCh[t])) \subseteq Of(k, proxyCh[t])
      /\ e.n \in Of(e.key, proxyCh[t])
      /\ \A m \in Of(e.key, Tail(proxyCh[t])) : e.n < m
  BY <1>1, <1>2, TakeHead
<1>6. e.key \in Keys /\ e.key.type = t
  BY <1>1, <1>2, CarriesMoves DEF RoutedInv, OfType
<1>7. /\ loop'.batch = Append(rest, e)
      /\ proxyCh'[t] = Tail(proxyCh[t])
      /\ \A u \in TypesUsed \ {t} : proxyCh'[u] = proxyCh[u]
  <2>1. loop'.batch = Record(loop.batch, Head(proxyCh[t]))
    BY DEF Collect, TypeOK
  <2>2. proxyCh' = [proxyCh EXCEPT ![t] = Tail(@)]
    BY DEF Collect
  <2> QED BY <1>2, <1>3, <2>1, <2>2 DEF TypeOK
<1>8. e.n \in Path(e.key)[1 + 1] /\ \A m \in Path(e.key)'[1 + 1] : e.n < m
  <2>1. Places(e.key) /\ 1 + 1 = 2
    BY PathPlaces
  <2> QED BY <1>5, <1>6, <1>7, <2>1 DEF Places
<1>9. \A m \in Of(e.key, rest) : m < e.n
  <2>1. Places(e.key) /\ 1 + 1 = 2
    BY PathPlaces
  <2>2. Of(e.key, rest) \subseteq Path(e.key)[1] /\ e.n \in Path(e.key)[2]
    BY <1>4, <1>8, <2>1 DEF Places
  <2>3. Chain(Path(e.key), sent[e.key], made[e.key]) /\ 1 \in 1..6 /\ 2 \in 1..6 /\ 1 < 2
    BY <1>6 DEF OrderInv
  <2> QED BY <2>2, <2>3 DEF Chain
<1>10. Rising(Append(rest, e)) /\ \A k : Of(k, Append(rest, e)) = Of(k, rest) \cup (IF k = e.key THEN {e.n} ELSE {})
  BY <1>4, <1>9, PutLast
<1>11. ASSUME NEW k \in Keys
       PROVE  \A j \in 1..6 : Path(k)'[j] \subseteq Path(k)[j]
                              \/ (j = 1 /\ k = e.key /\ Path(k)'[j] \subseteq Path(k)[j] \cup {e.n})
  <2>0. Places(k) /\ k.type \in TypesUsed
    BY PathPlaces, Names
  <2>1. Path(k)'[3] = Path(k)[3] /\ Path(k)'[4] = Path(k)[4] /\ Path(k)'[5] = Path(k)[5] /\ Path(k)'[6] = Path(k)[6]
    BY <1>1, <2>0 DEF Places
  <2>2. Path(k)'[2] \subseteq Path(k)[2]
    BY <1>5, <1>7, <2>0 DEF Places
  <2>3. Path(k)'[1] \subseteq Path(k)[1] \/ (k = e.key /\ Path(k)'[1] \subseteq Path(k)[1] \cup {e.n})
    BY <1>4, <1>7, <1>10, <2>0 DEF Places
  <2> QED BY <2>1, <2>2, <2>3, Six
<1>12. \A k \in Keys : Chain(Path(k)', sent'[k], made'[k]) /\ sent'[k] <= made'[k]
  <2>1. 1 \in 1..5 /\ UNCHANGED <<sent, made>>
    BY <1>1
  <2> QED BY <1>8, <1>11, <2>1, PathMoves
<1>13. Rising(loop'.batch) /\ \A u \in TypesUsed : Rising(proxyCh'[u])
  BY <1>5, <1>7, <1>10 DEF OrderInv
<1> QED BY <1>1, <1>12, <1>13 DEF OrderInv

\* The event broadcast is newer than the last of its key, older than those that
\* follow, and the engine has made it.
LEMMA Broadcasting ==
    ASSUME Typed, OrderInv, Broadcast
    PROVE  \E e \in Event :
               /\ sent' = [sent EXCEPT ![e.key] = e.n] /\ UNCHANGED made
               /\ e.key \in Keys /\ sent[e.key] < e.n /\ e.n <= made[e.key]
               /\ OrderInv'
<1> USE DEF Typed
<1>1. /\ loop.batch \in Seq(Event) /\ loop.batch # <<>> /\ Rising(loop.batch)
      /\ UNCHANGED <<made, engineCh, multi, multiCh, proxy, proxyCh>>
  BY DEF TypeOK, HandsInv, OrderInv, Broadcast, channels
<1>2. PICK e \in Event : e = Head(loop.batch)
  BY <1>1
<1>3. /\ Rising(Tail(loop.batch))
      /\ \A k : Of(k, Tail(loop.batch)) \subseteq Of(k, loop.batch)
      /\ e.n \in Of(e.key, loop.batch)
      /\ \A m \in Of(e.key, Tail(loop.batch)) : e.n < m
  BY <1>1, <1>2, TakeHead
<1>4. sent' = [sent EXCEPT ![e.key] = e.n] /\ e.key \in Keys
  BY <1>2 DEF Broadcast, Event
<1>5. loop'.batch = Tail(loop.batch) \/ loop'.batch = <<>>
  BY DEF Broadcast, Collecting, TypeOK
<1>6. Rising(loop'.batch) /\ (\A k : Of(k, loop'.batch) \subseteq Of(k, Tail(loop.batch)))
  BY <1>3, <1>5, OfFew
<1>7. sent[e.key] < e.n /\ e.n <= made[e.key] /\ \A b \in 2..6 : \A m \in Path(e.key)[b] : e.n < m
  <2>1. Places(e.key) /\ Chain(Path(e.key), sent[e.key], made[e.key]) /\ 1 \in 1..6
    BY <1>4, PathPlaces DEF OrderInv
  <2>2. e.n \in Path(e.key)[1] /\ \A b \in 2..6 : b \in 1..6 /\ 1 < b
    BY <1>3, <2>1 DEF Places
  <2> QED BY <2>1, <2>2 DEF Chain
<1>8. ASSUME NEW k \in Keys PROVE Chain(Path(k)', sent'[k], made'[k]) /\ sent'[k] <= made'[k]
  <2>0. Places(k) /\ Chain(Path(k), sent[k], made[k]) /\ sent[k] <= made[k] /\ made'[k] = made[k]
    BY <1>1, PathPlaces DEF OrderInv
  <2>1. /\ Path(k)'[1] \subseteq Path(k)[1]
        /\ Path(k)'[2] = Path(k)[2] /\ Path(k)'[3] = Path(k)[3] /\ Path(k)'[4] = Path(k)[4]
        /\ Path(k)'[5] = Path(k)[5] /\ Path(k)'[6] = Path(k)[6]
    BY <1>1, <1>3, <1>6, <2>0 DEF Places
  <2>2. \A j \in 1..6 : Path(k)'[j] \subseteq Path(k)[j]
    BY <2>1, Six
  <2>3. CASE k # e.key
    <3>1. sent'[k] = sent[k]
      BY <1>4, <2>3 DEF TypeOK
    <3> QED BY <2>0, <2>2, <3>1 DEF Chain
  <2>4. CASE k = e.key
    <3>1. sent'[k] = e.n
      BY <1>4, <2>4 DEF TypeOK
    <3>2. \A m \in Path(k)'[1] : e.n < m
      BY <1>3, <1>6, <2>0, <2>4 DEF Places
    <3>3. \A j \in 1..6 : \A m \in Path(k)'[j] : e.n < m
      <4>1. \A j \in 1..6 : j = 1 \/ j \in 2..6
        OBVIOUS
      <4> QED BY <1>7, <2>2, <2>4, <3>2, <4>1
    <3> QED BY <1>7, <2>0, <2>2, <2>4, <3>1, <3>3 DEF Chain
  <2> QED BY <2>3, <2>4
<1>9. OrderInv'
  BY <1>1, <1>6, <1>8 DEF OrderInv
<1> QED BY <1>1, <1>4, <1>7, <1>9

LEMMA OrderStep == Typed /\ RoutedInv /\ OrderInv /\ [Next]_vars => OrderInv'
<1> SUFFICES ASSUME Typed, RoutedInv, OrderInv, [Next]_vars PROVE OrderInv'
  OBVIOUS
<1>1. CASE Start \/ Cancel \/ StartBroadcast \/ LoopReturns \/ UNCHANGED vars
  <2>1. UNCHANGED <<made, sent, engineCh, multi, multiCh, proxy, proxyCh>> /\ loop'.batch = loop.batch
    BY <1>1 DEF Start, OpenPool, ConnectFails, Retry, StartRuntime, Attach, ClosePools, Cancel,
                StartBroadcast, LoopReturns, vars, channels, Collecting, Typed, TypeOK
  <2>2. ASSUME NEW k \in Keys PROVE Path(k)' = Path(k)
    BY <2>1 DEF Path, Of, Output
  <2> QED BY <2>1, <2>2 DEF OrderInv
<1> QED BY <1>1, OrderEmit, OrderMulti, OrderProxy, OrderCollect, Broadcasting DEF Next, BroadcastLoop

-----------------------------------------------------------------------------
(* The refinement *)

LEMMA TickKeys ==
    \A s \in Symbols : TickKey(s) \in Keys /\ \A r \in Symbols : TickKey(r) = TickKey(s) => r = s
<1>1. \A s \in Symbols : TickKey(s) \in Keys
  BY BroadcasterAssumption
<1>2. \A s : TickKey(s).symbol = s
  BY DEF TickKey
<1> QED BY <1>1, <1>2

LEMMA FeedStep ==
    Typed /\ OrderInv /\ [Next]_vars => [Feed!FeedNext]_Feed!feedVars
<1> SUFFICES ASSUME Typed, OrderInv, [Next]_vars PROVE [Feed!FeedNext]_Feed!feedVars
  OBVIOUS
<1> DEFINE latest == [s \in Symbols |-> made[TickKey(s)]]
           published == [s \in Symbols |-> sent[TickKey(s)]]
<1>1. ASSUME UNCHANGED <<made, sent>> PROVE UNCHANGED Feed!feedVars
  BY <1>1 DEF Feed!feedVars
<1>2. ASSUME NEW k \in Keys, Emit(k) PROVE [Feed!FeedNext]_Feed!feedVars
  <2>1. made' = [made EXCEPT ![k] = @ + 1] /\ sent' = sent /\ DOMAIN made = Keys
    BY <1>2 DEF Emit, Typed, TypeOK
  <2>2. published' = published
    BY <2>1
  <2>3. CASE \E s \in Symbols : k = TickKey(s)
    <3>1. PICK s \in Symbols : k = TickKey(s)
      BY <2>3
    <3>2. latest' = [latest EXCEPT ![s] = @ + 1]
      BY <2>1, <3>1, TickKeys
    <3>3. Feed!EngineTick(s)
      BY <2>2, <3>2 DEF Feed!EngineTick
    <3> QED BY <3>3 DEF Feed!FeedNext
  <2>4. CASE ~ \E s \in Symbols : k = TickKey(s)
    <3>1. latest' = latest
      BY <2>1, <2>4, TickKeys
    <3> QED BY <2>2, <3>1 DEF Feed!feedVars
  <2> QED BY <2>3, <2>4
<1>3. CASE Broadcast
  <2>1. PICK e \in Event :
            /\ sent' = [sent EXCEPT ![e.key] = e.n] /\ made' = made
            /\ e.key \in Keys /\ sent[e.key] < e.n /\ e.n <= made[e.key]
    BY <1>3, Broadcasting
  <2>2. latest' = latest /\ DOMAIN sent = Keys
    BY <2>1 DEF Typed, TypeOK
  <2>3. CASE \E s \in Symbols : e.key = TickKey(s)
    <3>1. PICK s \in Symbols : e.key = TickKey(s)
      BY <2>3
    <3>2. published' = [published EXCEPT ![s] = e.n] /\ published'[s] = e.n
      BY <2>1, <2>2, <3>1, TickKeys
    <3>3. published[s] < published'[s] /\ published'[s] <= latest[s]
      BY <2>1, <3>1, <3>2
    <3>4. Feed!BroadcastTick(s)
      BY <2>2, <3>2, <3>3 DEF Feed!BroadcastTick
    <3> QED BY <3>4 DEF Feed!FeedNext
  <2>4. CASE ~ \E s \in Symbols : e.key = TickKey(s)
    <3>1. published' = published
      BY <2>1, <2>2, <2>4, TickKeys
    <3> QED BY <2>2, <3>1 DEF Feed!feedVars
  <2> QED BY <2>3, <2>4
<1>4. CASE Start \/ Cancel \/ StartBroadcast \/ LoopReturns \/ UNCHANGED vars
           \/ (\E o \in Outputs : MultiForward(o)) \/ (\E t \in TypesUsed : ProxyForward(t) \/ Collect(t))
  <2>1. UNCHANGED <<made, sent>>
    BY <1>4 DEF Start, OpenPool, ConnectFails, Retry, StartRuntime, Attach, ClosePools, Cancel,
                StartBroadcast, LoopReturns, vars, MultiForward, ProxyForward, Collect
  <2> QED BY <1>1, <2>1
<1> QED BY <1>2, <1>3, <1>4 DEF Next, BroadcastLoop

\* The broadcasts are the feed the hub relies on: a tick is in the latest state
\* before it is broadcast, and the ticks of a symbol are broadcast in order, for any
\* symbols and keys, whatever is dropped, held by a forwarder and coalesced.
THEOREM BroadcasterFeeds == Spec => FeedSpec
<1>1. Init => Feed!FeedInit
  BY TickKeys DEF Init, Feed!FeedInit
<1>2. Spec => [](Typed /\ RoutedInv /\ OrderInv)
  BY TypeInit, TypeStep, RoutedInit, RoutedStep, OrderInit, OrderStep, PTL DEF Spec
<1> QED BY <1>1, <1>2, FeedStep, PTL DEF Spec, FeedSpec, Feed!FeedSpec

-----------------------------------------------------------------------------
(* No event is lost past the engine's channel *)

Load(f) == Cardinality(Slots(f))
Size(q) == Len(q)

\* Channels g are the channels f with one more event, in x.
More(D, f, g, x) ==
    /\ f \in [D -> Seq(Event)] /\ g \in [D -> Seq(Event)] /\ x \in D
    /\ \A y \in D \ {x} : g[y] = f[y]
    /\ Len(g[x]) = Len(f[x]) + 1

LEMMA LoadMore ==
    \A D, f, g, x : More(D, f, g, x) =>
        /\ IsFiniteSet(Slots(f)) <=> IsFiniteSet(Slots(g))
        /\ IsFiniteSet(Slots(f)) => Load(f) \in Nat /\ Load(g) = Load(f) + 1
<1> SUFFICES ASSUME NEW D, NEW f, NEW g, NEW x, More(D, f, g, x)
             PROVE  /\ IsFiniteSet(Slots(f)) <=> IsFiniteSet(Slots(g))
                    /\ IsFiniteSet(Slots(f)) => Load(f) \in Nat /\ Load(g) = Load(f) + 1
  OBVIOUS
<1>0. /\ f \in [D -> Seq(Event)] /\ g \in [D -> Seq(Event)] /\ x \in D
      /\ \A y \in D \ {x} : g[y] = f[y]
      /\ Len(g[x]) = Len(f[x]) + 1
  BY DEF More
<1> DEFINE n == Len(f[x]) + 1
<1>1. f[x] \in Seq(Event) /\ g[x] \in Seq(Event) /\ DOMAIN f = D /\ DOMAIN g = D
  BY <1>0
<1>2. DOMAIN f[x] = 1..Len(f[x]) /\ DOMAIN g[x] = 1..n /\ Len(f[x]) \in Nat
  BY <1>0, <1>1
<1>3. 1..n = 1..Len(f[x]) \cup {n} /\ n \notin 1..Len(f[x])
  BY <1>2
<1>4. \A h, a, b : <<a, b>> \in Slots(h) <=> a \in DOMAIN h /\ b \in DOMAIN h[a]
  BY DEF Slots
<1>5. \A h : \A p \in Slots(h) : \E a, b : p = <<a, b>>
  BY DEF Slots
<1>6. <<x, n>> \notin Slots(f)
  BY <1>1, <1>2, <1>3, <1>4
<1>7. Slots(g) = Slots(f) \cup {<<x, n>>}
  <2>1. ASSUME NEW a, NEW b
        PROVE  <<a, b>> \in Slots(g) <=> (<<a, b>> \in Slots(f) \/ <<a, b>> = <<x, n>>)
    <3>1. CASE a = x
      <4>1. <<a, b>> \in Slots(g) <=> b \in 1..n
        BY <1>0, <1>1, <1>2, <1>4, <3>1
      <4>2. <<a, b>> \in Slots(f) <=> b \in 1..Len(f[x])
        BY <1>0, <1>1, <1>2, <1>4, <3>1
      <4> QED BY <1>3, <3>1, <4>1, <4>2
    <3>2. CASE a # x
      BY <1>0, <1>1, <1>4, <3>2
    <3> QED BY <3>1, <3>2
  <2>2. Slots(g) \subseteq Slots(f) \cup {<<x, n>>}
    BY <1>5, <2>1
  <2>3. Slots(f) \cup {<<x, n>>} \subseteq Slots(g)
    BY <1>5, <2>1
  <2> QED BY <2>2, <2>3
<1> HIDE DEF n
<1>8. ASSUME IsFiniteSet(Slots(f)) PROVE IsFiniteSet(Slots(g)) /\ Load(f) \in Nat /\ Load(g) = Load(f) + 1
  <2>1. /\ IsFiniteSet(Slots(f) \cup {<<x, n>>})
        /\ Cardinality(Slots(f) \cup {<<x, n>>}) =
              IF <<x, n>> \in Slots(f) THEN Cardinality(Slots(f)) ELSE Cardinality(Slots(f)) + 1
    BY <1>8, FS_AddElement, Zenon
  <2>2. Cardinality(Slots(f)) \in Nat
    BY <1>8, FS_CardinalityType, Zenon
  <2> QED BY <1>6, <1>7, <2>1, <2>2 DEF Load
<1>9. ASSUME IsFiniteSet(Slots(g)) PROVE IsFiniteSet(Slots(f))
  BY <1>7, <1>9, FS_Subset
<1> QED BY <1>8, <1>9

\* No event in channels that are all empty.
LEMMA LoadNone == ASSUME NEW D PROVE IsFiniteSet(Slots([x \in D |-> <<>>])) /\ Load([x \in D |-> <<>>]) = 0
<1>1. Slots([x \in D |-> <<>>]) = {}
  BY DEF Slots
<1> QED BY <1>1, FS_EmptySet DEF Load

Finite ==
    /\ IsFiniteSet(Slots(engineCh)) /\ IsFiniteSet(Slots(multi)) /\ IsFiniteSet(Slots(multiCh))
    /\ IsFiniteSet(Slots(proxy)) /\ IsFiniteSet(Slots(proxyCh))

\* What is in transit, with the loads of the channels.
Transit == Load(engineCh) + Load(multi) + Load(multiCh) + Load(proxy) + Load(proxyCh) + Size(loop.batch)
Sums == Finite /\ accepted = broadcasts + coalesced + Transit

LEMMA SumsAccount == Sums => Accounted
  BY DEF Sums, Accounted, InTransit, Transit, Load, Size

LEMMA SumsInit == Init => Sums
<1> SUFFICES ASSUME Init PROVE Sums
  OBVIOUS
<1>1. Finite /\ Load(engineCh) = 0 /\ Load(multi) = 0 /\ Load(multiCh) = 0 /\ Load(proxy) = 0 /\ Load(proxyCh) = 0
  BY LoadNone DEF Init, Finite
<1>2. Size(loop.batch) = 0
  BY DEF Init, Collecting, Size
<1>3. Transit = 0
  BY <1>1, <1>2 DEF Transit
<1> QED BY <1>1, <1>3 DEF Init, Sums

LEMMA SumsNumbers ==
    Typed /\ Finite =>
        /\ Load(engineCh) \in Nat /\ Load(multi) \in Nat /\ Load(multiCh) \in Nat
        /\ Load(proxy) \in Nat /\ Load(proxyCh) \in Nat /\ Size(loop.batch) \in Nat /\ Transit \in Nat
        /\ accepted \in Nat /\ coalesced \in Nat /\ broadcasts \in Nat
<1> SUFFICES ASSUME Typed, Finite
             PROVE  /\ Load(engineCh) \in Nat /\ Load(multi) \in Nat /\ Load(multiCh) \in Nat
                    /\ Load(proxy) \in Nat /\ Load(proxyCh) \in Nat /\ Size(loop.batch) \in Nat /\ Transit \in Nat
                    /\ accepted \in Nat /\ coalesced \in Nat /\ broadcasts \in Nat
  OBVIOUS
<1>1. /\ Load(engineCh) \in Nat /\ Load(multi) \in Nat /\ Load(multiCh) \in Nat
      /\ Load(proxy) \in Nat /\ Load(proxyCh) \in Nat
  BY FS_CardinalityType DEF Finite, Load
<1>2. Size(loop.batch) \in Nat
  BY DEF Typed, TypeOK, Size
<1>3. accepted \in Nat /\ coalesced \in Nat /\ broadcasts \in Nat
  BY DEF Typed, TypeOK
<1>4. Transit \in Nat
  BY <1>1, <1>2 DEF Transit
<1> QED BY <1>1, <1>2, <1>3, <1>4

\* Nothing moves but what is said to.
LEMMA SumsSame ==
    ASSUME Sums, UNCHANGED <<channels, counters>>, loop'.batch = loop.batch
    PROVE  Sums'
  BY DEF Sums, Finite, Transit, Load, Size, channels, counters

LEMMA SumsEmit == ASSUME Typed, Sums, NEW k \in Keys, Emit(k) PROVE Sums'
<1> DEFINE o == Output(k)
           q == engineCh[o]
           e == [key |-> k, n |-> made[k] + 1]
<1>1. o \in Outputs /\ q \in Seq(Event) /\ e \in Event
  <2>1. o \in Outputs
    BY Names
  <2>2. engineCh[Output(k)] \in Seq(Event) /\ made[k] + 1 \in Nat
    BY <2>1 DEF Typed, TypeOK
  <2> QED BY <2>1, <2>2 DEF Event
<1>2. UNCHANGED <<multi, multiCh, proxy, proxyCh, loop, coalesced, broadcasts>>
  BY DEF Emit
<1>3. CASE Len(q) < EngineCap
  <2>1. engineCh' = [engineCh EXCEPT ![o] = Append(q, e)] /\ accepted' = accepted + 1
    BY <1>3 DEF Emit
  <2>2. Append(q, e) \in Seq(Event) /\ Len(Append(q, e)) = Len(q) + 1
    BY <1>1
  <2> HIDE DEF q, e, o
  <2>3. More(Outputs, engineCh, engineCh', o)
    BY <1>1, <2>1, <2>2 DEF Typed, TypeOK, More, q
  <2>4. IsFiniteSet(Slots(engineCh)) /\ Finite
    BY DEF Sums, Finite
  <2>5. IsFiniteSet(Slots(engineCh')) /\ Load(engineCh') = Load(engineCh) + 1
    BY <2>3, <2>4, LoadMore
  <2>6. Finite'
    BY <1>2, <2>4, <2>5 DEF Finite
  <2>7. /\ Load(engineCh)' = Load(engineCh) + 1 /\ Load(multi)' = Load(multi)
        /\ Load(multiCh)' = Load(multiCh) /\ Load(proxy)' = Load(proxy) /\ Load(proxyCh)' = Load(proxyCh)
        /\ Size(loop.batch)' = Size(loop.batch)
    BY <1>2, <2>5 DEF Load
  <2>8. Transit' = Transit + 1
    BY <2>4, <2>7, SumsNumbers DEF Transit
  <2> QED BY <1>2, <2>1, <2>4, <2>6, <2>8, SumsNumbers DEF Sums
<1>4. CASE ~(Len(q) < EngineCap)
  <2>1. UNCHANGED <<channels, counters>> /\ loop'.batch = loop.batch
    BY <1>2, <1>4 DEF Emit, channels, counters
  <2> QED BY <2>1, SumsSame
<1> QED BY <1>3, <1>4

\* One event moves from channels f to channels g.
LEMMA LoadMoves ==
    \A D, E, f, g, h, k, x, y :
        More(D, h, f, x) /\ More(E, g, k, y) /\ IsFiniteSet(Slots(f)) /\ IsFiniteSet(Slots(g)) =>
            /\ IsFiniteSet(Slots(h)) /\ IsFiniteSet(Slots(k))
            /\ Load(h) \in Nat /\ Load(g) \in Nat
            /\ Load(f) = Load(h) + 1 /\ Load(k) = Load(g) + 1
<1> SUFFICES ASSUME NEW D, NEW E, NEW f, NEW g, NEW h, NEW k, NEW x, NEW y,
                    More(D, h, f, x), More(E, g, k, y), IsFiniteSet(Slots(f)), IsFiniteSet(Slots(g))
             PROVE  /\ IsFiniteSet(Slots(h)) /\ IsFiniteSet(Slots(k))
                    /\ Load(h) \in Nat /\ Load(g) \in Nat
                    /\ Load(f) = Load(h) + 1 /\ Load(k) = Load(g) + 1
  OBVIOUS
<1>1. IsFiniteSet(Slots(h)) /\ Load(f) = Load(h) + 1
  BY LoadMore
<1>2. IsFiniteSet(Slots(k)) /\ Load(g) \in Nat /\ Load(k) = Load(g) + 1
  BY LoadMore
<1>3. Load(h) \in Nat
  BY <1>1, FS_CardinalityType DEF Load
<1> QED BY <1>1, <1>2, <1>3

\* The head of a channel goes to an empty hand.
LEMMA Taken ==
    ASSUME NEW D, NEW E, NEW f \in [D -> Seq(Event)], NEW g \in [E -> Seq(Event)],
           NEW x \in D, NEW y \in E, f[x] # <<>>, g[y] = <<>>
    PROVE  /\ More(D, [f EXCEPT ![x] = Tail(@)], f, x)
           /\ More(E, g, [g EXCEPT ![y] = <<Head(f[x])>>], y)
<1>1. /\ f[x] \in Seq(Event) /\ Tail(f[x]) \in Seq(Event) /\ Len(f[x]) = Len(Tail(f[x])) + 1
      /\ <<Head(f[x])>> \in Seq(Event) /\ Len(<<Head(f[x])>>) = Len(g[y]) + 1
  OBVIOUS
<1> QED BY <1>1 DEF More

\* What is in hand goes to the end of a channel.
LEMMA Handed ==
    ASSUME NEW D, NEW E, NEW f \in [D -> Seq(Event)], NEW g \in [E -> Seq(Event)],
           NEW x \in D, NEW y \in E, f[x] # <<>>, Len(f[x]) <= 1
    PROVE  /\ More(D, [f EXCEPT ![x] = <<>>], f, x)
           /\ More(E, g, [g EXCEPT ![y] = @ \o f[x]], y)
<1>1. f[x] \in Seq(Event) /\ g[y] \in Seq(Event)
  OBVIOUS
<1>2. PICK e \in Event : f[x] = <<e>>
  BY <1>1, OneEvent
<1>4. g[y] \o <<e>> = Append(g[y], e) /\ Append(g[y], e) \in Seq(Event)
      /\ Len(Append(g[y], e)) = Len(g[y]) + 1 /\ Len(<<e>>) = 1
  BY <1>1
<1>5. g[y] \o f[x] \in Seq(Event) /\ Len(g[y] \o f[x]) = Len(g[y]) + 1 /\ Len(f[x]) = 1
  BY <1>2, <1>4
<1>3. <<>> \in Seq(Event) /\ Len(<<>>) = 0
  OBVIOUS
<1> QED BY <1>3, <1>5 DEF More

LEMMA SumsMulti == ASSUME Typed, Sums, NEW o \in Outputs, MultiForward(o) PROVE Sums'
<1>1. o[1] \in TypesUsed /\ Finite /\ UNCHANGED <<proxy, proxyCh, loop, accepted, coalesced, broadcasts>>
  BY Names DEF MultiForward, Sums, counters
<1>2. /\ engineCh \in [Outputs -> Seq(Event)] /\ multi \in [Outputs -> Seq(Event)]
      /\ multiCh \in [TypesUsed -> Seq(Event)] /\ Len(multi[o]) <= 1
  BY DEF Typed, TypeOK, HandsInv
<1>3. /\ Load(proxy)' = Load(proxy) /\ Load(proxyCh)' = Load(proxyCh) /\ Size(loop.batch)' = Size(loop.batch)
      /\ IsFiniteSet(Slots(proxy)') /\ IsFiniteSet(Slots(proxyCh)')
  BY <1>1 DEF Load, Finite
<1>4. CASE /\ multi[o] = <<>> /\ engineCh[o] # <<>>
           /\ multi' = [multi EXCEPT ![o] = <<Head(engineCh[o])>>]
           /\ engineCh' = [engineCh EXCEPT ![o] = Tail(@)]
           /\ UNCHANGED multiCh
  <2>1. More(Outputs, engineCh', engineCh, o) /\ More(Outputs, multi, multi', o)
    BY <1>2, <1>4, Taken
  <2>2. /\ IsFiniteSet(Slots(engineCh')) /\ IsFiniteSet(Slots(multi')) /\ Load(engineCh') \in Nat
        /\ Load(engineCh) = Load(engineCh') + 1 /\ Load(multi') = Load(multi) + 1
    BY <1>1, <2>1, LoadMoves DEF Finite
  <2>3. Finite' /\ Load(multiCh)' = Load(multiCh)
    BY <1>1, <1>3, <1>4, <2>2 DEF Finite, Load
  <2>4. /\ Load(engineCh)' \in Nat /\ Load(engineCh) = Load(engineCh)' + 1
        /\ Load(multi)' = Load(multi) + 1
    BY <2>2
  <2>5. Transit' = Transit
    BY <1>1, <1>3, <2>3, <2>4, SumsNumbers DEF Transit
  <2> QED BY <1>1, <2>3, <2>5 DEF Sums
<1>5. CASE /\ multi[o] # <<>> /\ Len(multiCh[o[1]]) < MultiCap
           /\ multiCh' = [multiCh EXCEPT ![o[1]] = @ \o multi[o]]
           /\ multi' = [multi EXCEPT ![o] = <<>>]
           /\ UNCHANGED engineCh
  <2>1. More(Outputs, multi', multi, o) /\ More(TypesUsed, multiCh, multiCh', o[1])
    BY <1>1, <1>2, <1>5, Handed
  <2>2. /\ IsFiniteSet(Slots(multi')) /\ IsFiniteSet(Slots(multiCh')) /\ Load(multi') \in Nat
        /\ Load(multi) = Load(multi') + 1 /\ Load(multiCh') = Load(multiCh) + 1
    BY <1>1, <2>1, LoadMoves DEF Finite
  <2>3. Finite' /\ Load(engineCh)' = Load(engineCh)
    BY <1>1, <1>3, <1>5, <2>2 DEF Finite, Load
  <2>4. /\ Load(multi)' \in Nat /\ Load(multi) = Load(multi)' + 1
        /\ Load(multiCh)' = Load(multiCh) + 1
    BY <2>2
  <2>5. Transit' = Transit
    BY <1>1, <1>3, <2>3, <2>4, SumsNumbers DEF Transit
  <2> QED BY <1>1, <2>3, <2>5 DEF Sums
<1> QED BY <1>4, <1>5 DEF MultiForward

LEMMA SumsProxy == ASSUME Typed, Sums, NEW t \in TypesUsed, ProxyForward(t) PROVE Sums'
<1>1. Finite /\ UNCHANGED <<engineCh, multi, loop, accepted, coalesced, broadcasts>>
  BY DEF ProxyForward, Sums, counters
<1>2. /\ multiCh \in [TypesUsed -> Seq(Event)] /\ proxy \in [TypesUsed -> Seq(Event)]
      /\ proxyCh \in [TypesUsed -> Seq(Event)] /\ Len(proxy[t]) <= 1
  BY DEF Typed, TypeOK, HandsInv
<1>3. /\ Load(engineCh)' = Load(engineCh) /\ Load(multi)' = Load(multi) /\ Size(loop.batch)' = Size(loop.batch)
      /\ IsFiniteSet(Slots(engineCh)') /\ IsFiniteSet(Slots(multi)')
  BY <1>1 DEF Load, Finite
<1>4. CASE /\ proxy[t] = <<>> /\ multiCh[t] # <<>>
           /\ proxy' = [proxy EXCEPT ![t] = <<Head(multiCh[t])>>]
           /\ multiCh' = [multiCh EXCEPT ![t] = Tail(@)]
           /\ UNCHANGED proxyCh
  <2>1. More(TypesUsed, multiCh', multiCh, t) /\ More(TypesUsed, proxy, proxy', t)
    BY <1>2, <1>4, Taken
  <2>2. /\ IsFiniteSet(Slots(multiCh')) /\ IsFiniteSet(Slots(proxy')) /\ Load(multiCh') \in Nat
        /\ Load(multiCh) = Load(multiCh') + 1 /\ Load(proxy') = Load(proxy) + 1
    BY <1>1, <2>1, LoadMoves DEF Finite
  <2>3. Finite' /\ Load(proxyCh)' = Load(proxyCh)
    BY <1>1, <1>3, <1>4, <2>2 DEF Finite, Load
  <2>4. /\ Load(multiCh)' \in Nat /\ Load(multiCh) = Load(multiCh)' + 1
        /\ Load(proxy)' = Load(proxy) + 1
    BY <2>2
  <2>5. Transit' = Transit
    BY <1>1, <1>3, <2>3, <2>4, SumsNumbers DEF Transit
  <2> QED BY <1>1, <2>3, <2>5 DEF Sums
<1>5. CASE /\ proxy[t] # <<>> /\ Len(proxyCh[t]) < ProxyCap
           /\ proxyCh' = [proxyCh EXCEPT ![t] = @ \o proxy[t]]
           /\ proxy' = [proxy EXCEPT ![t] = <<>>]
           /\ UNCHANGED multiCh
  <2>1. More(TypesUsed, proxy', proxy, t) /\ More(TypesUsed, proxyCh, proxyCh', t)
    BY <1>2, <1>5, Handed
  <2>2. /\ IsFiniteSet(Slots(proxy')) /\ IsFiniteSet(Slots(proxyCh')) /\ Load(proxy') \in Nat
        /\ Load(proxy) = Load(proxy') + 1 /\ Load(proxyCh') = Load(proxyCh) + 1
    BY <1>1, <2>1, LoadMoves DEF Finite
  <2>3. Finite' /\ Load(multiCh)' = Load(multiCh)
    BY <1>1, <1>3, <1>5, <2>2 DEF Finite, Load
  <2>4. /\ Load(proxy)' \in Nat /\ Load(proxy) = Load(proxy)' + 1
        /\ Load(proxyCh)' = Load(proxyCh) + 1
    BY <2>2
  <2>5. Transit' = Transit
    BY <1>1, <1>3, <2>3, <2>4, SumsNumbers DEF Transit
  <2> QED BY <1>1, <2>3, <2>5 DEF Sums
<1> QED BY <1>4, <1>5 DEF ProxyForward

LEMMA SumsCollect == ASSUME Typed, Sums, NEW t \in TypesUsed, Collect(t) PROVE Sums'
<1> DEFINE r == Record(loop.batch, Head(proxyCh[t]))
<1>1. /\ proxyCh \in [TypesUsed -> Seq(Event)] /\ proxyCh[t] \in Seq(Event) /\ proxyCh[t] # <<>>
      /\ loop.batch \in Seq(Event) /\ Finite
  BY DEF Collect, Typed, TypeOK, Sums
<1>2. r \in Seq(Event) /\ Size(r) \in Nat /\ Size(r) <= Size(loop.batch) + 1
  <2>1. Head(proxyCh[t]) \in Event
    BY <1>1
  <2>2. r \in Seq(Event) /\ Len(r) \in 1..Len(loop.batch) + 1
    BY <1>1, <2>1, RecordType
  <2>3. Len(loop.batch) \in Nat
    BY <1>1
  <2> QED BY <2>2, <2>3 DEF Size
<1> HIDE DEF r
<1>3. UNCHANGED <<engineCh, multi, multiCh, proxy, accepted, broadcasts>> /\ loop'.batch = r
  <2>1. loop' = [loop EXCEPT !.batch = r, !.drained = @ + 1]
    BY DEF Collect, r
  <2>2. loop'.batch = r
    BY <2>1 DEF Typed, TypeOK
  <2> QED BY <2>2 DEF Collect
<1>4. coalesced' = coalesced + Size(loop.batch) + 1 - Size(r)
  <2>1. coalesced' = coalesced + Len(loop.batch) + 1 - Len(loop'.batch)
    BY Zenon DEF Collect
  <2> QED BY <1>3, <2>1 DEF Size
<1>5. More(TypesUsed, proxyCh', proxyCh, t)
  <2>1. Tail(proxyCh[t]) \in Seq(Event) /\ Len(proxyCh[t]) = Len(Tail(proxyCh[t])) + 1
    BY <1>1
  <2>2. proxyCh' = [proxyCh EXCEPT ![t] = Tail(@)]
    BY DEF Collect
  <2> QED BY <1>1, <2>1, <2>2 DEF More
<1>6. IsFiniteSet(Slots(proxyCh')) /\ Load(proxyCh') \in Nat /\ Load(proxyCh) = Load(proxyCh') + 1
  <2>1. IsFiniteSet(Slots(proxyCh'))
    BY <1>1, <1>5, LoadMore DEF Finite
  <2> QED BY <1>5, <2>1, LoadMore
<1>7. Finite' /\ Load(proxyCh)' \in Nat /\ Load(proxyCh) = Load(proxyCh)' + 1
  BY <1>1, <1>3, <1>6 DEF Finite
<1>8. /\ Load(engineCh)' = Load(engineCh) /\ Load(multi)' = Load(multi) /\ Load(multiCh)' = Load(multiCh)
      /\ Load(proxy)' = Load(proxy) /\ Size(loop.batch)' = Size(r)
  BY <1>3 DEF Load, Size
<1>9. /\ Load(engineCh) \in Nat /\ Load(multi) \in Nat /\ Load(multiCh) \in Nat /\ Load(proxy) \in Nat
      /\ Size(loop.batch) \in Nat /\ accepted \in Nat /\ coalesced \in Nat /\ broadcasts \in Nat
  BY <1>1, SumsNumbers
<1>10. PICK rest \in Nat : rest = Load(engineCh) + Load(multi) + Load(multiCh) + Load(proxy)
  BY <1>9
<1>11. /\ Transit = rest + (Load(proxyCh)' + 1) + Size(loop.batch)
       /\ Transit' = rest + Load(proxyCh)' + Size(r)
  BY <1>7, <1>8, <1>10 DEF Transit
<1>12. accepted = broadcasts + coalesced + Transit
  BY DEF Sums
<1>13. accepted' = broadcasts' + coalesced' + Transit'
  <2>1. PICK b \in Nat, c \in Nat, l \in Nat, s \in Nat, n \in Nat :
            b = broadcasts /\ c = coalesced /\ l = Load(proxyCh)' /\ s = Size(loop.batch) /\ n = Size(r)
    BY <1>2, <1>7, <1>9
  <2>2. accepted' = b + c + (rest + (l + 1) + s)
    BY <1>3, <1>11, <1>12, <2>1
  <2>3. broadcasts' + coalesced' + Transit' = b + (c + s + 1 - n) + (rest + l + n)
    BY <1>3, <1>4, <1>11, <2>1
  <2>4. rest \in Nat
    BY <1>10
  <2>5. b + c + (rest + (l + 1) + s) = b + (c + s + 1 - n) + (rest + l + n)
    BY <2>4
  <2> QED BY <2>2, <2>3, <2>5
<1> QED BY <1>7, <1>13 DEF Sums

LEMMA SumsBroadcast == ASSUME Typed, Sums, Broadcast PROVE Sums'
<1>1. /\ UNCHANGED <<engineCh, multi, multiCh, proxy, proxyCh, accepted, coalesced>>
      /\ broadcasts' = broadcasts + 1 /\ Finite
  BY DEF Broadcast, Sums, channels
<1>2. loop.batch \in Seq(Event) /\ loop.batch # <<>>
  BY DEF Broadcast, Typed, TypeOK, HandsInv
<1>3. Size(loop'.batch) \in Nat /\ Size(loop.batch) = Size(loop'.batch) + 1
  <2>1. CASE Len(loop.batch) = 1
    BY <2>1 DEF Broadcast, Collecting, Size
  <2>2. CASE Len(loop.batch) # 1
    <3>1. loop'.batch = Tail(loop.batch)
      BY <2>2 DEF Broadcast, Typed, TypeOK
    <3>2. \A q \in Seq(Event) : q # <<>> => Size(Tail(q)) \in Nat /\ Size(q) = Size(Tail(q)) + 1
      BY DEF Size
    <3> QED BY <1>2, <3>1, <3>2
  <2> QED BY <2>1, <2>2
<1>4. /\ Load(engineCh)' = Load(engineCh) /\ Load(multi)' = Load(multi) /\ Load(multiCh)' = Load(multiCh)
      /\ Load(proxy)' = Load(proxy) /\ Load(proxyCh)' = Load(proxyCh)
      /\ Size(loop.batch)' \in Nat /\ Size(loop.batch) = Size(loop.batch)' + 1
  BY <1>1, <1>3 DEF Load
<1>5. Finite'
  BY <1>1 DEF Finite
<1>6. Transit = Transit' + 1 /\ Transit' \in Nat
  BY <1>1, <1>4, SumsNumbers DEF Transit
<1>7. /\ accepted \in Nat /\ coalesced \in Nat /\ broadcasts \in Nat
      /\ accepted = broadcasts + coalesced + Transit
  BY <1>1, SumsNumbers DEF Sums
<1>8. accepted' = broadcasts' + coalesced' + Transit'
  BY <1>1, <1>6, <1>7
<1> QED BY <1>5, <1>8 DEF Sums

LEMMA SumsStep == Typed /\ Sums /\ [Next]_vars => Sums'
<1> SUFFICES ASSUME Typed, Sums, [Next]_vars PROVE Sums'
  OBVIOUS
<1>1. CASE Start \/ Cancel \/ StartBroadcast \/ LoopReturns \/ UNCHANGED vars
  <2>1. UNCHANGED <<channels, counters>> /\ loop'.batch = loop.batch
    BY <1>1 DEF Start, OpenPool, ConnectFails, Retry, StartRuntime, Attach, ClosePools, Cancel,
                StartBroadcast, LoopReturns, Collecting, vars, Typed, TypeOK
  <2> QED BY <2>1, SumsSame
<1> QED BY <1>1, SumsEmit, SumsMulti, SumsProxy, SumsCollect, SumsBroadcast DEF Next, BroadcastLoop

\* Past the engines' channels no event is lost: each is under way, broadcast, or
\* replaced by a later one of its key, for any keys and any capacities.
THEOREM BroadcasterAccounted == Spec => []Accounted
<1> QED BY TypeInit, TypeStep, SumsInit, SumsStep, SumsAccount, PTL DEF Spec

=============================================================================
