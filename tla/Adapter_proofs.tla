--------------------------- MODULE Adapter_proofs ---------------------------
(***************************************************************************)
(* For any number of connections, with or without pings and lifetime: the  *)
(* reported state follows Run, every connection but the last is closed,    *)
(* and a redial waits for half the back-off its failures call for.         *)
(***************************************************************************)
EXTENDS Adapter, TLAPS

\* The durations of calcBackoff before the cap.
LEMMA Powers ==
    2 ^ 0 = 1 /\ 2 ^ 1 = 2 /\ 2 ^ 2 = 4 /\ 2 ^ 3 = 8 /\ 2 ^ 4 = 16 /\ 2 ^ 5 = 32
  BY SMT

\* The delay is at most 30 seconds and does not shrink with the attempts.
LEMMA DelayGrows ==
    ASSUME NEW a \in Nat, NEW b \in Nat, a <= b
    PROVE  Delay(a) \in 1..30 /\ Delay(a) <= Delay(b)
<1>1. /\ AtMost(a, 5) \in {0, 1, 2, 3, 4, 5} /\ AtMost(b, 5) \in {0, 1, 2, 3, 4, 5}
      /\ AtMost(a, 5) <= AtMost(b, 5)
  BY DEF AtMost
<1> DEFINE delay(n) == 2 ^ n
<1>2. /\ delay(0) = 1 /\ delay(1) = 2 /\ delay(2) = 4 /\ delay(3) = 8
      /\ delay(4) = 16 /\ delay(5) = 32
  BY Powers
<1> HIDE DEF delay
<1>3. \A k, l \in {0, 1, 2, 3, 4, 5} : k <= l => delay(k) <= delay(l) /\ delay(k) \in 1..32
  BY <1>2
<1>4. /\ delay(AtMost(a, 5)) \in 1..32 /\ delay(AtMost(b, 5)) \in 1..32
      /\ delay(AtMost(a, 5)) <= delay(AtMost(b, 5))
  BY <1>1, <1>3
<1>5. /\ AtMost(delay(AtMost(a, 5)), 30) \in 1..30
      /\ AtMost(delay(AtMost(a, 5)), 30) <= AtMost(delay(AtMost(b, 5)), 30)
  BY <1>4 DEF AtMost
<1>6. QED
  BY <1>5, Zenon DEF Delay, delay

\* The step of an error counter keeps its type.
LEMMA Counted ==
    ASSUME NEW n \in 0..MaxErrs
    PROVE  /\ AtMost(n + 1, MaxErrs) \in 1..MaxErrs
           /\ n <= AtMost(n + 1, MaxErrs)
  BY AdapterAssumption DEF AtMost

-----------------------------------------------------------------------------
(* The connection and what is reported of it *)

\* A connection that is subscribed on or read was dialled.
Dialled == at \in {"subscribing", "reading"} => dials \in Conns

\* Nothing is known of a connection before it is dialled, and the context of the
\* one that is read has not been cancelled on its own.
Ahead == /\ connDone \subseteq 1..dials
         /\ at \in {"subscribing", "reading"} => dials \notin connDone

\* The back-off that was waited is at least half of the delay of the errors in a row
\* (in half seconds: at least as many as the delay has seconds), and these cover the dials
\* that were refused in a row: one less only while the last is not counted yet.
Waited ==
    /\ at = "loop" /\ ~cancelled => rested
    /\ at = "backoff" \/ (at = "loop" /\ ~cancelled /\ wait > 0) =>
           errs \in 1..MaxErrs /\ wait >= Delay(errs)
    /\ ~cancelled => refused <= IF at = "failed" THEN AtMost(errs + 1, MaxErrs) ELSE errs

IInv == TypeOK /\ Dialled /\ StateTruthful /\ Ahead /\ Waited

\* The adapter starts in the invariant.
LEMMA InitIInv == Init => IInv
<1> SUFFICES ASSUME Init PROVE IInv
  OBVIOUS
<1> USE AdapterAssumption
<1>1. TypeOK
  <2>1. 0 \in 0..MaxDials /\ 0 \in 0..MaxErrs /\ 0 \in 0..90
    OBVIOUS
  <2>2. conn \in [Conns -> {"none", "open", "lost", "closed"}] /\ helpers \in [Conns -> SUBSET Helper]
    BY DEF Init
  <2>3. QED
    BY <2>1, <2>2 DEF Init, TypeOK
<1>2. Dialled /\ StateTruthful /\ Ahead
  BY DEF Init, Dialled, StateTruthful, Ahead
<1>3. Waited
  BY DEF Init, Waited
<1>4. QED
  BY <1>1, <1>2, <1>3 DEF IInv

\* Run, outside a connection, keeps the invariant.
LEMMA LoopSteps ==
    ASSUME IInv, StartAttempt \/ RunReturns \/ CountError \/ BackoffEnds
    PROVE  IInv'
<1> USE AdapterAssumption
<1>1. CASE StartAttempt
  <2>1. TypeOK' /\ Dialled' /\ Ahead'
    BY <1>1 DEF StartAttempt, IInv, TypeOK, Dialled, Ahead, network
  <2>2. StateTruthful'
    BY <1>1 DEF StartAttempt, IInv, StateTruthful, network
  <2>3. Waited'
    BY <1>1 DEF StartAttempt, IInv, Waited
  <2>4. QED
    BY <2>1, <2>2, <2>3 DEF IInv
<1>2. CASE RunReturns
  BY <1>2 DEF RunReturns, IInv, TypeOK, Dialled, StateTruthful, Ahead, Waited, Conns, network, counts
<1>3. CASE CountError
  <2>1. CASE cancelled
    <3>1. TypeOK' /\ Dialled' /\ StateTruthful' /\ Ahead'
      BY <1>3, <2>1 DEF CountError, IInv, TypeOK, Dialled, StateTruthful, Ahead, network
    <3>2. Waited'
      BY <1>3, <2>1 DEF CountError, Waited
    <3>3. QED
      BY <3>1, <3>2 DEF IInv
  <2>2. CASE ~cancelled
    <3>1. errs' \in 1..MaxErrs /\ errs' = AtMost(errs + 1, MaxErrs)
      BY <1>3, <2>2, Counted DEF CountError, IInv, TypeOK
    <3>2. wait' \in 1..90 /\ wait' >= Delay(errs')
      <4>1. wait' \in Delay(errs')..(3 * Delay(errs'))
        BY <1>3, <2>2 DEF CountError, CalcBackoff
      <4>2. Delay(errs') \in 1..30
        BY <3>1, AdapterAssumption, DelayGrows
      <4>3. QED
        BY <4>1, <4>2
    <3>3. /\ at = "failed" /\ at' = "backoff"
          /\ UNCHANGED <<connState, network, refused, rested, cancelled>>
      BY <1>3, <2>2 DEF CountError
    <3>4. TypeOK' /\ Dialled' /\ StateTruthful' /\ Ahead'
      BY <3>1, <3>2, <3>3 DEF IInv, TypeOK, Dialled, StateTruthful, Ahead, Conns, network
    <3>5. Waited'
      BY <2>2, <3>1, <3>2, <3>3 DEF IInv, Waited
    <3>6. QED
      BY <3>4, <3>5 DEF IInv
  <2>3. QED
    BY <2>1, <2>2
<1>4. CASE BackoffEnds
  <2>1. TypeOK' /\ Dialled' /\ Ahead'
    BY <1>4 DEF BackoffEnds, IInv, TypeOK, Dialled, Ahead, network
  <2>2. StateTruthful'
    BY <1>4 DEF BackoffEnds, IInv, StateTruthful, network
  <2>3. Waited'
    BY <1>4 DEF BackoffEnds, IInv, Waited
  <2>4. QED
    BY <2>1, <2>2, <2>3 DEF IInv
<1>5. QED
  BY <1>1, <1>2, <1>3, <1>4

\* connectAndRead keeps the invariant: a connection it leaves is closed.
LEMMA ConnectionSteps ==
    ASSUME IInv, ConnectAndRead PROVE IInv'
<1> USE AdapterAssumption
<1>1. CASE DialFails
  <2>1. refused' \in 0..MaxErrs
    BY <1>1, Counted DEF DialFails, IInv, TypeOK
  <2>0. ASSUME ~cancelled PROVE refused' <= AtMost(errs + 1, MaxErrs)
    <3>1. refused <= errs /\ refused' = AtMost(refused + 1, MaxErrs)
      BY <1>1, <2>0 DEF DialFails, IInv, Waited
    <3>2. refused \in Nat /\ errs \in Nat /\ MaxErrs \in Nat
      BY DEF IInv, TypeOK
    <3>3. QED
      BY <3>1, <3>2 DEF AtMost
  <2>2. TypeOK' /\ Dialled' /\ StateTruthful' /\ Ahead'
    BY <1>1, <2>1 DEF DialFails, IInv, TypeOK, Dialled, StateTruthful, Ahead, network
  <2>3. Waited'
    BY <1>1, <2>0 DEF DialFails, Waited
  <2>4. QED
    BY <2>2, <2>3 DEF IInv
<1>2. CASE DialSucceeds
  <2>1. dials + 1 \in Conns /\ connState = "connecting" /\ dials' = dials + 1
    BY <1>2 DEF DialSucceeds, IInv, TypeOK, StateTruthful, Conns
  <2>2. TypeOK' /\ Dialled' /\ StateTruthful' /\ Ahead'
    BY <1>2, <2>1 DEF DialSucceeds, IInv, TypeOK, Dialled, StateTruthful, Ahead, Conns
  <2>3. Waited'
    BY <1>2 DEF DialSucceeds, IInv, Waited
  <2>4. QED
    BY <2>2, <2>3 DEF IInv
<1>3. CASE SubscribeFails
  <2>1. TypeOK' /\ Dialled' /\ StateTruthful' /\ Ahead'
    BY <1>3 DEF SubscribeFails, IInv, TypeOK, Dialled, StateTruthful, Ahead, Conns, counts
  <2>2. Waited'
    BY <1>3, Counted DEF SubscribeFails, IInv, TypeOK, Waited, counts
  <2>3. QED
    BY <2>1, <2>2 DEF IInv
<1>4. CASE Subscribe
  <2>1. helpers' \in [Conns -> SUBSET Helper]
    BY <1>4 DEF Subscribe, IInv, TypeOK, Helper
  <2>2. QED
    BY <1>4, <2>1 DEF Subscribe, IInv, TypeOK, Dialled, StateTruthful, Ahead, Waited, counts
<1>5. CASE ReadFails
  <2>1. dials \in Conns /\ at' = "failed"
    BY <1>5 DEF ReadFails, IInv, Dialled, Ahead
  <2>2. TypeOK' /\ Dialled' /\ StateTruthful' /\ Ahead'
    BY <1>5, <2>1 DEF ReadFails, IInv, TypeOK, Dialled, StateTruthful, Ahead, Conns, counts
  <2>3. Waited'
    BY <1>5, <2>1, Counted DEF ReadFails, IInv, TypeOK, Waited, counts
  <2>4. QED
    BY <2>2, <2>3 DEF IInv
<1>6. QED
  BY <1>1, <1>2, <1>3, <1>4, <1>5 DEF ConnectAndRead

\* The goroutines of a connection, its peer and the cancellation keep it too.
LEMMA OtherSteps ==
    ASSUME IInv, (\E c \in Conns : Help(c)) \/ PeerGone \/ Cancel \/ UNCHANGED vars
    PROVE  IInv'
<1> USE AdapterAssumption
<1>1. ASSUME NEW c \in Conns, Help(c) PROVE IInv'
  <2>1. /\ UNCHANGED <<at, connState, dials, connDone, counts, cancelled>>
        /\ conn' = conn \/ conn' = [conn EXCEPT ![c] = "closed"]
        /\ \E h \in Helper : helpers' = [helpers EXCEPT ![c] = @ \ {h}]
    BY <1>1 DEF Help, CloserEnds, PingsEnd, LifetimeEnds, Helper
  <2>2. TypeOK' /\ Dialled'
    BY <2>1 DEF IInv, TypeOK, Dialled, counts
  <2>3. StateTruthful'
    BY <2>1 DEF IInv, TypeOK, StateTruthful
  <2>4. QED
    BY <2>1, <2>2, <2>3 DEF IInv, Ahead, Waited, counts
<1>2. CASE PeerGone
  <2>1. connState = "connected"
    BY <1>2 DEF PeerGone, Open, IInv, TypeOK, StateTruthful, Conns
  <2>2. QED
    BY <1>2, <2>1 DEF PeerGone, IInv, TypeOK, Dialled, StateTruthful, Ahead, Waited, counts
<1>3. CASE Cancel
  BY <1>3 DEF Cancel, IInv, TypeOK, Dialled, StateTruthful, Ahead, Waited, network, counts
<1>4. CASE UNCHANGED vars
  BY <1>4 DEF vars, network, counts, IInv, TypeOK, Dialled, StateTruthful, Ahead, Waited
<1>5. QED
  BY <1>1, <1>2, <1>3, <1>4

\* What Adapter!TypeOK, StateTruthful and the rest of the invariant say holds always.
THEOREM AdapterInvariant == Spec => []IInv
<1>1. IInv /\ [Next]_vars => IInv'
  BY LoopSteps, ConnectionSteps, OtherSteps DEF Next, Run
<1>2. QED
  BY <1>1, InitIInv, PTL DEF Spec

\* For any number of connections, the state the clients are told of an exchange is
\* where Run is (SetStateCallback, base.go): a connection not yet closed is the last
\* dialled and reported "connected". The converse does not hold: the closer and the
\* lifetime close a connection before the failed read lets Run report it.
THEOREM AdapterStateTruthful == Spec => []StateTruthful
<1>1. IInv => StateTruthful
  BY DEF IInv
<1>2. QED
  BY <1>1, AdapterInvariant, PTL

\* For any number of connections and failures and any jitter, every redial follows a
\* back-off of at least half the delay that the dials refused in a row call for (Run
\* and calcBackoff).
THEOREM AdapterPatient == Spec => PatientRedial
<1> DEFINE attempt == IF refused = 0 THEN 1 ELSE refused
           Patient == at # "dialing" /\ at' = "dialing" =>
                          rested /\ (wait > 0 => wait >= Delay(attempt))
<1>1. IInv /\ [Next]_vars => [Patient]_vars
  <2> SUFFICES ASSUME IInv, [Next]_vars, at # "dialing", at' = "dialing"
               PROVE  rested /\ (wait > 0 => wait >= Delay(attempt))
    OBVIOUS
  <2>1. StartAttempt
    BY DEF Next, Run, RunReturns, CountError, BackoffEnds, ConnectAndRead, DialFails, DialSucceeds,
           SubscribeFails, Subscribe, ReadFails, Help, CloserEnds, PingsEnd, LifetimeEnds,
           PeerGone, Cancel, vars
  <2>2. at = "loop" /\ ~cancelled
    BY <2>1 DEF StartAttempt
  <2>3. rested
    BY <2>2 DEF IInv, Waited
  <2>4. ASSUME wait > 0 PROVE wait >= Delay(attempt)
    <3>1. errs \in 1..MaxErrs /\ wait >= Delay(errs) /\ refused <= errs
      BY <2>2, <2>4 DEF IInv, Waited
    <3>2. attempt \in Nat /\ errs \in Nat /\ attempt <= errs
      BY <3>1, AdapterAssumption DEF IInv, TypeOK
    <3>3. Delay(attempt) \in 1..30 /\ Delay(errs) \in 1..30
          /\ Delay(attempt) <= Delay(errs)
      BY <3>2, DelayGrows
    <3>4. wait \in Nat
      BY DEF IInv, TypeOK
    <3>5. QED
      BY <3>1, <3>3, <3>4
  <2>5. QED
    BY <2>3, <2>4
<1>2. QED
  BY <1>1, AdapterInvariant, PTL DEF Spec, PatientRedial
=============================================================================
