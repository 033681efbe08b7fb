------------------------- MODULE BatchWriters_proofs -------------------------
(***************************************************************************)
(* For any number of engine writers, any buffers and batches, and any      *)
(* errors of the database: the writers implement StoreOnce, and an engine  *)
(* writer that has returned leaves nothing behind.                         *)
(***************************************************************************)
EXTENDS BatchWriters, SequenceTheorems, WellFoundedInduction, TLAPS

-----------------------------------------------------------------------------
(* Queues and batches as sets *)

\* Nothing is in the empty sequence.
LEMMA ElementsNone == <<>> \in Seq(Items) /\ Elements(<<>>) = {}
  BY DEF Elements

\* The elements of a sequence are of its type; only the empty one has none.
LEMMA ElementsOf ==
    ASSUME NEW T, NEW s \in Seq(T)
    PROVE  /\ Elements(s) \subseteq T
           /\ s = <<>> <=> Elements(s) = {}
<1>1. /\ DOMAIN s = 1..Len(s) /\ Len(s) \in Nat /\ (s = <<>> <=> Len(s) = 0)
      /\ \A i \in 1..Len(s) : s[i] \in T
  BY EmptySeq
<1>2. Elements(s) = {s[i] : i \in 1..Len(s)}
  BY <1>1 DEF Elements
<1>3. Len(s) # 0 => s[1] \in Elements(s)
  BY <1>1, <1>2
<1>4. QED
  BY <1>1, <1>2, <1>3

\* An item is added at the end.
LEMMA ElementsAppend ==
    ASSUME NEW T, NEW s \in Seq(T), NEW e \in T
    PROVE  Append(s, e) \in Seq(T) /\ Elements(Append(s, e)) = Elements(s) \cup {e}
<1>1. /\ Append(s, e) \in Seq(T) /\ Len(Append(s, e)) = Len(s) + 1
      /\ DOMAIN Append(s, e) = 1..(Len(s) + 1) /\ DOMAIN s = 1..Len(s) /\ Len(s) \in Nat
      /\ \A i \in 1..Len(s) : Append(s, e)[i] = s[i]
      /\ Append(s, e)[Len(s) + 1] = e
  BY AppendProperties
<1>2. Elements(Append(s, e)) \subseteq Elements(s) \cup {e}
  BY <1>1 DEF Elements
<1>3. Elements(s) \cup {e} \subseteq Elements(Append(s, e))
  BY <1>1 DEF Elements
<1>4. QED
  BY <1>1, <1>2, <1>3

\* An item is taken from the front.
LEMMA ElementsTail ==
    ASSUME NEW T, NEW s \in Seq(T), s # <<>>
    PROVE  /\ Head(s) \in T /\ Tail(s) \in Seq(T)
           /\ Elements(s) = {Head(s)} \cup Elements(Tail(s))
           /\ Len(s) = 1 <=> Tail(s) = <<>>
<1>1. /\ Head(s) \in T /\ Tail(s) \in Seq(T) /\ Head(s) = s[1]
      /\ DOMAIN s = 1..Len(s) /\ Len(s) \in Nat \ {0} /\ DOMAIN Tail(s) = 1..(Len(s) - 1)
      /\ \A i \in 1..(Len(s) - 1) : Tail(s)[i] = s[i + 1]
  OBVIOUS
<1>2. Elements(s) \subseteq {Head(s)} \cup Elements(Tail(s))
  <2> SUFFICES ASSUME NEW i \in 1..Len(s) PROVE s[i] \in {Head(s)} \cup Elements(Tail(s))
    BY <1>1 DEF Elements
  <2>1. CASE i = 1
    BY <1>1, <2>1
  <2>2. CASE i # 1
    <3>1. i - 1 \in 1..(Len(s) - 1) /\ Tail(s)[i - 1] = s[i]
      BY <1>1, <2>2
    <3>2. QED
      BY <1>1, <3>1 DEF Elements
  <2>3. QED
    BY <2>1, <2>2
<1>3. {Head(s)} \cup Elements(Tail(s)) \subseteq Elements(s)
  BY <1>1 DEF Elements
<1>4. Len(s) = 1 <=> Tail(s) = <<>>
  <2>1. \A t \in Seq(T) : t = <<>> <=> Len(t) = 0
    BY EmptySeq
  <2> DEFINE t == Tail(s)
  <2>2. t \in Seq(T) /\ Len(t) = Len(s) - 1
    BY <1>1
  <2> HIDE DEF t
  <2>3. t = <<>> <=> Len(t) = 0
    BY <2>1, <2>2
  <2>4. t = <<>> <=> Len(s) = 1
    BY <1>1, <2>2, <2>3
  <2>5. QED
    BY <2>4 DEF t
<1>5. QED
  BY <1>1, <1>2, <1>3, <1>4

-----------------------------------------------------------------------------
(* Types *)

FlushType == [step : {"none", "batch", "single"}, left : Seq(Items), fresh : BOOLEAN,
              expired : BOOLEAN]

\* A flush at any of its stages.
LEMMA FlushTyped ==
    ASSUME NEW step \in {"none", "batch", "single"}, NEW left \in Seq(Items),
           NEW fresh \in BOOLEAN, NEW expired \in BOOLEAN
    PROVE  /\ Flush(step, left, fresh, expired) \in FlushType
           /\ Flush(step, left, fresh, expired).step = step
           /\ Flush(step, left, fresh, expired).left = left
  BY DEF Flush, FlushType

WaitingOf == [w \in Writers |-> Waiting(w)]

\* What the writers have in hand; a flush has items left while it lasts.
Hands ==
    /\ queue \in [Writers -> Seq(Items)] /\ batch \in [Writers -> Seq(Items)]
    /\ flush \in [Writers -> FlushType]
    /\ \A w \in Writers : flush[w].step = "none" <=> flush[w].left = <<>>

\* An engine's writer drains after its producer, and returns with nothing in hand
\* but a last flush.
Ends ==
    /\ mode \in [Writers -> {"running", "draining", "done"}]
    /\ producing \subseteq Writers /\ cancelled \in BOOLEAN /\ pool \in BOOLEAN
    /\ \A w \in EngineWriters :
        /\ mode[w] # "running" => w \notin producing
        /\ mode[w] = "done" => queue[w] = <<>> /\ batch[w] = <<>>

\* Items are numbered in the order they are offered.
Numbered ==
    /\ offered \in [Writers -> Nat] /\ faults \in 0..MaxFaults
    /\ rows \in [Writers -> SUBSET Items] /\ failed \in [Writers -> SUBSET Items]
    /\ dropped \in [Writers -> SUBSET Items]
    /\ \A w \in Writers : \A i \in WaitingOf[w] \cup rows[w] \cup failed[w] \cup dropped[w] :
           i <= offered[w]

Inv == Hands /\ Ends /\ Numbered

\* What is waiting is a set of items.
LEMMA WaitingTyped ==
    ASSUME Hands
    PROVE  /\ WaitingOf \in [Writers -> SUBSET Items]
           /\ \A w \in Writers : WaitingOf[w] =
                  Elements(queue[w]) \cup Elements(batch[w]) \cup Elements(flush[w].left)
<1>1. \A w \in Writers : /\ Elements(queue[w]) \subseteq Items /\ Elements(batch[w]) \subseteq Items
                         /\ Elements(flush[w].left) \subseteq Items
  <2> TAKE w \in Writers
  <2>1. queue[w] \in Seq(Items) /\ batch[w] \in Seq(Items) /\ flush[w].left \in Seq(Items)
    BY DEF Hands, FlushType
  <2>2. QED
    BY <2>1, ElementsOf
<1>2. QED
  BY <1>1 DEF WaitingOf, Waiting

\* An item goes from the queue to the batch, a full batch to the flush.
LEMMA AddMoves ==
    ASSUME Hands, NEW w \in Writers, NEW fresh \in BOOLEAN, flush[w].step = "none", Add(w, fresh)
    PROVE  Hands' /\ WaitingOf' = WaitingOf
<1> DEFINE filled == Append(batch[w], Head(queue[w]))
           full == Len(filled) >= MaxRows
           inFlush == IF full THEN filled ELSE <<>>
           inBatch == IF full THEN <<>> ELSE filled
<1>1. /\ queue[w] # <<>> /\ queue[w] \in Seq(Items) /\ batch[w] \in Seq(Items)
      /\ flush[w].left = <<>>
  BY DEF Add, Hands
<1>2. /\ Head(queue[w]) \in Items /\ Tail(queue[w]) \in Seq(Items)
      /\ Elements(queue[w]) = {Head(queue[w])} \cup Elements(Tail(queue[w]))
  BY <1>1, ElementsTail
<1>3. filled \in Seq(Items) /\ Elements(filled) = Elements(batch[w]) \cup {Head(queue[w])}
  BY <1>1, <1>2, ElementsAppend
<1>4. /\ queue' = [queue EXCEPT ![w] = Tail(queue[w])]
      /\ batch' = [batch EXCEPT ![w] = inBatch]
      /\ flush' = [flush EXCEPT ![w] = FlushOf(inFlush, fresh)]
  BY DEF Add
<1>5. <<>> \in Seq(Items) /\ Elements(<<>>) = {}
  BY ElementsNone
<1> HIDE DEF filled, full
<1>6. /\ inFlush \in Seq(Items) /\ inBatch \in Seq(Items)
      /\ Elements(inFlush) \cup Elements(inBatch) = Elements(batch[w]) \cup {Head(queue[w])}
  BY <1>3, <1>5
<1> HIDE DEF inFlush, inBatch
<1>7. /\ FlushOf(inFlush, fresh) \in FlushType
      /\ FlushOf(inFlush, fresh).left = inFlush
      /\ FlushOf(inFlush, fresh).step = "none" <=> inFlush = <<>>
  BY <1>6 DEF FlushOf, Flush, FlushType
<1>8. Hands'
  BY <1>2, <1>4, <1>6, <1>7 DEF Hands
<1>9. \A v \in Writers : WaitingOf'[v] = WaitingOf[v]
  <2> TAKE v \in Writers
  <2>1. /\ WaitingOf[v] = Elements(queue[v]) \cup Elements(batch[v]) \cup Elements(flush[v].left)
        /\ WaitingOf'[v] = Elements(queue'[v]) \cup Elements(batch'[v]) \cup Elements(flush'[v].left)
    BY DEF WaitingOf, Waiting
  <2>2. CASE v = w
    <3>1. queue'[w] = Tail(queue[w]) /\ batch'[w] = inBatch /\ flush'[w].left = inFlush
      BY <1>4, <1>7 DEF Hands
    <3>2. QED
      BY <2>1, <2>2, <3>1, <1>1, <1>2, <1>5, <1>6
  <2>3. CASE v # w
    BY <2>1, <2>3, <1>4 DEF Hands
  <2>4. QED
    BY <2>2, <2>3
<1>10. QED
  BY <1>8, <1>9 DEF WaitingOf

\* The batch goes to the flush.
LEMMA FlushMoves ==
    ASSUME Hands, NEW w \in Writers, NEW fresh \in BOOLEAN, flush[w].step = "none",
           FlushBatch(w, fresh), queue' = queue
    PROVE  Hands' /\ WaitingOf' = WaitingOf
<1>1. batch[w] \in Seq(Items) /\ flush[w].left = <<>>
  BY DEF Hands
<1>2. <<>> \in Seq(Items) /\ Elements(<<>>) = {}
  BY ElementsNone
<1>3. /\ batch' = [batch EXCEPT ![w] = <<>>]
      /\ flush' = [flush EXCEPT ![w] = FlushOf(batch[w], fresh)]
  BY DEF FlushBatch
<1>4. /\ FlushOf(batch[w], fresh) \in FlushType
      /\ FlushOf(batch[w], fresh).left = batch[w]
      /\ FlushOf(batch[w], fresh).step = "none" <=> batch[w] = <<>>
  BY <1>1 DEF FlushOf, Flush, FlushType
<1>5. Hands'
  BY <1>2, <1>3, <1>4 DEF Hands
<1>6. \A v \in Writers : WaitingOf'[v] = WaitingOf[v]
  <2> TAKE v \in Writers
  <2>1. /\ WaitingOf[v] = Elements(queue[v]) \cup Elements(batch[v]) \cup Elements(flush[v].left)
        /\ WaitingOf'[v] = Elements(queue[v]) \cup Elements(batch'[v]) \cup Elements(flush'[v].left)
    BY DEF WaitingOf, Waiting
  <2>2. CASE v = w
    <3>1. batch'[w] = <<>> /\ flush'[w].left = batch[w]
      BY <1>3, <1>4 DEF Hands
    <3>2. QED
      BY <2>1, <2>2, <3>1, <1>1, <1>2
  <2>3. CASE v # w
    BY <2>1, <2>3, <1>3 DEF Hands
  <2>4. QED
    BY <2>2, <2>3
<1>7. QED
  BY <1>5, <1>6 DEF WaitingOf

\* Taking items and starting flushes changes who holds them, not which wait.
LEMMA MoveStep ==
    ASSUME Inv, NEW w \in Writers,
           Take(w) \/ FlushTimer(w) \/ LastFlush(w) \/ StartDrain(w) \/ Drain(w)
    PROVE  /\ Inv' /\ WaitingOf' = WaitingOf
           /\ UNCHANGED <<offered, rows, failed, dropped>>
<1>1. Hands /\ flush[w].step = "none"
  BY DEF Inv, Take, FlushTimer, LastFlush, StartDrain, Drain, Free
<1>2. Hands' /\ WaitingOf' = WaitingOf
  <2>1. CASE Take(w)
    BY <1>1, <2>1, AddMoves DEF Take
  <2>2. CASE FlushTimer(w)
    BY <1>1, <2>2, FlushMoves DEF FlushTimer
  <2>3. CASE LastFlush(w)
    BY <1>1, <2>3, FlushMoves DEF LastFlush
  <2>4. CASE StartDrain(w)
    BY <1>1, <2>4 DEF StartDrain, Hands, WaitingOf, Waiting
  <2>5. CASE Drain(w)
    BY <1>1, <2>5, AddMoves, FlushMoves DEF Drain
  <2>6. QED
    BY <2>1, <2>2, <2>3, <2>4, <2>5
<1>3. /\ UNCHANGED <<offered, rows, failed, dropped, faults, producing, cancelled, pool>>
      /\ mode' = mode \/ mode' = [mode EXCEPT ![w] = "draining"] \/ mode' = [mode EXCEPT ![w] = "done"]
  BY DEF Take, FlushTimer, LastFlush, StartDrain, Drain, tables, process
<1>4. Numbered'
  BY <1>2, <1>3 DEF Inv, Numbered
<1>5. Ends'
  <2>1. mode' \in [Writers -> {"running", "draining", "done"}]
    BY <1>3 DEF Inv, Ends
  <2>2. ASSUME NEW v \in EngineWriters
        PROVE  /\ mode'[v] # "running" => v \notin producing
               /\ mode'[v] = "done" => queue'[v] = <<>> /\ batch'[v] = <<>>
    <3>1. CASE v # w
      <4>1. v \in Writers /\ mode'[v] = mode[v]
        BY <1>3, <3>1 DEF Inv, Ends, Writers
      <4>2. queue'[v] = queue[v] /\ batch'[v] = batch[v]
        BY <3>1, <4>1 DEF Take, FlushTimer, LastFlush, StartDrain, Drain, Add, FlushBatch, Inv, Hands
      <4>3. QED
        BY <4>1, <4>2 DEF Inv, Ends
    <3>2. CASE v = w
      <4>1. w # RawWriter
        BY <3>2, WriterAssumption
      <4>2. CASE Take(w) \/ FlushTimer(w)
        BY <3>2, <4>2 DEF Take, FlushTimer, Free, Inv, Ends
      <4>3. CASE StartDrain(w)
        BY <3>2, <4>1, <4>3 DEF StartDrain, Done, Inv, Ends, Writers
      <4>4. CASE Drain(w)
        <5>1. mode[w] = "draining"
          BY <4>4 DEF Drain, Free
        <5>2. w \notin producing
          BY <3>2, <5>1 DEF Inv, Ends
        <5>3. \/ mode' = mode
              \/ queue[w] = <<>> /\ queue' = queue /\ batch' = [batch EXCEPT ![w] = <<>>]
          BY <4>4 DEF Drain, FlushBatch
        <5>4. QED
          BY <3>2, <5>1, <5>2, <5>3, <1>1 DEF Hands, Inv, Ends
      <4>5. CASE LastFlush(w)
        BY <4>1, <4>5 DEF LastFlush
      <4>6. QED
        BY <4>2, <4>3, <4>4, <4>5
    <3>3. QED
      BY <3>1, <3>2
  <2>3. QED
    BY <1>3, <2>1, <2>2 DEF Inv, Ends
<1>6. QED
  BY <1>2, <1>3, <1>4, <1>5 DEF Inv

\* A set of natural numbers that is not empty has a least element.
LEMMA LeastNat ==
    ASSUME NEW S \in SUBSET Nat, S # {}
    PROVE  \E n \in S : \A m \in S : n <= m
<1>1. IsWellFoundedOn(OpToRel(<, Nat), Nat)
  BY NatLessThanWellFounded
<1>2. PICK n \in S : \A m \in S : <<m, n>> \notin OpToRel(<, Nat)
  BY <1>1, WFMin
<1>3. \A m \in S : ~(m < n)
  BY <1>2 DEF OpToRel
<1>4. QED
  BY <1>3

\* An insert that does not fail takes rows of its sequence only, and afterwards
\* there is a row for the key of each of its items.
LEMMA NewRowsCover ==
    ASSUME NEW w \in Writers, NEW s \in Seq(Items)
    PROVE  /\ NewRows(w, s) \subseteq Elements(s)
           /\ \A e \in Elements(s) :
                  HasRow(Key[w][e]) \/ \E i \in NewRows(w, s) : Key[w][i] = Key[w][e]
<1>1. DOMAIN s = 1..Len(s) /\ Len(s) \in Nat
  OBVIOUS
<1>2. NewRows(w, s) \subseteq Elements(s)
  BY DEF NewRows, Elements
<1>3. ASSUME NEW e \in Elements(s), ~HasRow(Key[w][e])
      PROVE  \E i \in NewRows(w, s) : Key[w][i] = Key[w][e]
  <2> DEFINE same == {n \in 1..Len(s) : Key[w][s[n]] = Key[w][e]}
  <2>1. same # {} /\ same \in SUBSET Nat
    BY <1>1 DEF Elements
  <2>2. PICK n \in same : \A m \in same : n <= m
    <3> HIDE DEF same
    <3>1. QED
      BY <2>1, LeastNat
  <2>3. ASSUME NEW m \in 1..(n - 1) PROVE Key[w][s[m]] # Key[w][s[n]]
    <3>1. m \in 1..Len(s) /\ ~(n <= m)
      BY <1>1, <2>2
    <3>2. QED
      BY <2>2, <3>1
  <2>4. n \in DOMAIN s /\ ~HasRow(Key[w][s[n]]) /\ Key[w][s[n]] = Key[w][e]
    BY <1>1, <1>3, <2>2
  <2>5. s[n] \in NewRows(w, s)
    BY <2>3, <2>4 DEF NewRows
  <2>6. QED
    BY <2>4, <2>5
<1>4. QED
  BY <1>2, <1>3

\* The sequence of one item.
LEMMA NewRowsOne ==
    ASSUME NEW w \in Writers, NEW e \in Items
    PROVE  NewRows(w, <<e>>) = IF HasRow(Key[w][e]) THEN {} ELSE {e}
<1>1. DOMAIN <<e>> = {1} /\ <<e>>[1] = e /\ 1..(1 - 1) = {}
  OBVIOUS
<1>2. QED
  BY <1>1 DEF NewRows

\* There is a row with this key after the step.
Keyed(k) == \E v \in Writers : \E j \in rows'[v] : Key[v][j] = k

\* What one step of a flush does to the items of its writer: they are reported, or
\* have a row with their key, before they are let go of.
Resolved(w) ==
    /\ rows[w] \subseteq rows'[w] /\ rows'[w] \subseteq rows[w] \cup WaitingOf[w]
    /\ failed[w] \subseteq failed'[w] /\ failed'[w] \subseteq failed[w] \cup WaitingOf[w]
    /\ WaitingOf'[w] \subseteq WaitingOf[w]
    /\ \A i \in WaitingOf[w] \ WaitingOf'[w] : i \in failed'[w] \/ Keyed(Key[w][i])
    /\ \A v \in Writers \ {w} :
           rows'[v] = rows[v] /\ failed'[v] = failed[v] /\ WaitingOf'[v] = WaitingOf[v]

\* What a flush that goes on, or ends, leaves waiting.
LEMMA FlushWaiting ==
    ASSUME Hands, NEW w \in Writers, NEW f \in FlushType, f.step = "none" <=> f.left = <<>>,
           queue' = queue, batch' = batch, flush' = [flush EXCEPT ![w] = f],
           Elements(f.left) \subseteq Elements(flush[w].left)
    PROVE  /\ Hands'
           /\ WaitingOf'[w] \subseteq WaitingOf[w]
           /\ WaitingOf[w] \ WaitingOf'[w] \subseteq Elements(flush[w].left) \ Elements(f.left)
           /\ \A v \in Writers \ {w} : WaitingOf'[v] = WaitingOf[v]
<1>1. Hands'
  BY DEF Hands
<1>2. \A v \in Writers :
          /\ WaitingOf[v] = Elements(queue[v]) \cup Elements(batch[v]) \cup Elements(flush[v].left)
          /\ WaitingOf'[v] = Elements(queue[v]) \cup Elements(batch[v]) \cup Elements(flush'[v].left)
  BY DEF WaitingOf, Waiting
<1>3. flush'[w] = f /\ \A v \in Writers \ {w} : flush'[v] = flush[v]
  BY DEF Hands
<1>4. QED
  BY <1>1, <1>2, <1>3

\* The batch insert, the fallback and the single inserts keep the promise.
LEMMA FlushStep ==
    ASSUME Inv, NEW w \in Writers,
           BatchInsert(w) \/ BatchFails(w) \/ SingleInsert(w) \/ SingleFails(w)
    PROVE  Inv' /\ Resolved(w) /\ UNCHANGED <<offered, dropped>>
<1> DEFINE left == flush[w].left
<1>1. /\ Hands /\ left \in Seq(Items) /\ left # <<>> /\ flush[w].step # "none"
      /\ flush[w].fresh \in BOOLEAN /\ flush[w].expired \in BOOLEAN
  BY DEF Inv, Hands, FlushType, BatchInsert, BatchFails, SingleInsert, SingleFails
<1>2. /\ Head(left) \in Items /\ Tail(left) \in Seq(Items)
      /\ Elements(left) = {Head(left)} \cup Elements(Tail(left))
      /\ Len(left) = 1 <=> Tail(left) = <<>>
      /\ Elements(left) \subseteq WaitingOf[w] /\ Elements(left) \subseteq Items
  <2>1. /\ Head(left) \in Items /\ Tail(left) \in Seq(Items)
        /\ Elements(left) = {Head(left)} \cup Elements(Tail(left))
        /\ Len(left) = 1 <=> Tail(left) = <<>>
    BY <1>1, ElementsTail
  <2>2. Elements(left) \subseteq WaitingOf[w] /\ Elements(left) \subseteq Items
    BY <1>1, WaitingTyped, ElementsOf
  <2>3. QED
    BY <2>1, <2>2
<1>3. /\ UNCHANGED <<offered, queue, batch, mode, dropped, producing, cancelled, pool>>
      /\ faults' \in 0..MaxFaults
  BY WriterAssumption
     DEF BatchInsert, BatchFails, SingleInsert, SingleFails, Fault, process, Inv, Numbered
<1>4. /\ NoFlush \in FlushType /\ NoFlush.step = "none" /\ NoFlush.left = <<>>
      /\ \A e \in BOOLEAN : /\ Flush("single", left, flush[w].fresh, e) \in FlushType
                            /\ Flush("single", left, flush[w].fresh, e).step = "single"
                            /\ Flush("single", left, flush[w].fresh, e).left = left
      /\ Flush("single", Tail(left), flush[w].fresh, flush[w].expired) \in FlushType
      /\ Flush("single", Tail(left), flush[w].fresh, flush[w].expired).step = "single"
      /\ Flush("single", Tail(left), flush[w].fresh, flush[w].expired).left = Tail(left)
  BY <1>1, <1>2, ElementsNone DEF NoFlush, Flush, FlushType
<1>5. PICK f \in FlushType :
          /\ flush' = [flush EXCEPT ![w] = f] /\ (f.step = "none" <=> f.left = <<>>)
          /\ \/ /\ BatchInsert(w) /\ f.left = <<>>
             \/ /\ BatchFails(w) /\ f.left = left
             \/ /\ SingleInsert(w) \/ SingleFails(w)
                /\ f.left = Tail(left)
  <2>1. CASE BatchInsert(w)
    BY <1>4, <2>1 DEF BatchInsert
  <2>2. CASE BatchFails(w)
    <3>1. PICK e \in BOOLEAN : flush' = [flush EXCEPT ![w] = Flush("single", left, flush[w].fresh, e)]
      BY <1>1, <2>2 DEF BatchFails
    <3>2. QED
      BY <1>1, <1>4, <2>2, <3>1
  <2>3. CASE SingleInsert(w) \/ SingleFails(w)
    <3>1. NextSingle(w)
      BY <2>3 DEF SingleInsert, SingleFails
    <3>2. flush' = [flush EXCEPT ![w] =
              IF Len(left) = 1 THEN NoFlush
              ELSE Flush("single", Tail(left), flush[w].fresh, flush[w].expired)]
      BY <3>1 DEF NextSingle
    <3>3. QED
      BY <1>2, <1>4, <2>3, <3>2
  <2>4. QED
    BY <2>1, <2>2, <2>3
<1>6. Elements(f.left) \subseteq Elements(left)
  BY <1>2, <1>5, ElementsNone
<1>7. /\ Hands' /\ WaitingOf'[w] \subseteq WaitingOf[w]
      /\ WaitingOf[w] \ WaitingOf'[w] \subseteq Elements(left) \ Elements(f.left)
      /\ \A v \in Writers \ {w} : WaitingOf'[v] = WaitingOf[v]
  BY <1>1, <1>3, <1>5, <1>6, FlushWaiting
<1>8. /\ rows' \in [Writers -> SUBSET Items] /\ failed' \in [Writers -> SUBSET Items]
      /\ Resolved(w)
  <2>1. rows \in [Writers -> SUBSET Items] /\ failed \in [Writers -> SUBSET Items]
    BY DEF Inv, Numbered
  <2>2. ASSUME NEW new, rows' = [rows EXCEPT ![w] = @ \cup new],
               new \subseteq Elements(left), failed' = failed,
               \A e \in Elements(left) \ Elements(f.left) :
                   HasRow(Key[w][e]) \/ \E i \in new : Key[w][i] = Key[w][e]
        PROVE  /\ rows' \in [Writers -> SUBSET Items] /\ failed' \in [Writers -> SUBSET Items]
               /\ Resolved(w)
    <3>1. /\ rows'[w] = rows[w] \cup new /\ \A v \in Writers \ {w} : rows'[v] = rows[v]
          /\ rows' \in [Writers -> SUBSET Items]
      BY <1>2, <2>1, <2>2
    <3>2. ASSUME NEW e \in WaitingOf[w] \ WaitingOf'[w] PROVE Keyed(Key[w][e])
      <4>1. HasRow(Key[w][e]) \/ \E i \in new : Key[w][i] = Key[w][e]
        BY <1>7, <2>2
      <4>2. CASE HasRow(Key[w][e])
        <5>1. \A v \in Writers : rows[v] \subseteq rows'[v]
          BY <3>1
        <5>2. QED
          BY <4>2, <5>1 DEF HasRow, Keyed
      <4>3. CASE \E i \in new : Key[w][i] = Key[w][e]
        BY <3>1, <4>3 DEF Keyed
      <4>4. QED
        BY <4>1, <4>2, <4>3
    <3>3. QED
      BY <1>2, <1>7, <2>1, <2>2, <3>1, <3>2 DEF Resolved
  <2>3. CASE BatchInsert(w)
    <3>1. rows' = [rows EXCEPT ![w] = @ \cup NewRows(w, left)] /\ failed' = failed
      BY <2>3 DEF BatchInsert
    <3>2. QED
      BY <1>1, <2>2, <3>1, NewRowsCover
  <2>4. CASE BatchFails(w)
    <3>1. failed' = failed /\ f.left = left
      <4>1. flush[w].step = "batch" /\ failed' = failed
        BY <2>4 DEF BatchFails
      <4>2. ~BatchInsert(w) \/ f.left = left
        <5>1. flush'[w].left = left
          BY <1>1, <2>4 DEF BatchFails, Flush, Hands
        <5>2. QED
          BY <1>5, <5>1, <1>1 DEF Hands
      <4>3. QED
        BY <1>5, <4>1, <4>2 DEF SingleInsert, SingleFails
    <3>2. CASE rows' = [rows EXCEPT ![w] = @ \cup NewRows(w, left)]
      BY <1>1, <2>2, <3>1, <3>2, NewRowsCover
    <3>3. CASE rows' = rows
      <4>1. WaitingOf[w] \ WaitingOf'[w] = {}
        BY <1>7, <3>1
      <4>2. QED
        BY <1>7, <2>1, <3>1, <3>3, <4>1 DEF Resolved
    <3>4. QED
      BY <2>4, <3>2, <3>3 DEF BatchFails
  <2>6. CASE SingleInsert(w)
    <3>1. /\ rows' = [rows EXCEPT ![w] = @ \cup NewRows(w, <<Head(left)>>)] /\ failed' = failed
      BY <2>6 DEF SingleInsert
    <3>2. Elements(left) \ Elements(f.left) \subseteq {Head(left)}
      BY <1>2, <1>5, <2>6 DEF BatchInsert, BatchFails, SingleInsert
    <3>3. NewRows(w, <<Head(left)>>) = IF HasRow(Key[w][Head(left)]) THEN {} ELSE {Head(left)}
      BY <1>2, NewRowsOne
    <3>4. QED
      BY <1>2, <2>2, <3>1, <3>2, <3>3
  <2>5. CASE SingleFails(w)
    <3>1. failed' = [failed EXCEPT ![w] = @ \cup {Head(left)}] /\ rows' = rows
      BY <2>5 DEF SingleFails
    <3>2. Elements(left) \ Elements(f.left) \subseteq {Head(left)}
      BY <1>2, <1>5, <2>5 DEF BatchInsert, BatchFails, SingleFails
    <3>3. QED
      BY <1>2, <1>7, <2>1, <3>1, <3>2 DEF Resolved
  <2>7. QED
    BY <2>3, <2>4, <2>5, <2>6
<1>9. Ends'
  BY <1>3 DEF Inv, Ends
<1>10. Numbered'
  <2>1. \A v \in Writers : \A i \in WaitingOf'[v] \cup rows'[v] \cup failed'[v] \cup dropped'[v] :
            i \in WaitingOf[v] \cup rows[v] \cup failed[v] \cup dropped[v]
    BY <1>3, <1>8 DEF Resolved
  <2>2. QED
    BY <1>3, <1>8, <2>1 DEF Inv, Numbered
<1>11. QED
  BY <1>3, <1>7, <1>8, <1>9, <1>10 DEF Inv

\* The items stay numbered when one more is offered.
LEMMA OfferNumbered ==
    ASSUME Inv, NEW w \in Writers, offered' = [offered EXCEPT ![w] = offered[w] + 1],
           rows' = rows, failed' = failed, faults' = faults, dropped' \in [Writers -> SUBSET Items],
           \A v \in Writers : WaitingOf'[v] \cup dropped'[v] \subseteq
               WaitingOf[v] \cup dropped[v] \cup (IF v = w THEN {offered[w] + 1} ELSE {})
    PROVE  Numbered'
<1>1. WaitingOf \in [Writers -> SUBSET Items]
  BY WaitingTyped DEF Inv
<1>2. offered' \in [Writers -> Nat]
  BY DEF Inv, Numbered
<1>3. ASSUME NEW v \in Writers, NEW i \in WaitingOf'[v] \cup rows'[v] \cup failed'[v] \cup dropped'[v]
      PROVE  i <= offered'[v]
  <2>1. \/ i \in WaitingOf[v] \cup rows[v] \cup failed[v] \cup dropped[v]
        \/ v = w /\ i = offered[w] + 1
    BY <1>3
  <2>2. CASE v = w /\ i = offered[w] + 1
    BY <2>2 DEF Inv, Numbered
  <2>3. CASE i \in WaitingOf[v] \cup rows[v] \cup failed[v] \cup dropped[v]
    <3>1. i \in Nat /\ i <= offered[v] /\ offered[v] \in Nat
      BY <1>1, <2>3 DEF Inv, Numbered, Items
    <3>2. offered'[v] = offered[v] \/ offered'[v] = offered[v] + 1
      BY DEF Inv, Numbered
    <3>3. QED
      BY <3>1, <3>2
  <2>4. QED
    BY <2>1, <2>2, <2>3
<1>4. QED
  BY <1>2, <1>3 DEF Inv, Numbered

\* An item that is offered is the newest; it waits or is dropped.
LEMMA ProduceStep ==
    ASSUME Inv, NEW w \in Writers, Produce(w)
    PROVE  /\ Inv'
           /\ UNCHANGED <<rows, failed>>
           /\ offered[w] + 1 \in Items
           /\ \/ /\ WaitingOf' = [WaitingOf EXCEPT ![w] = @ \cup {offered[w] + 1}]
                 /\ dropped' = dropped
              \/ /\ dropped' = [dropped EXCEPT ![w] = @ \cup {offered[w] + 1}]
                 /\ WaitingOf' = WaitingOf
<1> DEFINE item == offered[w] + 1
<1>1. /\ item \in Items /\ offered' = [offered EXCEPT ![w] = item] /\ w \in producing
      /\ UNCHANGED <<batch, flush, mode, rows, failed, faults, producing, cancelled, pool>>
  BY DEF Produce, Inv, Numbered, Items, tables, process
<1>2. Hands /\ queue[w] \in Seq(Items) /\ WaitingOf \in [Writers -> SUBSET Items]
  BY WaitingTyped DEF Inv, Hands
<1>3. CASE queue' = [queue EXCEPT ![w] = Append(@, item)] /\ dropped' = dropped
  <2>1. /\ Append(queue[w], item) \in Seq(Items)
        /\ Elements(Append(queue[w], item)) = Elements(queue[w]) \cup {item}
    BY <1>1, <1>2, ElementsAppend
  <2>2. Hands'
    BY <1>1, <1>2, <1>3, <2>1 DEF Hands
  <2>3. \A v \in Writers :
            /\ WaitingOf[v] = Elements(queue[v]) \cup Elements(batch[v]) \cup Elements(flush[v].left)
            /\ WaitingOf'[v] = Elements(queue'[v]) \cup Elements(batch[v]) \cup Elements(flush[v].left)
    BY <1>1 DEF WaitingOf, Waiting
  <2>4. /\ queue'[w] = Append(queue[w], item)
        /\ \A v \in Writers \ {w} : queue'[v] = queue[v]
    BY <1>2, <1>3 DEF Hands
  <2>5. /\ WaitingOf'[w] = WaitingOf[w] \cup {item}
        /\ \A v \in Writers \ {w} : WaitingOf'[v] = WaitingOf[v]
    BY <2>1, <2>3, <2>4
  <2>6. WaitingOf' \in [Writers -> SUBSET Items]
    BY <2>2, <1>1, WaitingTyped, <2>5, <1>2 DEF WaitingOf
  <2>7. WaitingOf' = [WaitingOf EXCEPT ![w] = @ \cup {item}]
    BY <1>2, <2>5, <2>6
  <2>8. Ends'
    <3>1. w \notin EngineWriters \/ mode[w] = "running"
      BY <1>1 DEF Inv, Ends
    <3>2. QED
      BY <1>1, <2>4, <3>1 DEF Inv, Ends, Writers
  <2>9. Numbered'
    <3>1. dropped' \in [Writers -> SUBSET Items]
      BY <1>3 DEF Inv, Numbered
    <3>2. QED
      BY <1>1, <1>3, <2>5, <3>1, OfferNumbered
  <2>10. QED
    BY <1>1, <1>3, <2>2, <2>7, <2>8, <2>9 DEF Inv
<1>4. CASE queue' = queue /\ dropped' = [dropped EXCEPT ![w] = @ \cup {item}]
  <2>1. Hands' /\ WaitingOf' = WaitingOf
    BY <1>1, <1>4 DEF Inv, Hands, WaitingOf, Waiting
  <2>2. Ends'
    BY <1>1, <1>4 DEF Inv, Ends
  <2>3. Numbered'
    <3>1. /\ dropped' \in [Writers -> SUBSET Items]
          /\ dropped'[w] = dropped[w] \cup {item}
          /\ \A v \in Writers \ {w} : dropped'[v] = dropped[v]
      BY <1>1, <1>4 DEF Inv, Numbered
    <3>2. QED
      BY <1>1, <2>1, <3>1, OfferNumbered
  <2>4. QED
    BY <1>1, <1>4, <2>1, <2>2, <2>3 DEF Inv
<1>5. QED
  BY <1>3, <1>4 DEF Produce

\* The cancellation, the pool and the end of a producer.
LEMMA EndStep ==
    ASSUME Inv, Cancel \/ ClosePool \/ (\E w \in Writers : ProducerStops(w)) \/ UNCHANGED vars
    PROVE  Inv' /\ UNCHANGED <<WaitingOf, rows, failed, dropped>>
<1>1. /\ UNCHANGED <<offered, queue, batch, flush, mode, dropped, rows, failed, faults>>
      /\ producing' \subseteq producing
      /\ cancelled' \in BOOLEAN /\ pool' \in BOOLEAN
  BY DEF Cancel, ClosePool, ProducerStops, vars, data, tables, process, Inv, Ends
<1>2. Hands' /\ WaitingOf' = WaitingOf
  BY <1>1 DEF Inv, Hands, WaitingOf, Waiting
<1>3. Ends' /\ Numbered'
  BY <1>1, <1>2 DEF Inv, Ends, Numbered
<1>4. QED
  BY <1>1, <1>2, <1>3 DEF Inv

-----------------------------------------------------------------------------
(* Theorems *)

\* The writers start in the invariant, with nothing anywhere.
LEMMA InitInv ==
    ASSUME Init
    PROVE  /\ Inv /\ WaitingOf = [w \in Writers |-> {}]
           /\ rows = [w \in Writers |-> {}] /\ failed = rows /\ dropped = rows
<1>1. NoFlush \in FlushType /\ NoFlush.step = "none" /\ NoFlush.left = <<>>
  BY ElementsNone DEF NoFlush, Flush, FlushType
<1>2. Hands
  BY <1>1, ElementsNone DEF Init, Hands
<1>3. \A w \in Writers : Waiting(w) = {}
  BY <1>1, ElementsNone DEF Init, Waiting
<1>4. WaitingOf = [w \in Writers |-> {}]
  BY <1>3 DEF WaitingOf
<1>5. Ends
  BY WriterAssumption DEF Init, Ends, Writers
<1>6. 0 \in 0..MaxFaults
  BY WriterAssumption
<1>7. Numbered
  BY <1>4, <1>6 DEF Init, Numbered
<1>8. QED
  BY <1>2, <1>4, <1>5, <1>7 DEF Inv, Init

\* The invariant of the writers.
THEOREM WritersInvariant == Spec => []Inv
<1>1. Init => Inv
  BY InitInv
<1>2. Inv /\ [Next]_vars => Inv'
  BY ProduceStep, MoveStep, FlushStep, EndStep DEF Next, Write
<1>3. QED
  BY <1>1, <1>2, PTL DEF Spec

\* Every variable of the writers keeps its type.
THEOREM WritersTypeCorrect == Spec => []TypeOK
<1>1. Inv => TypeOK
  BY DEF Inv, Hands, Ends, Numbered, TypeOK, FlushType
<1>2. QED
  BY <1>1, WritersInvariant, PTL

\* For any number of engine writers: one that has returned leaves nothing in its
\* queue, and nothing can be added to it (Run stops the writers last, and
\* runBatchedDBWriter drains).
THEOREM WritersLeaveNothing == Spec => []NothingLeftBehind
<1>1. Inv => NothingLeftBehind
  <2> SUFFICES ASSUME Inv, NEW w \in EngineWriters, mode[w] = "done", flush[w].step = "none"
               PROVE  Waiting(w) = {} /\ w \notin producing
    BY DEF NothingLeftBehind
  <2>1. w \in Writers /\ queue[w] = <<>> /\ batch[w] = <<>> /\ flush[w].left = <<>>
    BY DEF Inv, Ends, Hands, Writers
  <2>2. QED
    BY <2>1, ElementsNone DEF Waiting, Inv, Ends
<1>2. QED
  BY <1>1, WritersInvariant, PTL

-----------------------------------------------------------------------------
(* The writers implement StoreOnce *)

\* AllOf(f) holds the items of f with their writers.
LEMMA InAllOf ==
    ASSUME NEW f, NEW p
    PROVE  p \in AllOf(f) <=> \E w \in Writers : \E i \in f[w] : p = <<w, i>>
  BY DEF AllOf

\* Sets of items and sets of items with their writers.
LEMMA AllOfMonotone ==
    ASSUME NEW f, NEW g, NEW h
    PROVE  /\ (\A w \in Writers : f[w] \subseteq g[w]) => AllOf(f) \subseteq AllOf(g)
           /\ (\A w \in Writers : f[w] \subseteq g[w] \cup h[w]) => AllOf(f) \subseteq AllOf(g) \cup AllOf(h)
<1>1. \A w \in Writers : \A i : i \in f[w] => <<w, i>> \in AllOf(f)
  BY DEF AllOf
<1>2. QED
  BY InAllOf

\* One item more.
LEMMA AllOfAdd ==
    ASSUME NEW f \in [Writers -> SUBSET Items], NEW w \in Writers, NEW n \in Items
    PROVE  AllOf([f EXCEPT ![w] = @ \cup {n}]) = AllOf(f) \cup {<<w, n>>}
<1> DEFINE g == [f EXCEPT ![w] = @ \cup {n}]
<1>1. g[w] = f[w] \cup {n} /\ \A v \in Writers \ {w} : g[v] = f[v]
  OBVIOUS
<1> HIDE DEF g
<1>2. ASSUME NEW p PROVE p \in AllOf(g) <=> p \in AllOf(f) \/ p = <<w, n>>
  <2>1. (\E v \in Writers : \E i \in g[v] : p = <<v, i>>)
            <=> (\E v \in Writers : \E i \in f[v] : p = <<v, i>>) \/ p = <<w, n>>
    BY <1>1
  <2>2. QED
    BY <2>1, InAllOf
<1>3. QED
  BY <1>2 DEF g

\* A flush resolves items of its writer.
LEMMA ResolveImplements ==
    ASSUME NEW w \in Writers, Resolved(w), dropped' = dropped,
           WaitingOf \in [Writers -> SUBSET Items], rows' \in [Writers -> SUBSET Items]
    PROVE  Store!Resolve
<1>1. \A v \in Writers :
          /\ rows[v] \subseteq rows'[v] /\ rows'[v] \subseteq rows[v] \cup WaitingOf[v]
          /\ failed[v] \subseteq failed'[v] /\ failed'[v] \subseteq failed[v] \cup WaitingOf[v]
          /\ WaitingOf'[v] \subseteq WaitingOf[v]
          /\ \A i \in WaitingOf[v] \ WaitingOf'[v] : i \in failed'[v] \/ Keyed(Key[v][i])
  BY DEF Resolved
<1>2. /\ AllOf(rows) \subseteq AllOf(rows') /\ AllOf(rows') \subseteq AllOf(rows) \cup AllOf(WaitingOf)
      /\ AllOf(failed) \subseteq AllOf(failed')
      /\ AllOf(failed') \subseteq AllOf(failed) \cup AllOf(WaitingOf)
      /\ AllOf(WaitingOf') \subseteq AllOf(WaitingOf)
  BY <1>1, AllOfMonotone
<1>3. ASSUME NEW p, p \in AllOf(WaitingOf), p \notin AllOf(WaitingOf')
      PROVE  p \in AllOf(failed') \/ \E q \in AllOf(rows') : KeyAt[q] = KeyAt[p]
  <2>1. PICK v \in Writers : \E i \in WaitingOf[v] : p = <<v, i>>
    BY <1>3, InAllOf
  <2>2. PICK i \in WaitingOf[v] : p = <<v, i>>
    BY <2>1
  <2>3. i \notin WaitingOf'[v]
    BY <1>3, <2>2, InAllOf
  <2>4. i \in failed'[v] \/ Keyed(Key[v][i])
    BY <1>1, <2>2, <2>3
  <2>5. CASE i \in failed'[v]
    BY <2>2, <2>5, InAllOf
  <2>6. CASE Keyed(Key[v][i])
    <3>1. PICK u \in Writers : \E j \in rows'[u] : Key[u][j] = Key[v][i]
      BY <2>6 DEF Keyed
    <3>2. PICK j \in rows'[u] : Key[u][j] = Key[v][i]
      BY <3>1
    <3>3. <<u, j>> \in AllOf(rows') /\ j \in Items /\ i \in Items
      BY <2>2, <3>2, InAllOf
    <3>4. KeyAt[<<u, j>>] = Key[u][j] /\ KeyAt[<<v, i>>] = Key[v][i]
      BY <3>3 DEF KeyAt
    <3>5. QED
      BY <2>2, <3>2, <3>3, <3>4
  <2>7. QED
    BY <2>4, <2>5, <2>6
<1>4. \A p \in AllOf(WaitingOf) \ AllOf(WaitingOf') :
          p \in AllOf(failed') \/ \E q \in AllOf(rows') : KeyAt[q] = KeyAt[p]
  BY <1>3
<1>5. QED
  BY <1>2, <1>4 DEF Store!Resolve, WaitingOf, AllOf

\* A producer offers the item that is new.
LEMMA OfferImplements ==
    ASSUME Inv, NEW w \in Writers, Produce(w)
    PROVE  Store!StoreNext
<1> DEFINE n == offered[w] + 1
<1>1. /\ n \in Items /\ rows' = rows /\ failed' = failed
      /\ \/ WaitingOf' = [WaitingOf EXCEPT ![w] = @ \cup {n}] /\ dropped' = dropped
         \/ dropped' = [dropped EXCEPT ![w] = @ \cup {n}] /\ WaitingOf' = WaitingOf
  BY ProduceStep
<1>2. WaitingOf \in [Writers -> SUBSET Items] /\ dropped \in [Writers -> SUBSET Items]
  BY WaitingTyped DEF Inv, Numbered
<1>3. n \notin WaitingOf[w] \cup rows[w] \cup failed[w] \cup dropped[w]
  BY DEF Inv, Numbered
<1>4. <<w, n>> \notin AllOf(WaitingOf) \cup AllOf(rows) \cup AllOf(failed) \cup AllOf(dropped)
  <2>1. ASSUME NEW f, <<w, n>> \in AllOf(f) PROVE n \in f[w]
    <3>1. PICK v \in Writers : \E i \in f[v] : <<w, n>> = <<v, i>>
      BY <2>1, InAllOf
    <3>2. QED
      BY <3>1
  <2>2. QED
    BY <2>1, <1>3
<1>5. CASE WaitingOf' = [WaitingOf EXCEPT ![w] = @ \cup {n}] /\ dropped' = dropped
  <2>1. AllOf([WaitingOf EXCEPT ![w] = @ \cup {n}]) = AllOf(WaitingOf) \cup {<<w, n>>}
    <3> HIDE DEF n
    <3>1. n \in Items /\ w \in Writers
      BY <1>1
    <3>2. \A f \in [Writers -> SUBSET Items] :
             AllOf([f EXCEPT ![w] = @ \cup {n}]) = AllOf(f) \cup {<<w, n>>}
      BY <3>1, AllOfAdd
    <3>3. QED
      BY <1>2, <3>2
  <2>2. AllOf(WaitingOf') = AllOf(WaitingOf) \cup {<<w, n>>} /\ AllOf(dropped') = AllOf(dropped)
    BY <1>5, <2>1
  <2>3. AllOf(rows') = AllOf(rows) /\ AllOf(failed') = AllOf(failed)
    BY <1>1
  <2>4. <<w, n>> \in Writers \X Items
    BY <1>1
  <2> HIDE DEF n
  <2>5. QED
    BY <1>4, <2>2, <2>3, <2>4 DEF Store!StoreNext, Store!Offer, WaitingOf, AllOf
<1>6. CASE dropped' = [dropped EXCEPT ![w] = @ \cup {n}] /\ WaitingOf' = WaitingOf
  <2>1. AllOf([dropped EXCEPT ![w] = @ \cup {n}]) = AllOf(dropped) \cup {<<w, n>>}
    BY <1>1, <1>2, AllOfAdd
  <2>2. AllOf(dropped') = AllOf(dropped) \cup {<<w, n>>} /\ AllOf(WaitingOf') = AllOf(WaitingOf)
    BY <1>6, <2>1
  <2>3. AllOf(rows') = AllOf(rows) /\ AllOf(failed') = AllOf(failed)
    BY <1>1
  <2>4. <<w, n>> \in Writers \X Items
    BY <1>1
  <2> HIDE DEF n
  <2>5. QED
    BY <1>4, <2>2, <2>3, <2>4 DEF Store!StoreNext, Store!Offer, WaitingOf, AllOf
<1>7. QED
  BY <1>1, <1>5, <1>6

\* For any number of engine writers, any batches and any errors of the database,
\* what a writer accepted waits, was reported or there is a row with its key, and
\* what is stored stays (runBatchedDBWriter, Writer.flush, ON CONFLICT DO NOTHING):
\* the writers implement StoreOnce.
THEOREM WritersImplementStore == Spec => StoresOnce
<1>1. Init => Store!StoreInit
  <2> SUFFICES ASSUME Init PROVE Store!StoreInit
    OBVIOUS
  <2>1. ASSUME NEW f, f = [w \in Writers |-> {}] PROVE AllOf(f) = {}
    BY <2>1, InAllOf
  <2>2. AllOf(WaitingOf) = {} /\ AllOf(rows) = {} /\ AllOf(failed) = {} /\ AllOf(dropped) = {}
    BY <2>1, InitInv
  <2>3. QED
    BY <2>2 DEF Store!StoreInit, WaitingOf, AllOf
<1>2. Inv /\ [Next]_vars => [Store!StoreNext]_(Store!storeVars)
  <2> SUFFICES ASSUME Inv, [Next]_vars PROVE [Store!StoreNext]_(Store!storeVars)
    OBVIOUS
  <2>1. ASSUME UNCHANGED <<WaitingOf, rows, failed, dropped>> PROVE UNCHANGED Store!storeVars
    BY <2>1 DEF Store!storeVars, WaitingOf, AllOf
  <2>2. ASSUME NEW w \in Writers, Produce(w) PROVE Store!StoreNext
    BY <2>2, OfferImplements
  <2>3. ASSUME NEW w \in Writers, Write(w) PROVE [Store!StoreNext]_(Store!storeVars)
    <3>1. CASE BatchInsert(w) \/ BatchFails(w) \/ SingleInsert(w) \/ SingleFails(w)
      <4>1. WaitingOf \in [Writers -> SUBSET Items] /\ rows' \in [Writers -> SUBSET Items]
        BY <3>1, FlushStep, WaitingTyped DEF Inv, Numbered
      <4>2. QED
        BY <3>1, <4>1, FlushStep, ResolveImplements DEF Store!StoreNext
    <3>2. CASE Take(w) \/ FlushTimer(w) \/ LastFlush(w) \/ StartDrain(w) \/ Drain(w)
      BY <2>1, <3>2, MoveStep
    <3>3. QED
      BY <2>3, <3>1, <3>2 DEF Write
  <2>4. ASSUME Cancel \/ ClosePool \/ (\E w \in Writers : ProducerStops(w)) \/ UNCHANGED vars
        PROVE  UNCHANGED Store!storeVars
    BY <2>1, <2>4, EndStep
  <2>5. QED
    BY <2>2, <2>3, <2>4 DEF Next
<1>3. QED
  BY <1>1, <1>2, WritersInvariant, PTL DEF Spec, StoresOnce, Store!StoreSpec
=============================================================================
