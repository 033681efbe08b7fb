-------------------------- MODULE Pipeline_proofs --------------------------
(***************************************************************************)
(* The dedup shard is a window of the last ids. The pipeline keeps its      *)
(* types, gives each consumer a lossy FIFO without repetitions inside the  *)
(* window, and counts its drops, for every number of sources, messages     *)
(* and channel slots.                                                      *)
(***************************************************************************)
EXTENDS Pipeline, Dedup, SequenceTheorems, FiniteSetTheorems, TLAPS

-----------------------------------------------------------------------------
(* The dedup shard *)

\* The head goes round the ring.
LEMMA NextSlotWraps ==
    ASSUME NEW i \in Slots
    PROVE  NextSlot(i) = IF i + 1 < MaxEntries THEN i + 1 ELSE 0
BY DedupAssumption DEF NextSlot, Slots

\* The ring is filled from slot 0 up, and once it is full stays so.
FilledInOrder(sh) ==
    IF Full(sh) THEN \A i \in Slots : sh.order[i] # NoKey
                ELSE \A i \in Slots : sh.order[i] # NoKey <=> i < sh.head

Ring(sh) == sh \in Shard /\ IsFiniteSet(sh.seen) /\ RingMatches(sh) /\ FilledInOrder(sh)

\* An empty shard is one.
LEMMA RingNew == Ring(NewShard)
<1> DEFINE sh == NewShard
<1>1. /\ sh.seen = {} /\ sh.head = 0 /\ 0 \in Slots
      /\ \A i \in Slots : sh.order[i] = NoKey
  BY DedupAssumption DEF NewShard, Slots
<1>2. sh \in Shard
  BY <1>1 DEF NewShard, Shard
<1>3. IsFiniteSet(sh.seen) /\ RingMatches(sh)
  BY <1>1, FS_EmptySet DEF RingMatches, Full
<1>4. FilledInOrder(sh)
  BY <1>1 DEF FilledInOrder, Full, Slots
<1> QED BY <1>2, <1>3, <1>4 DEF Ring

\* What a new key does to each field of the shard.
LEMMA RememberFields ==
    ASSUME NEW sh, Ring(sh), NEW key \in Keys, key \notin sh.seen
    PROVE  /\ Remember(sh, key).order = [sh.order EXCEPT ![sh.head] = key]
           /\ Remember(sh, key).head = IF sh.head + 1 < MaxEntries THEN sh.head + 1 ELSE 0
           /\ Remember(sh, key).seen =
                 (IF Full(sh) THEN sh.seen \ {sh.order[sh.head]} ELSE sh.seen) \cup {key}
<1>1. sh.head \in Slots /\ sh.head < MaxEntries /\ MaxEntries \in Nat
  BY DedupAssumption DEF Ring, Shard, Slots
<1>2. Evict(sh) = IF Full(sh) THEN sh.seen \ {sh.order[sh.head]} ELSE sh.seen
  BY <1>1 DEF Evict, Ring, RingMatches, Slots
<1> QED BY <1>1, <1>2, NextSlotWraps DEF Remember

\* The sh stays one, and is full for good once the head has gone round.
LEMMA RingStep ==
    ASSUME NEW sh, Ring(sh), NEW key \in Keys, key \notin sh.seen
    PROVE  /\ Ring(Remember(sh, key))
           /\ Full(Remember(sh, key)) <=> (Full(sh) \/ sh.head + 1 = MaxEntries)
<1> DEFINE order == sh.order
           head == sh.head
           new == Remember(sh, key)
<1>1. /\ key \notin sh.seen
      /\ new.order = [order EXCEPT ![head] = key]
      /\ new.head = IF head + 1 < MaxEntries THEN head + 1 ELSE 0
      /\ new.seen = (IF Full(sh) THEN sh.seen \ {order[head]} ELSE sh.seen) \cup {key}
  BY RememberFields
<1>2. /\ sh \in Shard /\ order \in [Slots -> Keys \cup {NoKey}]
      /\ head \in 0..(MaxEntries - 1) /\ Slots = 0..(MaxEntries - 1)
      /\ MaxEntries \in Nat \ {0} /\ NoKey \notin Keys
  BY DedupAssumption DEF Ring, Shard, Slots
<1>3. new = [seen |-> new.seen, order |-> new.order, head |-> new.head]
  BY DEF Remember
<1>4. /\ new.order \in [Slots -> Keys \cup {NoKey}]
      /\ \A i \in Slots : new.order[i] = IF i = head THEN key ELSE order[i]
  BY <1>1, <1>2
<1>5. sh.seen = {order[i] : i \in Slots} \ {NoKey}
  BY DEF Ring, RingMatches
<1>6. new \in Shard
  <2>1. new.seen \in SUBSET Keys /\ new.head \in Slots
    BY <1>1, <1>2 DEF Shard
  <2>2. new \in Shard
    BY <1>3, <1>4, <2>1 DEF Shard
  <2> QED BY <2>2
<1>7. /\ IsFiniteSet(new.seen)
      /\ Cardinality(new.seen) = IF Full(sh) THEN MaxEntries ELSE head + 1
  <2> DEFINE kept == IF Full(sh) THEN sh.seen \ {order[head]} ELSE sh.seen
  <2>1. /\ IsFiniteSet(sh.seen)
        /\ Cardinality(sh.seen) = IF Full(sh) THEN MaxEntries ELSE head
    BY DEF Ring, RingMatches
  <2>2. /\ IsFiniteSet(kept)
        /\ Cardinality(kept) = IF Full(sh) THEN MaxEntries - 1 ELSE head
    <3>1. CASE Full(sh)
      <4>1. order[head] \in sh.seen
        BY <1>2, <1>5, <3>1 DEF Full
      <4> QED BY <2>1, <3>1, <4>1, FS_RemoveElement
    <3>2. CASE ~Full(sh)
      BY <2>1, <3>2
    <3> QED BY <3>1, <3>2
  <2>3. key \notin kept /\ new.seen = kept \cup {key}
    BY <1>1
  <2> HIDE DEF kept
  <2>4. IsFiniteSet(new.seen) /\ Cardinality(new.seen) = Cardinality(kept) + 1
    BY <2>2, <2>3, FS_AddElement
  <2> QED BY <1>2, <2>2, <2>4
<1>8. FilledInOrder(new) /\ (Full(new) <=> (Full(sh) \/ head + 1 = MaxEntries))
  <2>1. \A i \in Slots : i # head => (new.order[i] # NoKey <=> order[i] # NoKey)
    BY <1>4
  <2>2. new.order[head] # NoKey
    BY <1>2, <1>4
  <2>3. CASE Full(sh)
    <3>1. \A i \in Slots : new.order[i] # NoKey
      BY <2>1, <2>2, <2>3 DEF Ring, FilledInOrder
    <3>2. new.head \in Slots
      BY <1>1, <1>2
    <3> QED BY <2>3, <3>1, <3>2 DEF FilledInOrder, Full
  <2>4. CASE ~Full(sh)
    <3>1. \A i \in Slots : new.order[i] # NoKey <=> i < head + 1
      BY <1>2, <2>1, <2>2, <2>4 DEF Ring, FilledInOrder
    <3>2. CASE head + 1 < MaxEntries
      BY <1>1, <1>2, <2>4, <3>1, <3>2 DEF FilledInOrder, Full
    <3>3. CASE head + 1 = MaxEntries
      BY <1>1, <1>2, <2>4, <3>1, <3>3 DEF FilledInOrder, Full
    <3> QED BY <1>2, <3>2, <3>3
  <2> QED BY <2>3, <2>4
<1>9. RingMatches(new)
  <2>1. \A i, j \in Slots : order[i] = order[j] /\ order[i] # NoKey => i = j
    BY DEF Ring, RingMatches
  <2>2. \A i \in Slots : order[i] # key
    BY <1>1, <1>2, <1>5
  <2>3. \A i, j \in Slots :
           new.order[i] = new.order[j] /\ new.order[i] # NoKey => i = j
    BY <1>4, <2>1, <2>2
  <2>4. new.seen = {new.order[i] : i \in Slots} \ {NoKey}
    <3>1. CASE Full(sh)
      <4>1. \A i \in Slots : order[i] # NoKey
        BY <3>1 DEF Ring, FilledInOrder
      <4>2. new.seen = ({order[i] : i \in Slots} \ {order[head]}) \cup {key}
        BY <1>1, <1>5, <3>1, <4>1
      <4>3. {order[i] : i \in Slots} \ {order[head]} = {order[i] : i \in Slots \ {head}}
        BY <1>2, <2>1, <4>1
      <4>4. {new.order[i] : i \in Slots} \ {NoKey} = {order[i] : i \in Slots \ {head}} \cup {key}
        BY <1>2, <1>4, <4>1
      <4> QED BY <4>2, <4>3, <4>4
    <3>2. CASE ~Full(sh)
      <4>1. order[head] = NoKey
        BY <3>2 DEF Full
      <4>2. new.seen = sh.seen \cup {key}
        BY <1>1, <3>2
      <4> QED BY <1>2, <1>4, <1>5, <4>1, <4>2
    <3> QED BY <3>1, <3>2
  <2>5. Cardinality(new.seen) = IF Full(new) THEN MaxEntries ELSE new.head
    BY <1>1, <1>2, <1>7, <1>8
  <2> QED BY <2>3, <2>4, <2>5 DEF RingMatches
<1> QED BY <1>6, <1>7, <1>8, <1>9 DEF Ring

RingInv == DedupTypeOK /\ Ring(shard)

LEMMA RingInit == DedupInit => RingInv
  BY RingNew DEF DedupInit, RingInv, DedupTypeOK, Ring

LEMMA RingInvariant == DedupSpec => []RingInv
<1>1. RingInv /\ [DedupNext]_dedupVars => RingInv'
  <2> SUFFICES ASSUME RingInv, [DedupNext]_dedupVars PROVE RingInv'
    OBVIOUS
  <2>1. ASSUME NEW key \in Keys, Hit(key) PROVE RingInv'
    <3>1. shard' = shard /\ verdict' \in [key : Keys \cup {NoKey}, duplicate : BOOLEAN]
      BY <2>1 DEF Hit
    <3> QED BY <3>1 DEF RingInv, DedupTypeOK
  <2>2. ASSUME NEW key \in Keys, Miss(key) PROVE RingInv'
    <3>1. Ring(shard')
      BY <2>2, RingStep DEF Miss, IsDuplicate, RingInv
    <3>2. verdict' \in [key : Keys \cup {NoKey}, duplicate : BOOLEAN]
      BY <2>2 DEF Miss
    <3> QED BY <3>1, <3>2 DEF RingInv, DedupTypeOK, Ring
  <2>3. CASE UNCHANGED dedupVars
    BY <2>3 DEF dedupVars, RingInv, DedupTypeOK
  <2> QED BY <2>1, <2>2, <2>3 DEF DedupNext
<1> QED BY <1>1, RingInit, PTL DEF DedupSpec

\* The head stays in the ring.
THEOREM DedupTypeCorrect == DedupSpec => []DedupTypeOK
<1>1. RingInv => DedupTypeOK
  BY DEF RingInv
<1> QED BY <1>1, RingInvariant, PTL

\* Set and ring agree and are bounded: no key is refused for good.
THEOREM SetCorrect == DedupSpec => []SetMatchesRing
<1>1. RingInv => SetMatchesRing
  BY DEF RingInv, Ring, SetMatchesRing
<1> QED BY <1>1, RingInvariant, PTL

-----------------------------------------------------------------------------
(***************************************************************************)
(* The refinement: the ring read from its oldest entry is the window.      *)
(***************************************************************************)
LEMMA RememberedType ==
    ASSUME NEW sh \in Shard, FilledInOrder(sh)
    PROVE  /\ Remembered(sh) \in Seq(Keys)
           /\ Len(Remembered(sh)) = IF Full(sh) THEN MaxEntries ELSE sh.head
           /\ \A i \in 1..Len(Remembered(sh)) :
                 Remembered(sh)[i] = sh.order[IF Full(sh) THEN Oldest(sh, i) ELSE i - 1]
<1>1. /\ sh.head \in 0..(MaxEntries - 1) /\ MaxEntries \in Nat \ {0}
      /\ sh.order \in [0..(MaxEntries - 1) -> Keys \cup {NoKey}]
  BY DedupAssumption DEF Shard, Slots
<1>2. CASE Full(sh)
  <2>1. \A i \in 1..MaxEntries : Oldest(sh, i) \in 0..(MaxEntries - 1)
    BY <1>1 DEF Oldest
  <2>2. \A i \in 0..(MaxEntries - 1) : sh.order[i] \in Keys
    BY <1>1, <1>2 DEF FilledInOrder, Slots
  <2>3. Remembered(sh) = [i \in 1..MaxEntries |-> sh.order[Oldest(sh, i)]]
    BY <1>2 DEF Remembered
  <2> QED BY <1>1, <1>2, <2>1, <2>2, <2>3
<1>3. CASE ~Full(sh)
  <2>1. \A i \in 1..sh.head : i - 1 \in 0..(MaxEntries - 1) /\ sh.order[i - 1] \in Keys
    BY <1>1, <1>3 DEF FilledInOrder, Slots
  <2>2. Remembered(sh) = [i \in 1..sh.head |-> sh.order[i - 1]]
    BY <1>3 DEF Remembered
  <2> QED BY <1>1, <1>3, <2>1, <2>2
<1> QED BY <1>2, <1>3

\* The keys of the window are those of the set.
LEMMA RememberedIsSeen ==
    ASSUME RingInv, NEW key \in Keys
    PROVE  key \in shard.seen <=> Window!InWindow(key)
<1> DEFINE n == IF Full(shard) THEN MaxEntries ELSE shard.head
           slot(i) == IF Full(shard) THEN Oldest(shard, i) ELSE i - 1
<1>1. /\ shard.head \in 0..(MaxEntries - 1) /\ MaxEntries \in Nat \ {0}
      /\ Slots = 0..(MaxEntries - 1) /\ NoKey \notin Keys
  BY DedupAssumption DEF RingInv, Ring, Shard, Slots
<1>2. key \in shard.seen <=> \E j \in Slots : shard.order[j] = key
  BY <1>1 DEF RingInv, Ring, RingMatches
<1>3. Window!InWindow(key) <=> \E i \in 1..n : shard.order[slot(i)] = key
  <2>1. /\ Len(Remembered(shard)) = n
        /\ \A i \in 1..n : Remembered(shard)[i] = shard.order[slot(i)]
    BY RememberedType DEF RingInv, Ring
  <2> QED BY <2>1 DEF Window!InWindow
<1>4. \A i \in 1..n : slot(i) \in Slots
  BY <1>1 DEF Oldest
<1>5. \A j \in Slots : shard.order[j] = key => \E i \in 1..n : slot(i) = j
  <2> SUFFICES ASSUME NEW j \in Slots, shard.order[j] = key
               PROVE  \E i \in 1..n : slot(i) = j
    OBVIOUS
  <2>1. CASE Full(shard) /\ j >= shard.head
    <3>1. j - shard.head + 1 \in 1..n /\ slot(j - shard.head + 1) = j
      BY <1>1, <2>1 DEF Oldest
    <3> QED BY <3>1
  <2>2. CASE Full(shard) /\ j < shard.head
    <3>1. /\ j - shard.head + 1 + MaxEntries \in 1..n
          /\ slot(j - shard.head + 1 + MaxEntries) = j
      BY <1>1, <2>2 DEF Oldest
    <3> QED BY <3>1
  <2>3. CASE ~Full(shard)
    <3>1. j < shard.head
      BY <1>1, <2>3 DEF RingInv, Ring, FilledInOrder
    <3>2. j + 1 \in 1..n /\ slot(j + 1) = j
      BY <1>1, <2>3, <3>1
    <3> QED BY <3>2
  <2> QED BY <1>1, <2>1, <2>2, <2>3
<1> HIDE DEF n, slot
<1> QED BY <1>2, <1>3, <1>4, <1>5

LEMMA MissImplements ==
    ASSUME RingInv, NEW key \in Keys, Miss(key)
    PROVE  Window!Accept(key)
<1> DEFINE old == Remembered(shard)
           new == Remembered(shard')
           n == Len(old)
           m == Len(new)
           room == Window!Room
<1>1. /\ key \notin shard.seen
      /\ shard'.order = [shard.order EXCEPT ![shard.head] = key]
      /\ shard'.head = IF shard.head + 1 < MaxEntries THEN shard.head + 1 ELSE 0
      /\ verdict' = [key |-> key, duplicate |-> FALSE]
  BY RememberFields DEF Miss, IsDuplicate, RingInv
<1>2. /\ shard.head \in 0..(MaxEntries - 1) /\ MaxEntries \in Nat \ {0}
      /\ Slots = 0..(MaxEntries - 1) /\ NoKey \notin Keys
      /\ shard.order \in [Slots -> Keys \cup {NoKey}]
  BY DedupAssumption DEF RingInv, Ring, Shard, Slots
<1>3. shard' \in Shard /\ FilledInOrder(shard')
  BY RingStep DEF Miss, IsDuplicate, RingInv, Ring
<1>4. /\ old \in Seq(Keys) /\ n = IF Full(shard) THEN MaxEntries ELSE shard.head
      /\ \A i \in 1..n : old[i] = shard.order[IF Full(shard) THEN Oldest(shard, i) ELSE i - 1]
  BY RememberedType DEF RingInv, Ring
<1>5. /\ new \in Seq(Keys) /\ m = IF Full(shard') THEN MaxEntries ELSE shard'.head
      /\ \A i \in 1..m : new[i] = shard'.order[IF Full(shard') THEN Oldest(shard', i) ELSE i - 1]
  BY <1>3, RememberedType
<1>6. /\ \A i \in Slots : shard'.order[i] = IF i = shard.head THEN key ELSE shard.order[i]
      /\ Full(shard') <=> (Full(shard) \/ shard.head + 1 = MaxEntries)
  <2>1. shard'.order[shard.head] = key /\ \A i \in Slots : i # shard.head => shard'.order[i] = shard.order[i]
    BY <1>1, <1>2
  <2>2. CASE Full(shard)
    BY <1>1, <1>2, <2>1, <2>2 DEF Full, RingInv, Ring, FilledInOrder
  <2>3. CASE ~Full(shard)
    BY <1>1, <1>2, <2>1, <2>3 DEF Full, RingInv, Ring, FilledInOrder
  <2> QED BY <2>2, <2>3
<1>7. new = Append(room, key)
  <2>1. CASE Full(shard)
    <3>1. room = Tail(old) /\ n = MaxEntries /\ m = MaxEntries
      BY <1>4, <1>5, <1>6, <2>1 DEF Window!Room
    <3> HIDE DEF room
    <3>2. room \in Seq(Keys) /\ Len(room) = MaxEntries - 1
      BY <1>2, <1>4, <3>1
    <3>3. \A i \in 1..(MaxEntries - 1) : room[i] = shard.order[Oldest(shard, i + 1)]
      <4> SUFFICES ASSUME NEW i \in 1..(MaxEntries - 1)
                   PROVE  room[i] = shard.order[Oldest(shard, i + 1)]
        OBVIOUS
      <4>1. i + 1 \in 1..n /\ room[i] = old[i + 1]
        BY <1>2, <1>4, <3>1
      <4> QED BY <1>4, <2>1, <4>1
    <3>4. shard'.head = IF shard.head + 1 < MaxEntries THEN shard.head + 1 ELSE 0
      BY <1>1
    <3>5. \A i \in 1..(MaxEntries - 1) :
             /\ Oldest(shard', i) = Oldest(shard, i + 1)
             /\ Oldest(shard, i + 1) # shard.head /\ Oldest(shard, i + 1) \in Slots
      <4> SUFFICES ASSUME NEW i \in 1..(MaxEntries - 1)
                   PROVE  /\ Oldest(shard', i) = Oldest(shard, i + 1)
                          /\ Oldest(shard, i + 1) # shard.head
                          /\ Oldest(shard, i + 1) \in Slots
        OBVIOUS
      <4>1. CASE shard.head + 1 < MaxEntries
        BY <1>2, <3>4, <4>1 DEF Oldest
      <4>2. CASE shard.head + 1 = MaxEntries
        BY <1>2, <3>4, <4>2 DEF Oldest
      <4> QED BY <1>2, <4>1, <4>2
    <3>6. Oldest(shard', MaxEntries) = shard.head
      BY <1>2, <3>4 DEF Oldest
    <3>7. \A i \in 1..MaxEntries : new[i] = shard'.order[Oldest(shard', i)]
      BY <1>5, <1>6, <2>1, <3>1
    <3>8. \A i \in 1..(MaxEntries - 1) : new[i] = room[i]
      <4> SUFFICES ASSUME NEW i \in 1..(MaxEntries - 1) PROVE new[i] = room[i]
        OBVIOUS
      <4>1. i \in 1..MaxEntries
        BY <1>2
      <4>2. new[i] = shard'.order[Oldest(shard, i + 1)]
        BY <3>5, <3>7, <4>1
      <4> QED BY <1>6, <3>3, <3>5, <4>2
    <3>9. new[MaxEntries] = key
      BY <1>2, <1>6, <3>6, <3>7
    <3> HIDE DEF new
    <3> QED BY <1>2, <1>5, <3>1, <3>2, <3>8, <3>9
  <2>2. CASE ~Full(shard)
    <3>1. room = old /\ n = shard.head /\ m = shard.head + 1
      BY <1>1, <1>2, <1>4, <1>5, <1>6, <2>2 DEF Window!Room
    <3>2. \A i \in 1..m : new[i] = shard'.order[i - 1]
      <4>1. CASE Full(shard')
        BY <1>1, <1>2, <1>5, <1>6, <2>2, <3>1, <4>1 DEF Oldest
      <4>2. CASE ~Full(shard')
        BY <1>5, <4>2
      <4> QED BY <4>1, <4>2
    <3>3. \A i \in 1..n : new[i] = old[i]
      <4> SUFFICES ASSUME NEW i \in 1..n PROVE new[i] = old[i]
        OBVIOUS
      <4>1. i \in 1..m /\ i - 1 \in Slots /\ i - 1 # shard.head
        BY <1>2, <3>1
      <4>2. new[i] = shard.order[i - 1]
        BY <1>6, <3>2, <4>1
      <4> QED BY <1>4, <2>2, <4>2
    <3>4. new[n + 1] = key
      <4>1. n + 1 \in 1..m /\ (n + 1) - 1 = shard.head /\ shard.head \in Slots
        BY <1>2, <3>1
      <4> QED BY <1>6, <3>2, <4>1
    <3> HIDE DEF new, old, room
    <3> QED BY <1>2, <1>4, <1>5, <3>1, <3>3, <3>4
  <2> QED BY <2>1, <2>2
<1>8. ~Window!InWindow(key)
  BY <1>1, RememberedIsSeen
<1> QED BY <1>1, <1>7, <1>8 DEF Window!Accept

\* A key is refused exactly when it is one of the last MaxEntries keys that
\* were let through.
THEOREM DedupImplementsWindow == DedupSpec => WindowSpec
<1>1. DedupInit => Window!Init
  <2> SUFFICES ASSUME DedupInit PROVE Window!Init
    OBVIOUS
  <2>1. RingInv /\ ~Full(shard) /\ shard.head = 0
    BY RingInit, DedupAssumption DEF DedupInit, NewShard, Full, Slots
  <2>2. Remembered(shard) \in Seq(Keys) /\ Len(Remembered(shard)) = 0
    BY <2>1, RememberedType DEF RingInv, Ring
  <2> QED BY <2>2 DEF DedupInit, Window!Init
<1>2. RingInv /\ [DedupNext]_dedupVars => [Window!Next]_(Window!vars)
  <2> SUFFICES ASSUME RingInv, [DedupNext]_dedupVars PROVE [Window!Next]_(Window!vars)
    OBVIOUS
  <2>1. ASSUME NEW key \in Keys, Hit(key) PROVE Window!Refuse(key)
    <3>1. Remembered(shard)' = Remembered(shard)
      BY <2>1 DEF Hit
    <3> QED BY <2>1, <3>1, RememberedIsSeen DEF Hit, IsDuplicate, Window!Refuse
  <2>2. ASSUME NEW key \in Keys, Miss(key) PROVE Window!Accept(key)
    BY <2>2, MissImplements
  <2>3. CASE UNCHANGED dedupVars
    BY <2>3 DEF dedupVars, Window!vars
  <2> QED BY <2>1, <2>2, <2>3 DEF DedupNext, Window!Next
<1> QED BY <1>1, <1>2, RingInvariant, PTL DEF DedupSpec, WindowSpec, Window!Spec

-----------------------------------------------------------------------------
(* Sequences *)

\* Appending is joining with one element.
LEMMA AppendOne ==
    ASSUME NEW S, NEW s \in Seq(S), NEW e \in S
    PROVE  Append(s, e) = s \o <<e>> /\ <<e>> \in Seq(S)
  OBVIOUS

\* A sequence is its first element and the rest.
LEMMA HeadThenTail ==
    ASSUME NEW S, NEW s \in Seq(S), s # <<>>
    PROVE  s = <<Head(s)>> \o Tail(s)
<1>1. /\ Head(s) \in S /\ Tail(s) \in Seq(S) /\ Len(Tail(s)) = Len(s) - 1
      /\ \A i \in 1..Len(Tail(s)) : Tail(s)[i] = s[i + 1]
  BY HeadTailProperties
<1>2. <<Head(s)>> \in Seq(S) /\ Len(<<Head(s)>>) = 1 /\ <<Head(s)>>[1] = s[1]
  BY <1>1
<1>3. /\ <<Head(s)>> \o Tail(s) \in Seq(S)
      /\ Len(<<Head(s)>> \o Tail(s)) = Len(s)
      /\ \A i \in 1..Len(s) : (<<Head(s)>> \o Tail(s))[i] = s[i]
  <2>1. Len(s) \in Nat /\ Len(s) >= 1
    BY EmptySeq, LenProperties
  <2>2. QED
    BY <2>1, <1>1, <1>2, ConcatProperties
<1>4. QED
  BY <1>3, SeqEqual

\* A sequence that is not empty and not longer than one has length one.
LEMMA OneElement ==
    ASSUME NEW S, NEW s \in Seq(S), s # <<>>, Len(s) <= 1
    PROVE  Len(s) = 1
<1> DEFINE n == Len(s)
<1>1. n \in Nat /\ n # 0 /\ n <= 1
  BY EmptySeq, LenProperties
<1> HIDE DEF n
<1>2. n = 1
  BY <1>1
<1>3. QED
  BY <1>2 DEF n

\* d is c without one of its elements.
Loses(c, d) == \E i \in DOMAIN c : d = SubSeq(c, 1, i - 1) \o SubSeq(c, i + 1, Len(c))

\* Taking one element out of the middle: m is the sequence of that element.
LEMMA RemoveMiddle ==
    ASSUME NEW S, NEW a \in Seq(S), NEW b \in Seq(S), NEW m \in Seq(S), Len(m) = 1
    PROVE  Loses(a \o (m \o b), a \o b)
<1> DEFINE n == m \o b
<1> DEFINE c == a \o n
<1>0. c = a \o n
  OBVIOUS
<1> HIDE DEF c
<1>2. n \in Seq(S) /\ Len(n) = Len(b) + 1 /\ Tail(n) = b
  <2>1. n \in Seq(S) /\ Len(n) = 1 + Len(b) /\ Len(b) \in Nat
    <3>1. n \in Seq(S) /\ Len(n) = Len(m) + Len(b)
      BY ConcatProperties
    <3>2. Len(b) \in Nat
      BY LenProperties
    <3>3. QED
      BY <3>1, <3>2
  <2>2. \A i \in 1..Len(b) : n[i + 1] = b[i]
    <3>1. \A i \in 1..Len(m) + Len(b) : n[i] = IF i <= Len(m) THEN m[i] ELSE b[i - Len(m)]
      BY ConcatProperties
    <3>2. QED
      BY <2>1, <3>1
  <2>3. n # <<>>
    BY <2>1, EmptySeq
  <2>4. /\ Tail(n) \in Seq(S) /\ Len(Tail(n)) = Len(b)
        /\ \A i \in 1..Len(b) : Tail(n)[i] = b[i]
    BY <2>1, <2>2, <2>3, HeadTailProperties, LenProperties
  <2>5. QED
    BY <2>1, <2>4, SeqEqual, LenProperties
<1>3. c \in Seq(S) /\ Len(c) = Len(a) + Len(n) /\ DOMAIN c = 1..Len(c)
      /\ Len(a) \in Nat /\ Len(b) \in Nat
  BY <1>0, <1>2, ConcatProperties, LenProperties
<1> HIDE DEF n
<1>4. Len(a) + 1 \in DOMAIN c
  BY <1>2, <1>3
<1>5. SubSeq(c, 1, Len(a)) = a
  <2>1. CASE a = <<>>
    BY <2>1, SubSeqEmpty, EmptySeq
  <2>2. CASE a # <<>>
    <3>1. 1 \in 1..Len(a) /\ Len(a) \in 1..Len(a)
      BY <2>2, <1>3, EmptySeq
    <3>2. QED
      BY <3>1, <1>0, <1>2, SubSeqOfConcat1, SubSeqFull
  <2>3. QED
    BY <2>1, <2>2
<1>6. SubSeq(c, Len(a) + 2, Len(c)) = b
  <2>1. CASE b = <<>>
    BY <2>1, <1>2, <1>3, SubSeqEmpty, EmptySeq
  <2>2. CASE b # <<>>
    <3>1. /\ Len(a) + 2 \in Len(a) + 1 .. Len(a) + Len(n)
          /\ Len(c) \in Len(a) + 1 .. Len(a) + Len(n)
      BY <2>2, <1>2, <1>3, EmptySeq
    <3>2. SubSeq(c, Len(a) + 2, Len(c)) = SubSeq(n, 2, Len(n))
      <4>1. SubSeq(c, Len(a) + 2, Len(c)) = SubSeq(n, Len(a) + 2 - Len(a), Len(c) - Len(a))
        BY <3>1, <1>0, <1>2, SubSeqOfConcat2
      <4>2. Len(a) + 2 - Len(a) = 2 /\ Len(c) - Len(a) = Len(n)
        BY <1>2, <1>3
      <4>3. QED
        BY <4>1, <4>2
    <3>3. SubSeq(n, 2, Len(n)) = Tail(n)
      BY <1>2, <1>3, TailIsSubSeq, EmptySeq
    <3>4. QED
      BY <3>2, <3>3, <1>2
  <2>3. QED
    BY <2>1, <2>2
<1>7. (Len(a) + 1) - 1 = Len(a) /\ (Len(a) + 1) + 1 = Len(a) + 2
  BY <1>3
<1>8. /\ SubSeq(c, 1, (Len(a) + 1) - 1) = a
      /\ SubSeq(c, (Len(a) + 1) + 1, Len(c)) = b
  BY <1>5, <1>6, <1>7, Zenon
<1>9. Len(a) + 1 \in DOMAIN c
      /\ SubSeq(c, 1, (Len(a) + 1) - 1) \o SubSeq(c, (Len(a) + 1) + 1, Len(c)) = a \o b
  BY <1>4, <1>8, Zenon
<1>10. Loses(c, a \o b)
  BY <1>9, Zenon DEF Loses
<1>11. QED
  BY <1>10 DEF c, n

\* Taking the first element.
LEMMA HeadOfConcat ==
    ASSUME NEW S, NEW s \in Seq(S), NEW r \in Seq(S), s # <<>>
    PROVE  /\ s \o r # <<>>
           /\ Head(s \o r) = Head(s)
           /\ Tail(s \o r) = Tail(s) \o r
<1>1. /\ s \o r \in Seq(S) /\ Len(s \o r) = Len(s) + Len(r)
      /\ \A i \in 1..Len(s) + Len(r) : (s \o r)[i] = IF i <= Len(s) THEN s[i] ELSE r[i - Len(s)]
  BY ConcatProperties
<1>2. Len(s) \in Nat /\ Len(r) \in Nat /\ Len(s) >= 1
  BY EmptySeq, LenProperties
<1>3. s \o r # <<>>
  BY <1>1, <1>2, EmptySeq
<1>4. Head(s \o r) = Head(s)
  BY <1>1, <1>2
<1>5. /\ Tail(s) \in Seq(S) /\ Len(Tail(s)) = Len(s) - 1
      /\ \A i \in 1..Len(s) - 1 : Tail(s)[i] = s[i + 1]
  BY HeadTailProperties
<1>6. /\ Tail(s \o r) \in Seq(S) /\ Len(Tail(s \o r)) = Len(s) + Len(r) - 1
      /\ \A i \in 1..Len(s) + Len(r) - 1 : Tail(s \o r)[i] = (s \o r)[i + 1]
  BY <1>1, <1>3, HeadTailProperties
<1>7. /\ Tail(s) \o r \in Seq(S) /\ Len(Tail(s) \o r) = Len(s) - 1 + Len(r)
      /\ \A i \in 1..Len(s) - 1 + Len(r) :
            (Tail(s) \o r)[i] = IF i <= Len(s) - 1 THEN Tail(s)[i] ELSE r[i - (Len(s) - 1)]
  BY <1>5, ConcatProperties
<1>8. \A i \in 1..Len(s) + Len(r) - 1 : Tail(s \o r)[i] = (Tail(s) \o r)[i]
  BY <1>1, <1>2, <1>5, <1>6, <1>7
<1>9. Tail(s \o r) = Tail(s) \o r
  BY <1>2, <1>6, <1>7, <1>8, SeqEqual
<1>10. QED
  BY <1>3, <1>4, <1>9

-----------------------------------------------------------------------------
(* Types *)

\* A shard stays a shard when a key is remembered.
LEMMA RememberType ==
    ASSUME NEW sh \in Shard, NEW key \in Keys
    PROVE  Remember(sh, key) \in Shard
<1>1. sh.seen \subseteq Keys /\ sh.order \in [Slots -> Keys \cup {NoKey}] /\ sh.head \in Slots
  BY DEF Shard
<1>2. Evict(sh) \cup {key} \in SUBSET Keys
  BY <1>1 DEF Evict
<1>3. [sh.order EXCEPT ![sh.head] = key] \in [Slots -> Keys \cup {NoKey}]
  BY <1>1
<1>4. NextSlot(sh.head) \in Slots
  BY <1>1, DedupAssumption DEF NextSlot, Slots
<1>5. QED
  BY <1>2, <1>3, <1>4 DEF Remember, Shard

\* The shard newDedupShard makes.
LEMMA NewShardType == NewShard \in Shard
  BY DedupAssumption DEF NewShard, Shard, Slots

\* A channel with room takes one more event.
LEMMA Queued ==
    ASSUME NEW S, NEW q \in Seq(S), NEW e \in Seq(S), Len(e) <= 1, NEW cap \in Nat, Len(q) < cap
    PROVE  q \o e \in Seq(S) /\ Len(q \o e) <= cap
<1>1. q \o e \in Seq(S) /\ Len(q \o e) = Len(q) + Len(e) /\ Len(q) \in Nat /\ Len(e) \in Nat
  BY ConcatProperties, LenProperties
<1>2. QED
  BY <1>1

\* A channel gives its first event away.
LEMMA Taken ==
    ASSUME NEW S, NEW q \in Seq(S), q # <<>>, NEW cap \in Nat, Len(q) <= cap
    PROVE  Head(q) \in S /\ Tail(q) \in Seq(S) /\ Len(Tail(q)) <= cap
<1>1. Head(q) \in S /\ Tail(q) \in Seq(S) /\ Len(Tail(q)) = Len(q) - 1 /\ Len(q) \in Nat
  BY HeadTailProperties, LenProperties
<1>2. QED
  BY <1>1

\* The buffers' sizes are numbers.
LEMMA Capacities ==
    /\ RawCap \in Nat /\ NormalizedCap \in Nat
    /\ WriterCap \in Nat /\ EngineCap \in Nat
  BY PipelineAssumption

\* Counting a drop.
LEMMA DropType ==
    ASSUME TypeOK, NEW c \in Channels, IncChannelDrop(c) PROVE drops' \in [Channels -> Nat]
  BY DEF TypeOK, IncChannelDrop

\* The adapter numbers its messages within the bound.
LEMMA ReadNext ==
    ASSUME TypeOK, NEW s \in Sources, NEW key \in Keys \cup {NoKey}, Receive(s, key)
    PROVE  /\ read[s] + 1 \in 1..MaxMessages
           /\ read' \in [Sources -> 0..MaxMessages]
<1>1. /\ read \in [Sources -> 0..MaxMessages] /\ read[s] < MaxMessages
      /\ read' = [read EXCEPT ![s] = read[s] + 1]
  BY DEF TypeOK, Receive
<1>2. MaxMessages \in Nat /\ read[s] \in 0..MaxMessages
  BY <1>1, PipelineAssumption
<1>3. read[s] + 1 \in 0..MaxMessages /\ read[s] + 1 \in 1..MaxMessages
  BY <1>1, <1>2
<1>4. QED
  BY <1>1, <1>3

\* The types hold at the start.
LEMMA TypeInit == Init => TypeOK
<1> SUFFICES ASSUME Init PROVE TypeOK
  OBVIOUS
<1>1. /\ read \in [Sources -> 0..MaxMessages] /\ shards \in [Sources -> Shard]
      /\ drops \in [Channels -> Nat] /\ accepted \in Nat /\ running \subseteq Sources \cup Workers
  BY PipelineAssumption, NewShardType DEF Init
<1>2. <<>> \in Seq(Event) /\ Len(<<>>) = 0
  BY EmptySeq
<1>3. /\ rawCh = <<>> /\ normalizedCh = <<>> /\ writerCh = <<>> /\ engineCh = <<>>
      /\ normalizing = <<>> /\ fanning = <<>> /\ engineGot = <<>> /\ writerGot = <<>>
      /\ fanStage = "idle" /\ cancelled = FALSE /\ engineClosed = FALSE
  BY DEF Init
<1>4. 0 <= RawCap /\ 0 <= NormalizedCap /\ 0 <= WriterCap /\ 0 <= EngineCap
  BY Capacities
<1>5. /\ rawCh \in Seq(Event) /\ normalizedCh \in Seq(Event)
      /\ writerCh \in Seq(Event) /\ engineCh \in Seq(Event)
      /\ normalizing \in Seq(Event) /\ fanning \in Seq(Event)
      /\ engineGot \in Seq(Event) /\ writerGot \in Seq(Event)
      /\ Len(rawCh) = 0 /\ Len(normalizedCh) = 0 /\ Len(writerCh) = 0
      /\ Len(engineCh) = 0 /\ Len(normalizing) = 0 /\ Len(fanning) = 0
  BY <1>2, <1>3, Zenon
<1>6. /\ Len(rawCh) <= RawCap /\ Len(normalizedCh) <= NormalizedCap
      /\ Len(writerCh) <= WriterCap /\ Len(engineCh) <= EngineCap
      /\ Len(normalizing) <= 1 /\ Len(fanning) = IF fanStage = "idle" THEN 0 ELSE 1
  BY <1>3, <1>4, <1>5
<1>7. /\ fanStage \in {"idle", "writer", "engine"}
      /\ cancelled \in BOOLEAN /\ engineClosed \in BOOLEAN
  BY <1>3
<1>8. QED
  BY <1>1, <1>5, <1>6, <1>7, Zenon DEF TypeOK

\* Every step of the pipeline keeps the types.
LEMMA TypeStep == TypeOK /\ [Next]_vars => TypeOK'
<1> SUFFICES ASSUME TypeOK, [Next]_vars PROVE TypeOK'
  OBVIOUS
<1>1. ASSUME NEW s \in Sources, NEW key \in Keys \cup {NoKey}, Receive(s, key) PROVE TypeOK'
  <2> DEFINE evt == [source |-> s, key |-> key, n |-> read[s] + 1]
  <2>1. evt \in Event /\ read' \in [Sources -> 0..MaxMessages]
    BY <1>1, ReadNext DEF Receive, Event
  <2>2. rawCh' \in Seq(Event) /\ Len(rawCh') <= RawCap
    <3>1. CASE Len(rawCh) < RawCap /\ rawCh' = Append(rawCh, evt)
      <4>1. rawCh \in Seq(Event) /\ <<evt>> \in Seq(Event) /\ Len(<<evt>>) <= 1
        BY <2>1 DEF TypeOK
      <4>2. rawCh' = rawCh \o <<evt>>
        BY <3>1, <4>1, <2>1, AppendOne
      <4>3. QED
        BY <3>1, <4>1, <4>2, Queued, Capacities DEF TypeOK
    <3>2. CASE UNCHANGED rawCh
      BY <3>2 DEF TypeOK
    <3>3. QED
      BY <1>1, <3>1, <3>2 DEF Receive
  <2>3. QED
    BY <1>1, <2>1, <2>2 DEF Receive, TypeOK, hands, life, history
<1>2. ASSUME Normalize PROVE TypeOK'
  <2> DEFINE evt == Head(rawCh)
  <2>1. evt \in Event /\ rawCh' \in Seq(Event) /\ Len(rawCh') <= RawCap
    BY <1>2, Taken, Capacities DEF Normalize, TypeOK
  <2>2. /\ accepted' \in Nat /\ shards' \in [Sources -> Shard]
        /\ normalizing' \in Seq(Event) /\ Len(normalizing') <= 1
    <3>1. CASE UNCHANGED <<shards, normalizing, accepted>>
      BY <3>1 DEF TypeOK
    <3>2. CASE /\ normalizing' = <<evt>>
               /\ shards' = IF evt.key = NoKey THEN shards
                            ELSE [shards EXCEPT ![evt.source] = Remember(@, evt.key)]
               /\ accepted' = accepted + 1
      <4>1. evt.source \in Sources /\ evt.key \in Keys \cup {NoKey}
        BY <2>1 DEF Event
      <4>2. evt.key # NoKey => Remember(shards[evt.source], evt.key) \in Shard
        BY <4>1, RememberType DEF TypeOK
      <4>3. shards' \in [Sources -> Shard]
        BY <3>2, <4>1, <4>2 DEF TypeOK
      <4>4. normalizing' \in Seq(Event) /\ Len(normalizing') <= 1
        BY <3>2, <2>1
      <4>5. QED
        BY <3>2, <4>3, <4>4 DEF TypeOK
    <3>3. QED
      BY <1>2, <3>1, <3>2 DEF Normalize
  <2>3. QED
    BY <1>2, <2>1, <2>2 DEF Normalize, TypeOK, life
<1>3. ASSUME Forward PROVE TypeOK'
  <2>1. /\ normalizedCh' \in Seq(Event) /\ Len(normalizedCh') <= NormalizedCap
        /\ drops' \in [Channels -> Nat]
    <3>1. CASE /\ Len(normalizedCh) < NormalizedCap
               /\ normalizedCh' = normalizedCh \o normalizing /\ UNCHANGED drops
      BY <3>1, Queued, Capacities DEF TypeOK
    <3>2. CASE IncChannelDrop("normalizer") /\ UNCHANGED normalizedCh
      BY <3>2, DropType DEF TypeOK, Channels
    <3>3. QED
      BY <1>3, <3>1, <3>2 DEF Forward
  <2>2. normalizing' \in Seq(Event) /\ Len(normalizing') <= 1
    BY <1>3 DEF Forward
  <2>3. QED
    BY <1>3, <2>1, <2>2 DEF Forward, TypeOK, life, history
<1>4. ASSUME FanTake PROVE TypeOK'
  <2>1. /\ normalizedCh' \in Seq(Event) /\ Len(normalizedCh') <= NormalizedCap
        /\ fanning' \in Seq(Event) /\ Len(fanning') = 1
    BY <1>4, Taken, Capacities DEF FanTake, TypeOK
  <2>2. fanStage' \in {"writer", "engine"}
    BY <1>4 DEF FanTake
  <2>3. QED
    BY <1>4, <2>1, <2>2 DEF FanTake, TypeOK, life, history
<1>5. ASSUME FanToWriter PROVE TypeOK'
  <2>1. writerCh' \in Seq(Event) /\ Len(writerCh') <= WriterCap /\ drops' \in [Channels -> Nat]
    <3>1. CASE Len(writerCh) < WriterCap /\ writerCh' = writerCh \o fanning /\ UNCHANGED drops
      <4>1. Len(fanning) <= 1
        BY <1>5 DEF FanToWriter, TypeOK
      <4>2. QED
        BY <3>1, <4>1, Queued, Capacities DEF TypeOK
    <3>2. CASE IncChannelDrop("writer") /\ UNCHANGED writerCh
      BY <3>2, DropType DEF TypeOK, Channels
    <3>3. QED
      BY <1>5, <3>1, <3>2 DEF FanToWriter
  <2>2. QED
    BY <1>5, <2>1 DEF FanToWriter, TypeOK, life, history
<1>6. ASSUME FanToEngine PROVE TypeOK'
  <2>1. engineCh' \in Seq(Event) /\ Len(engineCh') <= EngineCap /\ drops' \in [Channels -> Nat]
    <3>1. CASE Len(engineCh) < EngineCap /\ engineCh' = engineCh \o fanning /\ UNCHANGED drops
      <4>1. Len(fanning) <= 1
        BY <1>6 DEF FanToEngine, TypeOK
      <4>2. QED
        BY <3>1, <4>1, Queued, Capacities DEF TypeOK
    <3>2. CASE IncChannelDrop("engine") /\ UNCHANGED engineCh
      BY <3>2, DropType DEF TypeOK, Channels
    <3>3. QED
      BY <1>6, <3>1, <3>2 DEF FanToEngine
  <2>2. fanning' \in Seq(Event) /\ Len(fanning') = 0
    BY <1>6 DEF FanToEngine
  <2>3. QED
    BY <1>6, <2>1, <2>2 DEF FanToEngine, TypeOK, life, history
<1>7. ASSUME EngineTake PROVE TypeOK'
  <2>1. /\ engineCh' \in Seq(Event) /\ Len(engineCh') <= EngineCap /\ Head(engineCh) \in Event
    BY <1>7, Taken, Capacities DEF EngineTake, TypeOK
  <2>2. engineGot' \in Seq(Event)
    BY <1>7, <2>1 DEF EngineTake, TypeOK
  <2>3. QED
    BY <1>7, <2>1, <2>2 DEF EngineTake, TypeOK, hands, life
<1>8. ASSUME WriterTake PROVE TypeOK'
  <2>1. /\ writerCh' \in Seq(Event) /\ Len(writerCh') <= WriterCap /\ Head(writerCh) \in Event
    BY <1>8, Taken, Capacities DEF WriterTake, TypeOK
  <2>2. writerGot' \in Seq(Event)
    BY <1>8, <2>1 DEF WriterTake, TypeOK
  <2>3. QED
    BY <1>8, <2>1, <2>2 DEF WriterTake, TypeOK, hands, life
<1>9. ASSUME Cancel PROVE TypeOK'
  BY <1>9 DEF Cancel, TypeOK, queues, hands, history
<1>10. ASSUME NEW w \in Sources \cup Workers, Stop(w) PROVE TypeOK'
  BY <1>10 DEF Stop, TypeOK, queues, hands, history
<1>11. CASE UNCHANGED vars
  BY <1>11 DEF TypeOK, vars, queues, hands, life, history
<1>12. QED
  BY <1>1, <1>2, <1>3, <1>4, <1>5, <1>6, <1>7, <1>8, <1>9, <1>10, <1>11 DEF Next

\* In every behaviour of the pipeline the variables have their types: no
\* channel holds more than its buffer, no goroutine more than one event.
THEOREM PipelineTypeCorrect == Spec => []TypeOK
<1>1. QED
  BY TypeInit, TypeStep, PTL DEF Spec

-----------------------------------------------------------------------------
(* The engine's FIFO *)

\* Joining sequences: where the brackets are does not matter, <<>> is neutral.
LEMMA Assoc ==
    ASSUME NEW S, NEW s \in Seq(S), NEW t \in Seq(S), NEW u \in Seq(S)
    PROVE  /\ (s \o t) \o u = s \o (t \o u)
           /\ s \o t \in Seq(S) /\ t \o u \in Seq(S)
           /\ <<>> \o t = t /\ t \o <<>> = t
<1>1. (s \o t) \o u = s \o (t \o u)
  BY ConcatAssociative
<1>2. s \o t \in Seq(S) /\ t \o u \in Seq(S)
  BY ConcatProperties
<1>3. <<>> \o t = t /\ t \o <<>> = t
  BY ConcatEmptySeq
<1>4. QED
  BY <1>1, <1>2, <1>3, Zenon

\* The same for sequences of events, as a formula.
LEMMA EventAssoc == \A s, t, u \in Seq(Event) : (s \o t) \o u = s \o (t \o u)
  BY ConcatAssociative

\* The events before the fan-out.
LEMMA UpstreamType == TypeOK => Upstream \in Seq(Event)
  BY ConcatProperties DEF TypeOK, Upstream

\* A message an adapter reads goes to the end, or nowhere.
LEMMA UpstreamReceive ==
    ASSUME TypeOK, NEW s \in Sources, NEW key \in Keys \cup {NoKey}, Receive(s, key),
           NEW evt, evt = [source |-> s, key |-> key, n |-> read[s] + 1]
    PROVE  evt \in Event /\ (Upstream' = Upstream \/ Upstream' = Upstream \o <<evt>>)
<1>1. evt \in Event
  BY ReadNext DEF Event
<1>2. normalizedCh' = normalizedCh /\ normalizing' = normalizing
  BY DEF Receive, hands
<1>3. CASE rawCh' = Append(rawCh, evt)
  <2>1. rawCh' = rawCh \o <<evt>> /\ <<evt>> \in Seq(Event)
    BY <1>1, <1>3, AppendOne DEF TypeOK
  <2>2. /\ normalizedCh \o normalizing \in Seq(Event) /\ rawCh \in Seq(Event)
    BY ConcatProperties DEF TypeOK
  <2>3. ((normalizedCh \o normalizing) \o rawCh) \o <<evt>>
            = (normalizedCh \o normalizing) \o (rawCh \o <<evt>>)
    BY <2>1, <2>2, EventAssoc, Zenon
  <2>4. QED
    BY <1>1, <1>2, <2>1, <2>3 DEF Upstream
<1>4. CASE UNCHANGED rawCh
  BY <1>1, <1>2, <1>4 DEF Upstream
<1>5. QED
  BY <1>3, <1>4 DEF Receive

\* The event the normalizer refuses is in the middle, and so is the one it
\* drops.
LEMMA UpstreamNormalize ==
    ASSUME TypeOK, Normalize
    PROVE  \/ Upstream' = Upstream
           \/ \E a, b, m \in Seq(Event) :
                 Len(m) = 1 /\ Upstream = a \o (m \o b) /\ Upstream' = a \o b
<1> DEFINE evt == Head(rawCh)
<1>1. /\ rawCh \in Seq(Event) /\ rawCh # <<>> /\ normalizing = <<>>
      /\ normalizedCh \in Seq(Event) /\ normalizedCh' = normalizedCh
      /\ rawCh' = Tail(rawCh)
  BY DEF TypeOK, Normalize
<1>2. evt \in Event /\ Tail(rawCh) \in Seq(Event) /\ rawCh = <<evt>> \o Tail(rawCh)
  BY <1>1, HeadTailProperties, HeadThenTail
<1>3. Upstream = normalizedCh \o (<<evt>> \o Tail(rawCh))
  BY <1>1, <1>2, Assoc DEF Upstream
<1>4. CASE normalizing' = normalizing
  <2>1. Upstream' = normalizedCh \o Tail(rawCh)
    BY <1>1, <1>4, Assoc DEF Upstream
  <2>2. \E m \in Seq(Event) :
           /\ Len(m) = 1 /\ Upstream = normalizedCh \o (m \o Tail(rawCh))
           /\ Upstream' = normalizedCh \o Tail(rawCh)
    <3>1. <<evt>> \in Seq(Event) /\ Len(<<evt>>) = 1
      BY <1>2
    <3>2. QED
      BY <1>3, <2>1, <3>1, Zenon
  <2>3. QED
    BY <1>1, <1>2, <2>2, Zenon
<1>5. CASE normalizing' = <<evt>>
  <2>1. <<evt>> \in Seq(Event)
    BY <1>2
  <2>2. Upstream' = (normalizedCh \o <<evt>>) \o Tail(rawCh)
    BY <1>1, <1>5 DEF Upstream
  <2>3. (normalizedCh \o <<evt>>) \o Tail(rawCh) = normalizedCh \o (<<evt>> \o Tail(rawCh))
    BY <1>1, <1>2, <2>1, Assoc
  <2>4. QED
    BY <1>3, <2>2, <2>3
<1>6. QED
  BY <1>4, <1>5 DEF Normalize

\* Moving from hand to channel changes nothing; a drop takes from the middle.
LEMMA UpstreamForward ==
    ASSUME TypeOK, Forward
    PROVE  \/ Upstream' = Upstream
           \/ \E a, b, m \in Seq(Event) :
                 Len(m) = 1 /\ Upstream = a \o (m \o b) /\ Upstream' = a \o b
<1>1. /\ rawCh \in Seq(Event) /\ normalizing \in Seq(Event) /\ normalizing # <<>>
      /\ normalizedCh \in Seq(Event) /\ normalizing' = <<>> /\ rawCh' = rawCh
      /\ Len(normalizing) <= 1
  BY DEF TypeOK, Forward, life
<1>2. CASE normalizedCh' = normalizedCh \o normalizing
  <2>1. Upstream' = (normalizedCh \o normalizing) \o rawCh
    <3>1. (normalizedCh \o normalizing) \o <<>> = normalizedCh \o normalizing
      BY <1>1, Assoc
    <3>2. QED
      BY <1>1, <1>2, <3>1 DEF Upstream
  <2>2. QED
    BY <2>1 DEF Upstream
<1>3. CASE UNCHANGED normalizedCh
  <2>1. Upstream' = normalizedCh \o rawCh
    BY <1>1, <1>3, Assoc DEF Upstream
  <2>2. Len(normalizing) = 1
    BY <1>1, OneElement
  <2>3. Upstream = normalizedCh \o (normalizing \o rawCh)
    BY <1>1, Assoc DEF Upstream
  <2>4. QED
    BY <1>1, <2>1, <2>2, <2>3, Zenon
<1>4. QED
  BY <1>2, <1>3 DEF Forward

\* What the fan-out takes is the first upstream.
LEMMA UpstreamTake ==
    ASSUME TypeOK, FanTake
    PROVE  fanning = <<>> /\ fanning' \in Seq(Event) /\ Upstream' \in Seq(Event)
           /\ Upstream = fanning' \o Upstream'
<1>1. /\ rawCh \in Seq(Event) /\ normalizing \in Seq(Event) /\ normalizedCh \in Seq(Event)
      /\ normalizedCh # <<>> /\ fanning \in Seq(Event) /\ Len(fanning) = 0
  BY DEF TypeOK, FanTake
<1>2. /\ rawCh' = rawCh /\ normalizing' = normalizing /\ normalizedCh' = Tail(normalizedCh)
      /\ fanning' = <<Head(normalizedCh)>>
  BY DEF FanTake
<1>3. /\ <<Head(normalizedCh)>> \in Seq(Event) /\ Tail(normalizedCh) \in Seq(Event)
      /\ normalizedCh = <<Head(normalizedCh)>> \o Tail(normalizedCh)
  BY <1>1, HeadTailProperties, HeadThenTail
<1>4. /\ Tail(normalizedCh) \o normalizing \in Seq(Event)
      /\ (Tail(normalizedCh) \o normalizing) \o rawCh \in Seq(Event)
  BY <1>1, <1>3, Assoc
<1>5. (<<Head(normalizedCh)>> \o Tail(normalizedCh)) \o normalizing
        = <<Head(normalizedCh)>> \o (Tail(normalizedCh) \o normalizing)
  BY <1>1, <1>3, Assoc
<1>6. (<<Head(normalizedCh)>> \o (Tail(normalizedCh) \o normalizing)) \o rawCh
        = <<Head(normalizedCh)>> \o ((Tail(normalizedCh) \o normalizing) \o rawCh)
  BY <1>1, <1>3, <1>4, Assoc
<1>7. fanning = <<>>
  BY <1>1, EmptySeq
<1>8. QED
  BY <1>2, <1>3, <1>4, <1>5, <1>6, <1>7 DEF Upstream

\* What a queue behind a prefix does, the prefix unchanged.
LEMMA BehindSend ==
    ASSUME NEW S, NEW p \in Seq(S), NEW u \in Seq(S), NEW e \in S
    PROVE  p \o (u \o <<e>>) = Append(p \o u, e)
<1>1. <<e>> \in Seq(S) /\ p \o u \in Seq(S)
  BY ConcatProperties
<1>2. (p \o u) \o <<e>> = p \o (u \o <<e>>)
  BY <1>1, ConcatAssociative
<1>3. Append(p \o u, e) = (p \o u) \o <<e>>
  BY <1>1, AppendOne
<1>4. QED
  BY <1>2, <1>3

\* The next message an adapter reads.
Fresh == {e \in Event : e.n = read[e.source] + 1}

\* d is c, c with such an event at the end, or c without one of its events.
Moves(c, d) == d = c \/ (\E e \in Fresh : d = Append(c, e)) \/ Loses(c, d)

\* What stands behind p, with the steps before the fan-out.
LEMMA UpstreamMoves ==
    ASSUME TypeOK, NEW p \in Seq(Event),
           \/ Normalize \/ Forward
           \/ \E s \in Sources, key \in Keys \cup {NoKey} : Receive(s, key)
    PROVE  Moves(p \o Upstream, p \o Upstream')
<1>1. Upstream \in Seq(Event)
  BY UpstreamType
<1>2. ASSUME NEW s \in Sources, NEW key \in Keys \cup {NoKey}, Receive(s, key)
      PROVE  Moves(p \o Upstream, p \o Upstream')
  <2> DEFINE evt == [source |-> s, key |-> key, n |-> read[s] + 1]
  <2>0. /\ evt = [source |-> s, key |-> key, n |-> read[s] + 1]
        /\ evt.n = read[evt.source] + 1
    OBVIOUS
  <2> HIDE DEF evt
  <2>1. evt \in Event /\ (Upstream' = Upstream \/ Upstream' = Upstream \o <<evt>>)
    BY <1>2, <2>0, UpstreamReceive
  <2>4. evt \in Fresh
    BY <2>0, <2>1 DEF Fresh
  <2>2. CASE Upstream' = Upstream \o <<evt>>
    <3>1. p \o (Upstream \o <<evt>>) = Append(p \o Upstream, evt)
      BY <1>1, <2>1, BehindSend
    <3>2. QED
      BY <2>4, <2>2, <3>1, Zenon DEF Moves
  <2>3. QED
    BY <2>1, <2>2 DEF Moves
<1>3. CASE Normalize \/ Forward
  <2>1. ASSUME NEW a \in Seq(Event), NEW b \in Seq(Event), NEW m \in Seq(Event), Len(m) = 1,
               Upstream = a \o (m \o b), Upstream' = a \o b
        PROVE  Moves(p \o Upstream, p \o Upstream')
    <3>1. a \in Seq(Event) /\ b \in Seq(Event) /\ m \in Seq(Event)
      BY <2>1
    <3>2. m \o b \in Seq(Event) /\ p \o a \in Seq(Event)
      BY <3>1, ConcatProperties
    <3>3. \A t, u \in Seq(Event) : (p \o t) \o u = p \o (t \o u)
      BY EventAssoc
    <3>4. (p \o a) \o (m \o b) = p \o (a \o (m \o b))
      BY <3>1, <3>2, <3>3, Zenon
    <3>5. (p \o a) \o b = p \o (a \o b)
      BY <3>1, <3>3, Zenon
    <3>6. Loses((p \o a) \o (m \o b), (p \o a) \o b)
      BY <2>1, <3>1, <3>2, RemoveMiddle
    <3>7. Loses(p \o Upstream, p \o Upstream')
      BY <2>1, <3>4, <3>5, <3>6, Zenon
    <3>8. QED
      BY <3>7 DEF Moves
  <2>2. CASE Upstream' = Upstream
    BY <2>2 DEF Moves
  <2>3. QED
    BY <1>3, <2>1, <2>2, UpstreamNormalize, UpstreamForward, Zenon
<1>4. QED
  BY <1>2, <1>3

\* Losing what stands between a queue and what is behind it.
LEMMA LoseBetween ==
    ASSUME NEW q \in Seq(Event), NEW m \in Seq(Event), Len(m) = 1, NEW u \in Seq(Event)
    PROVE  Moves((q \o m) \o u, q \o u)
<1>1. Loses(q \o (m \o u), q \o u)
  BY RemoveMiddle
<1>2. (q \o m) \o u = q \o (m \o u)
  BY EventAssoc
<1>3. QED
  BY <1>1, <1>2, Zenon DEF Moves

\* The first element of c is e, the rest is d.
Takes(c, e, d) == c # <<>> /\ Head(c) = e /\ Tail(c) = d

\* Taking the first element of three sequences in a row.
LEMMA HeadOfThree ==
    ASSUME NEW q \in Seq(Event), q # <<>>, NEW m \in Seq(Event), NEW u \in Seq(Event)
    PROVE  Takes((q \o m) \o u, Head(q), (Tail(q) \o m) \o u)
<1> DEFINE p == q \o m
<1>1. p \in Seq(Event) /\ p # <<>> /\ Head(p) = Head(q) /\ Tail(p) = Tail(q) \o m
  BY HeadOfConcat, ConcatProperties
<1> HIDE DEF p
<1>2. p \o u # <<>> /\ Head(p \o u) = Head(p) /\ Tail(p \o u) = Tail(p) \o u
  BY <1>1, HeadOfConcat
<1>3. QED
  BY <1>1, <1>2, Zenon DEF p, Takes

\* Such a change of the transit, nothing delivered, is a step of the FIFO.
LEMMA EngineMoves ==
    ASSUME engineGot' = engineGot, Moves(ToEngine, ToEngine')
    PROVE  EngineQueue!Next \/ (ToEngine' = ToEngine /\ engineGot' = engineGot)
<1>1. CASE \E e \in Fresh : ToEngine' = Append(ToEngine, e)
  BY <1>1 DEF Fresh, EngineQueue!Next, EngineQueue!Send
<1>2. CASE Loses(ToEngine, ToEngine')
  <2>1. PICK i \in DOMAIN ToEngine : EngineQueue!Lose(i)
    BY <1>2 DEF Loses, EngineQueue!Lose, EngineQueue!Without
  <2>2. QED
    BY <2>1 DEF EngineQueue!Next
<1>3. QED
  BY <1>1, <1>2 DEF Moves

\* Every step of the pipeline delivers the first event in transit to the engine,
\* or adds one, or loses one, or leaves them alone: it is a step of the FIFO.
LEMMA EngineChange ==
    ASSUME TypeOK, TypeOK', [Next]_vars
    PROVE  EngineQueue!Deliver \/ (engineGot' = engineGot /\ Moves(ToEngine, ToEngine'))
<1> DEFINE p == engineCh \o fanning
<1>1. /\ engineCh \in Seq(Event) /\ fanning \in Seq(Event) /\ Upstream \in Seq(Event)
      /\ p \in Seq(Event)
  BY UpstreamType, ConcatProperties DEF TypeOK
<1>2. Upstream' \in Seq(Event)
  BY ConcatProperties DEF TypeOK, Upstream
<1>3. ToEngine = p \o Upstream /\ p = engineCh \o fanning
  BY DEF ToEngine
<1> HIDE DEF p
<1>4. ASSUME \/ Normalize \/ Forward
             \/ \E s \in Sources, key \in Keys \cup {NoKey} : Receive(s, key)
      PROVE  engineGot' = engineGot /\ Moves(ToEngine, ToEngine')
  <2>1. ToEngine' = p \o Upstream' /\ engineGot' = engineGot
    BY <1>3, <1>4 DEF Receive, Normalize, Forward, hands, history, ToEngine
  <2>2. Moves(p \o Upstream, p \o Upstream')
    BY <1>1, <1>4, UpstreamMoves
  <2>3. QED
    BY <1>3, <2>1, <2>2, Zenon
<1>5. ASSUME FanTake PROVE ToEngine' = ToEngine /\ engineGot' = engineGot
  <2>1. /\ fanning = <<>> /\ fanning' \in Seq(Event)
        /\ Upstream = fanning' \o Upstream'
    BY <1>5, UpstreamTake
  <2>2. engineCh' = engineCh /\ engineGot' = engineGot
    BY <1>5 DEF FanTake, history
  <2>3. ToEngine' = (engineCh \o fanning') \o Upstream'
    BY <2>2 DEF ToEngine
  <2>4. (engineCh \o fanning') \o Upstream' = engineCh \o (fanning' \o Upstream')
    <3>1. \A t, u \in Seq(Event) : (engineCh \o t) \o u = engineCh \o (t \o u)
      BY <1>1, EventAssoc
    <3>2. QED
      BY <1>2, <2>1, <3>1, Zenon
  <2>5. engineCh \o <<>> = engineCh
    BY <1>1, ConcatEmptySeq
  <2>6. QED
    BY <1>3, <2>1, <2>2, <2>3, <2>4, <2>5
<1>6. ASSUME FanToEngine PROVE engineGot' = engineGot /\ Moves(ToEngine, ToEngine')
  <2>1. Upstream' = Upstream /\ engineGot' = engineGot /\ fanning' = <<>>
    BY <1>6 DEF FanToEngine, Upstream, history
  <2>2. engineCh \o <<>> = engineCh /\ p \o <<>> = p
    BY <1>1, ConcatEmptySeq
  <2>3. CASE engineCh' = p
    <3>1. ToEngine' = ToEngine
      BY <1>3, <2>1, <2>2, <2>3, Zenon DEF ToEngine
    <3>2. QED
      BY <2>1, <3>1 DEF Moves
  <2>4. CASE UNCHANGED engineCh
    <3>1. Len(fanning) = 1
      BY <1>6 DEF FanToEngine, TypeOK
    <3>2. ToEngine' = engineCh \o Upstream
      BY <2>1, <2>2, <2>4 DEF ToEngine
    <3>3. Moves((engineCh \o fanning) \o Upstream, engineCh \o Upstream)
      BY <1>1, <3>1, LoseBetween
    <3>4. QED
      BY <2>1, <3>2, <3>3 DEF ToEngine
  <2>5. QED
    BY <1>3, <1>6, <2>3, <2>4 DEF FanToEngine
<1>7. ASSUME EngineTake PROVE EngineQueue!Deliver
  <2>1. /\ engineCh # <<>> /\ engineCh' = Tail(engineCh) /\ fanning' = fanning
        /\ Upstream' = Upstream /\ engineGot' = Append(engineGot, Head(engineCh))
    BY <1>7 DEF EngineTake, hands, Upstream
  <2>2. /\ ToEngine # <<>> /\ Head(ToEngine) = Head(engineCh)
        /\ Tail(ToEngine) = (Tail(engineCh) \o fanning) \o Upstream
    <3>1. Takes((engineCh \o fanning) \o Upstream, Head(engineCh), (Tail(engineCh) \o fanning) \o Upstream)
      BY <1>1, <2>1, HeadOfThree
    <3>2. QED
      BY <3>1, Zenon DEF ToEngine, Takes
  <2>3. ToEngine' = (Tail(engineCh) \o fanning) \o Upstream
    BY <2>1 DEF ToEngine
  <2>4. QED
    BY <2>1, <2>2, <2>3 DEF EngineQueue!Deliver
<1>8. ASSUME \/ FanToWriter \/ WriterTake \/ Cancel \/ UNCHANGED vars
             \/ \E w \in Sources \cup Workers : Stop(w)
      PROVE  ToEngine' = ToEngine /\ engineGot' = engineGot
  BY <1>8 DEF FanToWriter, WriterTake, Cancel, Stop, vars, queues, hands, life, history,
              ToEngine, Upstream
<1>9. QED
  BY <1>4, <1>5, <1>6, <1>7, <1>8 DEF Next, Moves

LEMMA EngineStep == TypeOK /\ TypeOK' /\ [Next]_vars => [EngineQueue!Next]_EngineQueue!vars
<1> SUFFICES ASSUME TypeOK, TypeOK', [Next]_vars PROVE [EngineQueue!Next]_EngineQueue!vars
  OBVIOUS
<1>1. CASE EngineQueue!Deliver
  BY <1>1 DEF EngineQueue!Next
<1>2. CASE engineGot' = engineGot /\ Moves(ToEngine, ToEngine')
  BY <1>2, EngineMoves DEF EngineQueue!vars
<1> QED BY <1>1, <1>2, EngineChange

\* For every number of sources, messages and slots: the engine receives events
\* in the order in which the adapters queued them and each at most once,
\* whatever is dropped on the way and whatever the writer's queue does.
THEOREM EngineGetsFifo == Spec => EngineFifo
<1>1. Init => EngineQueue!Init
  <2> SUFFICES ASSUME Init PROVE ToEngine = <<>> /\ engineGot = <<>>
    BY DEF EngineQueue!Init
  <2>1. <<>> \o <<>> = <<>>
    BY Assoc, EmptySeq
  <2>2. QED
    BY <2>1 DEF Init, ToEngine, Upstream
<1>2. QED
  BY <1>1, EngineStep, PipelineTypeCorrect, PTL DEF Spec, EngineFifo, EngineQueue!Spec

-----------------------------------------------------------------------------
(* The writer's FIFO *)

\* The event in the fan-out that the writer may still get.
Held == IF fanStage = "writer" THEN fanning ELSE <<>>

\* The fan-out holds an event while it is at the writer's send.
LEMMA HeldType == TypeOK => Held \in Seq(Event) /\ (fanStage = "writer" => Len(Held) = 1)
  BY EmptySeq DEF TypeOK, Held

\* The same for the writer's FIFO.
LEMMA WriterMoves ==
    ASSUME writerGot' = writerGot, Moves(ToWriter, ToWriter')
    PROVE  WriterQueue!Next \/ (ToWriter' = ToWriter /\ writerGot' = writerGot)
<1>1. CASE \E e \in Fresh : ToWriter' = Append(ToWriter, e)
  BY <1>1 DEF Fresh, WriterQueue!Next, WriterQueue!Send
<1>2. CASE Loses(ToWriter, ToWriter')
  <2>1. PICK i \in DOMAIN ToWriter : WriterQueue!Lose(i)
    BY <1>2 DEF Loses, WriterQueue!Lose, WriterQueue!Without
  <2>2. QED
    BY <2>1 DEF WriterQueue!Next
<1>3. QED
  BY <1>1, <1>2 DEF Moves

\* The same of the writer.
LEMMA WriterChange ==
    ASSUME TypeOK, TypeOK', [Next]_vars
    PROVE  WriterQueue!Deliver \/ (writerGot' = writerGot /\ Moves(ToWriter, ToWriter'))
<1> DEFINE p == writerCh \o Held
<1>1. /\ writerCh \in Seq(Event) /\ Held \in Seq(Event) /\ Upstream \in Seq(Event)
      /\ p \in Seq(Event)
  BY HeldType, UpstreamType, ConcatProperties DEF TypeOK
<1>2. Upstream' \in Seq(Event)
  BY ConcatProperties DEF TypeOK, Upstream
<1>3. ToWriter = p \o Upstream /\ p = writerCh \o Held
  BY DEF ToWriter, Held
<1>4. ToWriter' = (writerCh' \o Held') \o Upstream'
  BY DEF ToWriter, Held
<1> HIDE DEF p
<1>5. writerCh \o <<>> = writerCh /\ p \o <<>> = p
  BY <1>1, ConcatEmptySeq
<1>6. ASSUME \/ Normalize \/ Forward
             \/ \E s \in Sources, key \in Keys \cup {NoKey} : Receive(s, key)
      PROVE  writerGot' = writerGot /\ Moves(ToWriter, ToWriter')
  <2>1. Held' = Held /\ writerCh' = writerCh /\ writerGot' = writerGot
    BY <1>6 DEF Receive, Normalize, Forward, hands, history, Held
  <2>2. Moves(p \o Upstream, p \o Upstream')
    BY <1>1, <1>6, UpstreamMoves
  <2>3. QED
    BY <1>3, <1>4, <2>1, <2>2, Zenon
<1>7. ASSUME FanTake PROVE writerGot' = writerGot /\ Moves(ToWriter, ToWriter')
  <2>1. /\ fanning' \in Seq(Event) /\ Len(fanning') = 1
        /\ Upstream = fanning' \o Upstream'
    BY <1>7, UpstreamTake DEF FanTake, TypeOK
  <2>2. writerCh' = writerCh /\ writerGot' = writerGot /\ Held = <<>>
    BY <1>7 DEF FanTake, history, Held
  <2>3. ToWriter = writerCh \o (fanning' \o Upstream')
    BY <1>3, <1>5, <2>1, <2>2, Zenon
  <2>4. (writerCh \o fanning') \o Upstream' = writerCh \o (fanning' \o Upstream')
    <3>1. \A t, u \in Seq(Event) : (writerCh \o t) \o u = writerCh \o (t \o u)
      BY <1>1, EventAssoc
    <3>2. QED
      BY <1>2, <2>1, <3>1, Zenon
  <2>5. CASE Held' = fanning'
    <3>1. ToWriter' = ToWriter
      BY <1>4, <2>2, <2>3, <2>4, <2>5, Zenon
    <3>2. QED
      BY <2>2, <3>1 DEF Moves
  <2>6. CASE Held' = <<>>
    <3>1. \A m, u \in Seq(Event) : Len(m) = 1 => Moves((writerCh \o m) \o u, writerCh \o u)
      BY <1>1, LoseBetween
    <3>2. Moves((writerCh \o fanning') \o Upstream', writerCh \o Upstream')
      BY <1>2, <2>1, <3>1, Zenon
    <3>3. ToWriter' = writerCh \o Upstream'
      BY <1>4, <1>5, <2>2, <2>6, Zenon
    <3>4. QED
      BY <2>2, <2>3, <2>4, <3>2, <3>3, Zenon
  <2>7. QED
    BY <2>5, <2>6 DEF Held
<1>8. ASSUME FanToWriter PROVE writerGot' = writerGot /\ Moves(ToWriter, ToWriter')
  <2>1. Upstream' = Upstream /\ writerGot' = writerGot /\ Held' = <<>>
    BY <1>8 DEF FanToWriter, Upstream, Held, history
  <2>2. Held = fanning /\ Len(Held) = 1
    BY <1>8, HeldType DEF FanToWriter, Held
  <2>3. CASE writerCh' = writerCh \o fanning
    <3>1. ToWriter' = ToWriter
      BY <1>3, <1>4, <1>5, <2>1, <2>2, <2>3, Zenon
    <3>2. QED
      BY <2>1, <3>1 DEF Moves
  <2>4. CASE UNCHANGED writerCh
    <3>1. Moves((writerCh \o Held) \o Upstream, writerCh \o Upstream)
      BY <1>1, <2>2, LoseBetween
    <3>2. ToWriter' = writerCh \o Upstream
      BY <1>4, <1>5, <2>1, <2>4
    <3>3. QED
      BY <1>3, <2>1, <3>1, <3>2
  <2>5. QED
    BY <1>8, <2>3, <2>4 DEF FanToWriter
<1>9. ASSUME WriterTake PROVE WriterQueue!Deliver
  <2>1. /\ writerCh # <<>> /\ writerCh' = Tail(writerCh) /\ Held' = Held
        /\ Upstream' = Upstream /\ writerGot' = Append(writerGot, Head(writerCh))
    BY <1>9 DEF WriterTake, hands, Upstream, Held
  <2>2. /\ ToWriter # <<>> /\ Head(ToWriter) = Head(writerCh)
        /\ Tail(ToWriter) = (Tail(writerCh) \o Held) \o Upstream
    <3>1. Takes((writerCh \o Held) \o Upstream, Head(writerCh), (Tail(writerCh) \o Held) \o Upstream)
      BY <1>1, <2>1, HeadOfThree
    <3>2. QED
      BY <1>3, <3>1, Zenon DEF Takes
  <2>3. ToWriter' = (Tail(writerCh) \o Held) \o Upstream
    BY <1>4, <2>1, Zenon
  <2>4. QED
    BY <2>1, <2>2, <2>3 DEF WriterQueue!Deliver
<1>10. ASSUME \/ FanToEngine \/ EngineTake \/ Cancel \/ UNCHANGED vars
             \/ \E w \in Sources \cup Workers : Stop(w)
      PROVE  ToWriter' = ToWriter /\ writerGot' = writerGot
  BY <1>10 DEF FanToEngine, EngineTake, Cancel, Stop, vars, queues, hands, life, history,
              ToWriter, Upstream
<1>11. QED
  BY <1>6, <1>7, <1>8, <1>9, <1>10 DEF Next, Moves

LEMMA WriterStep == TypeOK /\ TypeOK' /\ [Next]_vars => [WriterQueue!Next]_WriterQueue!vars
<1> SUFFICES ASSUME TypeOK, TypeOK', [Next]_vars PROVE [WriterQueue!Next]_WriterQueue!vars
  OBVIOUS
<1>1. CASE WriterQueue!Deliver
  BY <1>1 DEF WriterQueue!Next
<1>2. CASE writerGot' = writerGot /\ Moves(ToWriter, ToWriter')
  BY <1>2, WriterMoves DEF WriterQueue!vars
<1> QED BY <1>1, <1>2, WriterChange

\* The same of the raw event writer, with and without a database: it receives
\* events in the order in which the adapters queued them, each at most once.
THEOREM WriterGetsFifo == Spec => WriterFifo
<1>1. Init => WriterQueue!Init
  <2> SUFFICES ASSUME Init PROVE ToWriter = <<>> /\ writerGot = <<>>
    BY DEF WriterQueue!Init
  <2>1. <<>> \o <<>> = <<>>
    BY Assoc, EmptySeq
  <2>2. QED
    BY <2>1 DEF Init, ToWriter, Upstream
<1>2. QED
  BY <1>1, WriterStep, PipelineTypeCorrect, PTL DEF Spec, WriterFifo, WriterQueue!Spec

-----------------------------------------------------------------------------
(* What is still there of the events the normalizer let through *)

\* The events of a sequence.
Among(s) == {s[i] : i \in DOMAIN s}

\* The events of two sequences, one after the other.
LEMMA AmongJoin ==
    ASSUME NEW S, NEW s \in Seq(S), NEW t \in Seq(S)
    PROVE  Among(s \o t) = Among(s) \cup Among(t)
<1>1. Among(s \o t) \subseteq Among(s) \cup Among(t)
  BY DEF Among
<1>2. ASSUME NEW i \in DOMAIN s PROVE s[i] \in Among(s \o t)
  <2>1. i \in DOMAIN (s \o t) /\ (s \o t)[i] = s[i]
    OBVIOUS
  <2> QED BY <2>1 DEF Among
<1>3. ASSUME NEW i \in DOMAIN t PROVE t[i] \in Among(s \o t)
  <2>1. i + Len(s) \in DOMAIN (s \o t) /\ (s \o t)[i + Len(s)] = t[i]
    OBVIOUS
  <2> QED BY <2>1 DEF Among
<1> QED BY <1>1, <1>2, <1>3 DEF Among

\* The events of a sequence and one more.
LEMMA AmongAppend ==
    ASSUME NEW S, NEW s \in Seq(S), NEW e \in S
    PROVE  Among(Append(s, e)) = Among(s) \cup {e}
<1>1. <<e>> \in Seq(S) /\ Append(s, e) = s \o <<e>>
  BY AppendOne
<1>2. Among(<<e>>) = {e}
  BY DEF Among
<1>3. Among(s \o <<e>>) = Among(s) \cup Among(<<e>>)
  BY <1>1, AmongJoin
<1> QED BY <1>1, <1>2, <1>3, Zenon

\* The same for the first event and the rest.
LEMMA AmongTaken ==
    ASSUME NEW S, NEW s \in Seq(S), s # <<>>
    PROVE  Head(s) \in Among(s) /\ Among(Tail(s)) \subseteq Among(s)
<1>1. 1 \in DOMAIN s /\ Head(s) = s[1]
  OBVIOUS
<1>2. ASSUME NEW i \in DOMAIN Tail(s) PROVE Tail(s)[i] \in Among(s)
  <2>1. i + 1 \in DOMAIN s /\ Tail(s)[i] = s[i + 1]
    OBVIOUS
  <2> QED BY <2>1 DEF Among
<1> QED BY <1>1, <1>2 DEF Among

\* The events past the normalizer's test that a consumer got or may still get.
Past == UNION {Among(engineGot), Among(engineCh), Among(writerGot), Among(writerCh),
               Among(fanning), Among(normalizedCh), Among(normalizing)}

\* Every event is one that has been read.
ReadInv == \A e \in Past \cup Among(rawCh) : e.n <= read[e.source]

LEMMA PastType == TypeOK => Past \subseteq Event /\ Among(rawCh) \subseteq Event
  BY DEF TypeOK, Past, Among

\* Reading adds to the raw channel at most.
LEMMA PastReceive ==
    ASSUME TypeOK, NEW s \in Sources, NEW key \in Keys \cup {NoKey}, Receive(s, key)
    PROVE  /\ Past' = Past /\ shards' = shards
           /\ read' = [read EXCEPT ![s] = read[s] + 1]
           /\ rawCh' = rawCh \/ rawCh' = Append(rawCh, [source |-> s, key |-> key, n |-> read[s] + 1])
<1>1. /\ Among(engineGot)' = Among(engineGot) /\ Among(engineCh)' = Among(engineCh)
      /\ Among(writerGot)' = Among(writerGot) /\ Among(writerCh)' = Among(writerCh)
      /\ Among(fanning)' = Among(fanning) /\ Among(normalizedCh)' = Among(normalizedCh)
      /\ Among(normalizing)' = Among(normalizing)
  BY DEF Receive, hands, history
<1> QED BY <1>1 DEF Receive, Past

\* Past the normalizer events only move on, towards both consumers, or disappear.
LEMMA PastMoves ==
    ASSUME TypeOK, Forward \/ FanTake \/ FanToWriter \/ FanToEngine \/ EngineTake \/ WriterTake
    PROVE  Past' \subseteq Past /\ UNCHANGED <<read, rawCh, shards>>
<1>0. /\ engineGot \in Seq(Event) /\ engineCh \in Seq(Event) /\ writerGot \in Seq(Event)
      /\ writerCh \in Seq(Event) /\ fanning \in Seq(Event) /\ normalizedCh \in Seq(Event)
      /\ normalizing \in Seq(Event)
  BY DEF TypeOK
<1>1. CASE Forward
  <2>0. Among(normalizedCh \o normalizing) = Among(normalizedCh) \cup Among(normalizing)
    BY <1>0, AmongJoin
  <2>5. Among(<<>>) = {}
    BY DEF Among
  <2>1. /\ Among(normalizedCh') \subseteq Among(normalizedCh) \cup Among(normalizing)
        /\ Among(normalizing') = {}
    BY <1>1, <2>0, <2>5 DEF Forward
  <2> QED BY <1>1, <2>1 DEF Forward, life, history, Past
<1>2. CASE FanTake
  <2>1. /\ Among(normalizedCh') \subseteq Among(normalizedCh)
        /\ Among(fanning') \subseteq Among(normalizedCh)
    BY <1>0, <1>2, AmongTaken DEF FanTake, Among
  <2> QED BY <1>2, <2>1 DEF FanTake, life, history, Past
<1>3. CASE FanToWriter
  <2>0. Among(writerCh \o fanning) = Among(writerCh) \cup Among(fanning)
    BY <1>0, AmongJoin
  <2>1. Among(writerCh') \subseteq Among(writerCh) \cup Among(fanning)
    BY <1>3, <2>0 DEF FanToWriter
  <2> QED BY <1>3, <2>1 DEF FanToWriter, life, history, Past
<1>4. CASE FanToEngine
  <2>0. Among(engineCh \o fanning) = Among(engineCh) \cup Among(fanning)
    BY <1>0, AmongJoin
  <2>1. /\ Among(engineCh') \subseteq Among(engineCh) \cup Among(fanning)
        /\ Among(fanning') = {}
    BY <1>4, <2>0 DEF FanToEngine, Among
  <2> QED BY <1>4, <2>1 DEF FanToEngine, life, history, Past
<1>5. CASE EngineTake
  <2>1. Head(engineCh) \in Event /\ engineCh # <<>>
    BY <1>0, <1>5 DEF EngineTake
  <2>3. Head(engineCh) \in Among(engineCh) /\ Among(Tail(engineCh)) \subseteq Among(engineCh)
    BY <1>0, <2>1, AmongTaken
  <2>4. Among(Append(engineGot, Head(engineCh))) = Among(engineGot) \cup {Head(engineCh)}
    BY <1>0, <2>1, AmongAppend
  <2>2. /\ Among(engineCh') \subseteq Among(engineCh)
        /\ Among(engineGot') \subseteq Among(engineGot) \cup Among(engineCh)
    BY <1>0, <1>5, <2>1, <2>3, <2>4 DEF EngineTake
  <2> QED BY <1>5, <2>2 DEF EngineTake, hands, life, Past
<1>6. CASE WriterTake
  <2>1. Head(writerCh) \in Event /\ writerCh # <<>>
    BY <1>0, <1>6 DEF WriterTake
  <2>3. Head(writerCh) \in Among(writerCh) /\ Among(Tail(writerCh)) \subseteq Among(writerCh)
    BY <1>0, <2>1, AmongTaken
  <2>4. Among(Append(writerGot, Head(writerCh))) = Among(writerGot) \cup {Head(writerCh)}
    BY <1>0, <2>1, AmongAppend
  <2>2. /\ Among(writerCh') \subseteq Among(writerCh)
        /\ Among(writerGot') \subseteq Among(writerGot) \cup Among(writerCh)
    BY <1>0, <1>6, <2>1, <2>3, <2>4 DEF WriterTake
  <2> QED BY <1>6, <2>2 DEF WriterTake, hands, life, Past
<1> QED BY <1>1, <1>2, <1>3, <1>4, <1>5, <1>6

\* The normalizer takes the first raw event; one it lets through becomes past.
LEMMA PastNormalize ==
    ASSUME TypeOK, Normalize
    PROVE  /\ rawCh # <<>> /\ Head(rawCh) \in Event /\ Head(rawCh) \in Among(rawCh)
           /\ rawCh' = Tail(rawCh) /\ Among(rawCh') \subseteq Among(rawCh) /\ read' = read
           /\ \/ Past' = Past /\ shards' = shards
              \/ /\ ~Duplicate(Head(rawCh)) /\ Past' = Past \cup {Head(rawCh)}
                 /\ shards' = IF Head(rawCh).key = NoKey THEN shards
                              ELSE [shards EXCEPT ![Head(rawCh).source] = Remember(@, Head(rawCh).key)]
<1> DEFINE evt == Head(rawCh)
<1>1. /\ rawCh # <<>> /\ rawCh \in Seq(Event) /\ rawCh' = Tail(rawCh) /\ read' = read
      /\ normalizing = <<>>
  BY DEF TypeOK, Normalize
<1>2. evt \in Event /\ evt \in Among(rawCh) /\ Among(rawCh') \subseteq Among(rawCh)
  BY <1>1, AmongTaken
<1>3. /\ Among(engineGot)' = Among(engineGot) /\ Among(engineCh)' = Among(engineCh)
      /\ Among(writerGot)' = Among(writerGot) /\ Among(writerCh)' = Among(writerCh)
      /\ Among(fanning)' = Among(fanning) /\ Among(normalizedCh)' = Among(normalizedCh)
      /\ Among(normalizing) = {}
  BY <1>1 DEF Normalize, Among
<1>4. CASE UNCHANGED <<shards, normalizing>>
  BY <1>1, <1>2, <1>3, <1>4 DEF Past
<1>5. CASE /\ ~Duplicate(evt) /\ normalizing' = <<evt>>
           /\ shards' = IF evt.key = NoKey THEN shards
                        ELSE [shards EXCEPT ![evt.source] = Remember(@, evt.key)]
  <2>1. Among(normalizing') = {evt}
    BY <1>2, <1>5 DEF Among
  <2>2. Past' = Past \cup {evt}
    BY <1>3, <2>1 DEF Past
  <2> QED BY <1>1, <1>2, <1>5, <2>2
<1> QED BY <1>4, <1>5 DEF Normalize

\* The rest leaves the events where they are.
LEMMA PastStays ==
    ASSUME Cancel \/ (\E w \in Sources \cup Workers : Stop(w)) \/ UNCHANGED vars
    PROVE  Past' = Past /\ UNCHANGED <<read, rawCh, shards>>
  BY DEF Cancel, Stop, vars, queues, hands, life, history, Past

LEMMA ReadStep == TypeOK /\ ReadInv /\ [Next]_vars => ReadInv'
<1> SUFFICES ASSUME TypeOK, ReadInv, [Next]_vars PROVE ReadInv'
  OBVIOUS
<1>1. Past \subseteq Event /\ Among(rawCh) \subseteq Event /\ read \in [Sources -> 0..MaxMessages]
      /\ rawCh \in Seq(Event) /\ MaxMessages \in Nat
  BY PastType, PipelineAssumption DEF TypeOK
<1>2. ASSUME NEW s \in Sources, NEW key \in Keys \cup {NoKey}, Receive(s, key) PROVE ReadInv'
  <2> DEFINE evt == [source |-> s, key |-> key, n |-> read[s] + 1]
  <2>1. evt \in Event /\ evt.n = read[s] + 1 /\ evt.source = s
    BY <1>2, ReadNext DEF Event
  <2>2. Past' = Past /\ read' = [read EXCEPT ![s] = read[s] + 1] /\ (rawCh' = rawCh \/ rawCh' = Append(rawCh, evt))
    BY <1>2, PastReceive
  <2> HIDE DEF evt
  <2>3. Among(rawCh') \subseteq Among(rawCh) \cup {evt}
    <3>1. Among(Append(rawCh, evt)) = Among(rawCh) \cup {evt}
      BY <1>1, <2>1, AmongAppend
    <3> QED BY <2>2, <3>1
  <2>4. \A e \in Event : read[e.source] <= read'[e.source]
    BY <1>1, <2>2 DEF Event
  <2>5. read'[evt.source] = evt.n
    BY <1>1, <2>1, <2>2
  <2>6. ASSUME NEW e \in Past \cup Among(rawCh) PROVE e.n <= read'[e.source]
    <3>1. e \in Event /\ e.n <= read[e.source] /\ read[e.source] <= read'[e.source]
      BY <1>1, <2>4 DEF ReadInv
    <3>2. read[e.source] \in Nat /\ read'[e.source] \in Nat /\ e.n \in Nat
      BY <1>1, <2>2, <3>1 DEF Event
    <3> QED BY <3>1, <3>2
  <2> QED BY <2>1, <2>2, <2>3, <2>5, <2>6 DEF ReadInv, Event
<1>3. CASE Normalize
  <2>1. Past' \cup Among(rawCh') \subseteq Past \cup Among(rawCh) /\ read' = read
    BY <1>3, PastNormalize
  <2> QED BY <2>1 DEF ReadInv
<1>4. CASE Forward \/ FanTake \/ FanToWriter \/ FanToEngine \/ EngineTake \/ WriterTake
  BY <1>4, PastMoves DEF ReadInv
<1>5. CASE Cancel \/ (\E w \in Sources \cup Workers : Stop(w)) \/ UNCHANGED vars
  BY <1>5, PastStays DEF ReadInv
<1> QED BY <1>2, <1>3, <1>4, <1>5 DEF Next

-----------------------------------------------------------------------------
(* The order of the events of a source *)

\* The messages of a source stand in the order they were read in, and those of
\* one sequence come before those of another.
Sorted(s) == \A i, j \in DOMAIN s : i < j /\ s[i].source = s[j].source => s[i].n < s[j].n
Before(s, t) == \A e \in Among(s), f \in Among(t) : e.source = f.source => e.n < f.n
InOrder(got, transit) == Sorted(got) /\ Sorted(transit) /\ Before(got, transit)

OrderInv == InOrder(engineGot, ToEngine) /\ InOrder(writerGot, ToWriter)

\* The order survives the loss of an event.
LEMMA SortedLoses ==
    ASSUME NEW c \in Seq(Event), Sorted(c), NEW d, Loses(c, d)
    PROVE  Sorted(d) /\ Among(d) \subseteq Among(c)
<1>1. PICK i \in DOMAIN c : d = SubSeq(c, 1, i - 1) \o SubSeq(c, i + 1, Len(c))
  BY DEF Loses
<1> DEFINE n == Len(c)
           old(j) == IF j < i THEN j ELSE j + 1
<1>2. n \in Nat /\ i \in 1..n /\ DOMAIN c = 1..n
  OBVIOUS
<1>3. /\ SubSeq(c, 1, i - 1) \in Seq(Event) /\ Len(SubSeq(c, 1, i - 1)) = i - 1
      /\ \A j \in 1..(i - 1) : SubSeq(c, 1, i - 1)[j] = c[j]
  BY <1>2
<1>4. /\ SubSeq(c, i + 1, n) \in Seq(Event) /\ Len(SubSeq(c, i + 1, n)) = n - i
      /\ \A j \in 1..(n - i) : SubSeq(c, i + 1, n)[j] = c[i + j]
  BY <1>2
<1>5. DOMAIN d = 1..(n - 1) /\ \A j \in 1..(n - 1) : d[j] = c[old(j)] /\ old(j) \in DOMAIN c
  <2> DEFINE a == SubSeq(c, 1, i - 1)
             b == SubSeq(c, i + 1, n)
  <2>1. /\ a \in Seq(Event) /\ Len(a) = i - 1 /\ \A j \in 1..(i - 1) : a[j] = c[j]
        /\ b \in Seq(Event) /\ Len(b) = n - i /\ \A j \in 1..(n - i) : b[j] = c[i + j]
    BY <1>3, <1>4
  <2>2. d = a \o b
    BY <1>1
  <2> HIDE DEF a, b, n
  <2>3. /\ DOMAIN d = 1..(n - 1)
        /\ \A j \in 1..(n - 1) : d[j] = IF j <= i - 1 THEN a[j] ELSE b[j - (i - 1)]
    BY <1>2, <2>1, <2>2
  <2>4. ASSUME NEW j \in 1..(n - 1) PROVE d[j] = c[old(j)] /\ old(j) \in 1..n
    <3>1. CASE j < i
      BY <1>2, <2>1, <2>3, <3>1
    <3>2. CASE j >= i
      <4>1. j - (i - 1) \in 1..(n - i) /\ i + (j - (i - 1)) = j + 1 /\ ~(j <= i - 1)
        BY <1>2, <3>2
      <4>2. d[j] = b[j - (i - 1)] /\ b[j - (i - 1)] = c[i + (j - (i - 1))]
        BY <2>1, <2>3, <4>1
      <4> QED BY <1>2, <3>2, <4>1, <4>2
    <3> QED BY <1>2, <3>1, <3>2
  <2> QED BY <1>2, <2>3, <2>4
<1>6. \A j, k \in 1..(n - 1) : j < k => old(j) < old(k)
  BY <1>2
<1> HIDE DEF n, old
<1>7. Sorted(d)
  BY <1>5, <1>6 DEF Sorted
<1>8. Among(d) \subseteq Among(c)
  BY <1>5 DEF Among
<1> QED BY <1>7, <1>8

\* An event read after all of them goes to the end.
LEMMA SortedAppend ==
    ASSUME NEW s \in Seq(Event), Sorted(s), NEW e \in Event,
           \A f \in Among(s) : f.source = e.source => f.n < e.n
    PROVE  Sorted(Append(s, e))
<1> DEFINE t == Append(s, e)
<1>1. DOMAIN t = 1..(Len(s) + 1) /\ Len(s) \in Nat /\ DOMAIN s = 1..Len(s)
      /\ t[Len(s) + 1] = e /\ \A i \in 1..Len(s) : t[i] = s[i] /\ s[i] \in Among(s)
  BY DEF Among
<1> HIDE DEF t
<1> SUFFICES ASSUME NEW i \in DOMAIN t, NEW j \in DOMAIN t, i < j, t[i].source = t[j].source
             PROVE  t[i].n < t[j].n
  BY DEF Sorted, t
<1>2. i \in 1..Len(s)
  BY <1>1
<1>3. CASE j \in 1..Len(s)
  BY <1>1, <1>2, <1>3 DEF Sorted
<1>4. CASE j = Len(s) + 1
  BY <1>1, <1>2, <1>4
<1> QED BY <1>1, <1>3, <1>4

\* The end of a sequence in order is in order.
LEMMA SortedSuffix ==
    ASSUME NEW a \in Seq(Event), NEW b \in Seq(Event), Sorted(a \o b)
    PROVE  Sorted(b)
<1> DEFINE c == a \o b
<1>1. \A i \in DOMAIN b : Len(a) + i \in DOMAIN c /\ c[Len(a) + i] = b[i]
  OBVIOUS
<1>2. Len(a) \in Nat /\ DOMAIN b = 1..Len(b)
  OBVIOUS
<1> HIDE DEF c
<1>3. Sorted(c)
  BY DEF c
<1> QED BY <1>1, <1>2, <1>3 DEF Sorted

\* Nothing changes the order of what is in transit, for every read number that
\* bounds those given away so far.
LEMMA OrderMoves ==
    ASSUME NEW got \in Seq(Event), NEW c \in Seq(Event), NEW d, InOrder(got, c), Moves(c, d),
           \A e \in Among(got) \cup Among(c) : e.n <= read[e.source],
           read \in [Sources -> Nat]
    PROVE  InOrder(got, d)
<1>1. CASE \E e \in Fresh : d = Append(c, e)
  <2>1. PICK e \in Fresh : d = Append(c, e)
    BY <1>1
  <2>2. e \in Event /\ e.n = read[e.source] + 1
    BY DEF Fresh
  <2>3. \A f \in Among(got) \cup Among(c) : f.source = e.source => f.n < e.n
    <3> SUFFICES ASSUME NEW f \in Among(got) \cup Among(c), f.source = e.source PROVE f.n < e.n
      OBVIOUS
    <3>1. f \in Event /\ f.n <= read[f.source]
      BY DEF Among
    <3> QED BY <2>2, <3>1 DEF Event
  <2>4. Sorted(d)
    BY <2>1, <2>2, <2>3, SortedAppend DEF InOrder
  <2>5. Among(d) = Among(c) \cup {e}
    BY <2>1, <2>2, AmongAppend
  <2> QED BY <2>3, <2>4, <2>5 DEF InOrder, Before
<1>2. CASE Loses(c, d)
  BY <1>2, SortedLoses DEF InOrder, Before
<1>3. CASE d = c
  BY <1>3
<1> QED BY <1>1, <1>2, <1>3 DEF Moves

\* The first in transit is the next to be got.
LEMMA OrderDelivers ==
    ASSUME NEW got \in Seq(Event), NEW c \in Seq(Event), InOrder(got, c), c # <<>>
    PROVE  InOrder(Append(got, Head(c)), Tail(c))
<1> DEFINE h == Head(c)
           t == Tail(c)
<1>1. /\ h \in Event /\ h \in Among(c) /\ Among(t) \subseteq Among(c) /\ t \in Seq(Event)
      /\ Len(t) \in Nat /\ DOMAIN t = 1..Len(t) /\ h = c[1] /\ 1 \in DOMAIN c
      /\ \A i \in DOMAIN t : i + 1 \in DOMAIN c /\ t[i] = c[i + 1]
  BY AmongTaken
<1> HIDE DEF h, t
<1>2. Sorted(c) /\ Sorted(got) /\ Before(got, c)
  BY DEF InOrder
<1>3. Sorted(Append(got, h))
  BY <1>1, <1>2, SortedAppend DEF Before
<1>4. Sorted(t)
  <2> SUFFICES ASSUME NEW i \in DOMAIN t, NEW j \in DOMAIN t, i < j, t[i].source = t[j].source
               PROVE  t[i].n < t[j].n
    BY DEF Sorted
  <2>1. i + 1 < j + 1 /\ i + 1 \in DOMAIN c /\ j + 1 \in DOMAIN c /\ t[i] = c[i + 1] /\ t[j] = c[j + 1]
    BY <1>1
  <2> QED BY <1>2, <2>1 DEF Sorted
<1>5. \A f \in Among(t) : h.source = f.source => h.n < f.n
  BY <1>1, <1>2 DEF Sorted, Among
<1>6. Among(Append(got, h)) = Among(got) \cup {h}
  BY <1>1, AmongAppend
<1>7. Before(Append(got, h), t)
  BY <1>1, <1>2, <1>5, <1>6 DEF Before
<1> QED BY <1>3, <1>4, <1>7 DEF InOrder, h, t

\* What is in transit is past the normalizer or in the raw channel.
LEMMA TransitAmong ==
    ASSUME TypeOK
    PROVE  /\ ToEngine \in Seq(Event) /\ Among(ToEngine) \subseteq Past \cup Among(rawCh)
           /\ ToWriter \in Seq(Event) /\ Among(ToWriter) \subseteq Past \cup Among(rawCh)
           /\ Sorted(ToEngine) => Sorted(rawCh)
<1>1. /\ engineCh \in Seq(Event) /\ writerCh \in Seq(Event) /\ fanning \in Seq(Event)
      /\ normalizedCh \in Seq(Event) /\ normalizing \in Seq(Event) /\ rawCh \in Seq(Event)
      /\ Held \in Seq(Event)
  BY HeldType DEF TypeOK
<1> DEFINE p == normalizedCh \o normalizing
           e == engineCh \o fanning
           w == writerCh \o Held
<1>2. /\ p \in Seq(Event) /\ Among(p) = Among(normalizedCh) \cup Among(normalizing)
      /\ e \in Seq(Event) /\ Among(e) = Among(engineCh) \cup Among(fanning)
      /\ w \in Seq(Event) /\ Among(w) = Among(writerCh) \cup Among(Held)
  BY <1>1, AmongJoin, ConcatProperties
<1>3. Among(Held) \subseteq Among(fanning)
  BY DEF Held, Among
<1> HIDE DEF p, e, w
<1>9. \A s, t \in Seq(Event) : s \o t \in Seq(Event) /\ Among(s \o t) = Among(s) \cup Among(t)
  BY AmongJoin, ConcatProperties
<1>4. Upstream = p \o rawCh /\ Upstream \in Seq(Event) /\ Among(Upstream) = Among(p) \cup Among(rawCh)
  BY <1>1, <1>2, <1>9, Zenon DEF Upstream, p
<1>5. ToEngine = e \o Upstream /\ ToWriter = w \o Upstream
  BY DEF ToEngine, ToWriter, Held, e, w
<1>6. /\ ToEngine \in Seq(Event) /\ Among(ToEngine) = Among(e) \cup Among(Upstream)
      /\ ToWriter \in Seq(Event) /\ Among(ToWriter) = Among(w) \cup Among(Upstream)
  BY <1>2, <1>4, <1>5, <1>9, Zenon
<1>7. Sorted(ToEngine) => Sorted(Upstream)
  BY <1>2, <1>4, <1>5, SortedSuffix
<1>8. Sorted(Upstream) => Sorted(rawCh)
  BY <1>1, <1>2, <1>4, SortedSuffix
<1> QED BY <1>2, <1>3, <1>4, <1>6, <1>7, <1>8 DEF Past

LEMMA OrderStep == TypeOK /\ TypeOK' /\ ReadInv /\ OrderInv /\ [Next]_vars => OrderInv'
<1> SUFFICES ASSUME TypeOK, TypeOK', ReadInv, OrderInv, [Next]_vars PROVE OrderInv'
  OBVIOUS
<1>1. /\ engineGot \in Seq(Event) /\ writerGot \in Seq(Event) /\ read \in [Sources -> Nat]
      /\ ToEngine \in Seq(Event) /\ ToWriter \in Seq(Event)
      /\ InOrder(engineGot, ToEngine) /\ InOrder(writerGot, ToWriter)
  <2>1. engineGot \in Seq(Event) /\ writerGot \in Seq(Event) /\ read \in [Sources -> Nat]
    BY PipelineAssumption DEF TypeOK
  <2> QED BY <2>1, TransitAmong DEF OrderInv
<1>2. /\ \A e \in Among(engineGot) \cup Among(ToEngine) : e.n <= read[e.source]
      /\ \A e \in Among(writerGot) \cup Among(ToWriter) : e.n <= read[e.source]
  BY TransitAmong DEF ReadInv, Past
<1>3. InOrder(engineGot', ToEngine')
  <2>1. CASE EngineQueue!Deliver
    BY <1>1, <2>1, OrderDelivers DEF EngineQueue!Deliver
  <2>2. CASE engineGot' = engineGot /\ Moves(ToEngine, ToEngine')
    BY <1>1, <1>2, <2>2, OrderMoves
  <2> QED BY <2>1, <2>2, EngineChange
<1>4. InOrder(writerGot', ToWriter')
  <2>1. CASE WriterQueue!Deliver
    BY <1>1, <2>1, OrderDelivers DEF WriterQueue!Deliver
  <2>2. CASE writerGot' = writerGot /\ Moves(ToWriter, ToWriter')
    BY <1>1, <1>2, <2>2, OrderMoves
  <2> QED BY <2>1, <2>2, WriterChange
<1> QED BY <1>3, <1>4 DEF OrderInv, InOrder, Sorted, Before, Among

-----------------------------------------------------------------------------
(* Duplicates *)

\* How many keys the shard remembered after the one in slot i.
Age(sh, i) == IF i < sh.head THEN sh.head - 1 - i ELSE sh.head - 1 - i + MaxEntries

\* More than d messages of its source before any the normalizer has yet to see.
Behind(e, d) ==
    /\ e.n + d <= read[e.source]
    /\ \A f \in Among(rawCh) : f.source = e.source => e.n + d < f.n

\* The key of an event that was let through is in its shard, and as many messages
\* were read since as keys remembered, or MaxEntries were read since.
Windowed(e) ==
    \/ Behind(e, MaxEntries)
    \/ \E i \in Slots : /\ shards[e.source].order[i] = e.key
                        /\ Behind(e, Age(shards[e.source], i))

WindowInv ==
    /\ \A s \in Sources : Ring(shards[s])
    /\ \A e \in Past : e.key # NoKey => Windowed(e)
    /\ \A e, f \in Past :
          f.source = e.source /\ f.key = e.key /\ e.key # NoKey /\ e.n < f.n => e.n + MaxEntries < f.n

\* Remembering a key makes the others one older, and the oldest leaves.
LEMMA AgeGrows ==
    ASSUME NEW sh, Ring(sh), NEW key \in Keys, key \notin sh.seen, NEW i \in Slots
    PROVE  LET new == Remember(sh, key)
           IN  /\ Age(sh, i) \in Nat
               /\ IF i = sh.head THEN new.order[i] = key /\ Age(new, i) = 0 /\ Age(sh, i) + 1 = MaxEntries
                  ELSE new.order[i] = sh.order[i] /\ Age(new, i) = Age(sh, i) + 1
<1> DEFINE new == Remember(sh, key)
<1>1. /\ sh.head \in 0..(MaxEntries - 1) /\ i \in 0..(MaxEntries - 1) /\ MaxEntries \in Nat \ {0}
      /\ sh.order \in [Slots -> Keys \cup {NoKey}]
  BY DedupAssumption DEF Ring, Shard, Slots
<1>2. /\ new.order = [sh.order EXCEPT ![sh.head] = key]
      /\ new.head = IF sh.head + 1 < MaxEntries THEN sh.head + 1 ELSE 0
  BY RememberFields
<1> HIDE DEF new
<1>3. /\ Age(sh, i) \in Nat
      /\ IF i = sh.head THEN Age(new, i) = 0 /\ Age(sh, i) + 1 = MaxEntries
                        ELSE Age(new, i) = Age(sh, i) + 1
  BY <1>1, <1>2 DEF Age
<1>4. new.order[i] = IF i = sh.head THEN key ELSE sh.order[i]
  BY <1>1, <1>2
<1> QED BY <1>3, <1>4 DEF new

LEMMA WindowInit == Init => ReadInv /\ OrderInv /\ WindowInv
<1> SUFFICES ASSUME Init PROVE ReadInv /\ OrderInv /\ WindowInv
  OBVIOUS
<1>1. Among(<<>>) = {} /\ <<>> \o <<>> = <<>>
  BY Assoc, EmptySeq DEF Among
<1>2. Past = {} /\ Among(rawCh) = {}
  BY <1>1 DEF Init, Past
<1>3. ToEngine = <<>> /\ ToWriter = <<>> /\ engineGot = <<>> /\ writerGot = <<>>
  BY <1>1 DEF Init, ToEngine, ToWriter, Upstream
<1>4. OrderInv
  BY <1>1, <1>3 DEF OrderInv, InOrder, Sorted, Before
<1>5. \A s \in Sources : Ring(shards[s])
  BY RingNew DEF Init
<1> QED BY <1>2, <1>4, <1>5 DEF ReadInv, WindowInv

\* Behind does not read anything else.
LEMMA WindowedKept ==
    ASSUME TypeOK, NEW e \in Event, Windowed(e), shards'[e.source] = shards[e.source],
           read[e.source] <= read'[e.source], read' \in [Sources -> Nat],
           \A f \in Among(rawCh') : f \in Among(rawCh) \/ (f \in Event /\ f.n > read[f.source])
    PROVE  Windowed(e)'
<1>1. ASSUME NEW d \in Nat, Behind(e, d) PROVE Behind(e, d)'
  <2>1. e.n \in Nat /\ read[e.source] \in Nat /\ read'[e.source] \in Nat /\ e.source \in Sources
    BY PipelineAssumption DEF TypeOK, Event
  <2>2. e.n + d <= read[e.source] /\ \A f \in Among(rawCh) : f.source = e.source => e.n + d < f.n
    BY <1>1 DEF Behind
  <2>3. e.n + d <= read'[e.source]
    BY <2>1, <2>2
  <2>4. ASSUME NEW f \in Among(rawCh'), f.source = e.source PROVE e.n + d < f.n
    <3>1. CASE f \in Among(rawCh)
      BY <2>2, <2>4, <3>1
    <3>2. CASE f \in Event /\ f.n > read[f.source]
      <4>1. f.n \in Nat /\ f.n > read[e.source]
        BY <2>4, <3>2 DEF Event
      <4> QED BY <2>1, <2>2, <4>1
    <3> QED BY <3>1, <3>2
  <2> QED BY <2>3, <2>4 DEF Behind, Among
<1>2. CASE Behind(e, MaxEntries)
  BY <1>1, <1>2, DedupAssumption DEF Windowed
<1>3. CASE ~Behind(e, MaxEntries)
  <2>1. PICK i \in Slots : /\ shards[e.source].order[i] = e.key
                           /\ Behind(e, Age(shards[e.source], i))
    BY <1>3 DEF Windowed
  <2>2. Age(shards[e.source], i) \in Nat
    <3>1. shards[e.source].head \in 0..(MaxEntries - 1) /\ i \in 0..(MaxEntries - 1) /\ MaxEntries \in Nat
      BY DedupAssumption DEF TypeOK, Event, Shard, Slots
    <3> QED BY <3>1 DEF Age
  <2>3. PICK d \in Nat : d = Age(shards[e.source], i)
    BY <2>2
  <2>4. Behind(e, d)' /\ d = Age(shards'[e.source], i)
    BY <1>1, <2>1, <2>3
  <2>5. shards'[e.source].order[i] = e.key /\ Behind(e, Age(shards[e.source], i))'
    BY <2>1, <2>4 DEF Behind, Age
  <2> QED BY <2>5 DEF Windowed
<1> QED BY <1>2, <1>3

\* An event the normalizer lets through is added to the window of its source.
LEMMA WindowAccept ==
    ASSUME TypeOK, ReadInv, OrderInv, WindowInv, rawCh # <<>>, NEW evt, evt = Head(rawCh),
           ~Duplicate(evt), rawCh' = Tail(rawCh), read' = read, Past' = Past \cup {evt},
           shards' = IF evt.key = NoKey THEN shards
                     ELSE [shards EXCEPT ![evt.source] = Remember(@, evt.key)]
    PROVE  WindowInv'
<1> DEFINE s == evt.source
           sh == shards[s]
<1>1. /\ evt \in Event /\ evt \in Among(rawCh) /\ Among(rawCh') \subseteq Among(rawCh)
      /\ Past \subseteq Event /\ Among(rawCh) \subseteq Event /\ rawCh \in Seq(Event)
  BY AmongTaken, PastType DEF TypeOK
<1>2. /\ s \in Sources /\ evt.n \in Nat /\ evt.key \in Keys \cup {NoKey} /\ NoKey \notin Keys
      /\ MaxEntries \in Nat \ {0} /\ read \in [Sources -> Nat]
  <2>1. read \in [Sources -> Nat]
    BY PipelineAssumption DEF TypeOK
  <2> QED BY <1>1, <2>1, DedupAssumption DEF Event
<1>3. /\ evt.n <= read[s]
      /\ \A f \in Among(rawCh') : f.source = s => evt.n < f.n
  <2>1. Sorted(rawCh)
    BY TransitAmong DEF OrderInv, InOrder
  <2>2. \A i \in DOMAIN rawCh' : i + 1 \in DOMAIN rawCh /\ rawCh'[i] = rawCh[i + 1] /\ 1 < i + 1
    BY <1>1
  <2>3. 1 \in DOMAIN rawCh /\ evt = rawCh[1]
    BY <1>1
  <2>4. \A f \in Among(rawCh') : f.source = s => evt.n < f.n
    BY <2>1, <2>2, <2>3 DEF Sorted, Among
  <2> QED BY <1>1, <2>4 DEF ReadInv
<1>4. ASSUME NEW e \in Past, e.source = s, NEW d \in Nat, Behind(e, d)
      PROVE  e.n + d < evt.n /\ Behind(e, d)' /\ Behind(e, d + 1)'
  <2>1. e.n + d < evt.n
    BY <1>1, <1>4 DEF Behind
  <2>2. e.n \in Nat /\ read'[e.source] = read[s] /\ read[s] \in Nat
    BY <1>1, <1>2, <1>4 DEF Event
  <2>3. e.n + (d + 1) <= read[s] /\ e.n + d <= read[s]
    BY <1>2, <1>3, <2>1, <2>2
  <2>4. \A f \in Among(rawCh') : f.source = e.source => e.n + (d + 1) < f.n /\ e.n + d < f.n
    <3> SUFFICES ASSUME NEW f \in Among(rawCh'), f.source = s
                 PROVE  e.n + (d + 1) < f.n /\ e.n + d < f.n
      BY <1>4
    <3>1. f.n \in Nat /\ evt.n < f.n
      BY <1>1, <1>3 DEF Event
    <3> QED BY <1>2, <2>1, <2>2, <3>1
  <2> QED BY <1>4, <2>1, <2>2, <2>3, <2>4 DEF Behind, Among
<1>5. ASSUME evt.key = NoKey PROVE WindowInv'
  <2>1. shards' = shards
    BY <1>5
  <2>2. ASSUME NEW e \in Past, e.key # NoKey PROVE Windowed(e)'
    <3>1. e \in Event /\ Windowed(e)
      BY <1>1, <2>2 DEF WindowInv
    <3>2. e.source \in Sources /\ read[e.source] \in Nat /\ read' \in [Sources -> Nat]
      BY <1>2, <3>1 DEF Event
    <3>3. read[e.source] <= read'[e.source] /\ shards'[e.source] = shards[e.source]
      BY <2>1, <3>2
    <3>4. \A f \in Among(rawCh') : f \in Among(rawCh) \/ (f \in Event /\ f.n > read[f.source])
      BY <1>1
    <3> QED BY <3>1, <3>2, <3>3, <3>4, WindowedKept
  <2> QED BY <1>5, <2>1, <2>2 DEF WindowInv
<1>6. ASSUME evt.key # NoKey PROVE WindowInv'
  <2> DEFINE new == Remember(sh, evt.key)
  <2>1. shards' = [shards EXCEPT ![s] = new] /\ shards'[s] = new
    BY <1>2, <1>6 DEF TypeOK
  <2>2. Ring(sh) /\ evt.key \in Keys /\ evt.key \notin sh.seen
    BY <1>2, <1>6 DEF WindowInv, Duplicate, IsDuplicate
  <2>3. \A i \in Slots : sh.order[i] # evt.key
    BY <1>6, <2>2 DEF Ring, RingMatches
  <2>4. \A t \in Sources : Ring(shards'[t])
    <3>1. Ring(new)
      BY <2>2, RingStep
    <3> HIDE DEF new
    <3>2. \A t \in Sources : t # s => shards'[t] = shards[t]
      BY <2>1 DEF TypeOK
    <3> QED BY <2>1, <3>1, <3>2 DEF WindowInv
  <2>5. \A i \in Slots :
           /\ Age(sh, i) \in Nat
           /\ IF i = sh.head THEN new.order[i] = evt.key /\ Age(new, i) = 0 /\ Age(sh, i) + 1 = MaxEntries
              ELSE new.order[i] = sh.order[i] /\ Age(new, i) = Age(sh, i) + 1
    BY <2>2, AgeGrows
  <2> HIDE DEF sh, new
  <2>6. Windowed(evt)'
    <3>1. sh.head \in Slots
      BY <2>2 DEF Ring, Shard
    <3>2. shards'[evt.source].order[sh.head] = evt.key /\ Age(shards'[evt.source], sh.head) = 0
      BY <2>1, <2>5, <3>1
    <3>3. Behind(evt, 0)'
      <4>1. \A f \in Among(rawCh') : f.source = evt.source => evt.n + 0 < f.n
        BY <1>1, <1>2, <1>3 DEF Event
      <4> QED BY <1>2, <1>3, <4>1 DEF Behind, Among
    <3>4. PICK i \in Slots : i = sh.head
      BY <3>1
    <3>5. shards'[evt.source].order[i] = evt.key /\ Age(shards'[evt.source], i) = 0
      BY <3>2, <3>4
    <3>6. shards'[evt.source].order[i] = evt.key /\ Behind(evt, Age(shards[evt.source], i))'
      BY <3>3, <3>5 DEF Behind, Age
    <3> QED BY <3>6 DEF Windowed
  <2>7. ASSUME NEW e \in Past, e.key # NoKey PROVE Windowed(e)'
    <3>1. e \in Event /\ Windowed(e)
      BY <1>1, <2>7 DEF WindowInv
    <3>2. CASE e.source # s
      <4>1. shards'[e.source] = shards[e.source]
        BY <2>1, <3>1, <3>2 DEF TypeOK, Event
      <4>2. e.source \in Sources /\ read[e.source] \in Nat /\ read' \in [Sources -> Nat]
        BY <1>2, <3>1 DEF Event
      <4>3. read[e.source] <= read'[e.source]
        BY <4>2
      <4>4. \A f \in Among(rawCh') : f \in Among(rawCh) \/ (f \in Event /\ f.n > read[f.source])
        BY <1>1
      <4> QED BY <3>1, <4>1, <4>2, <4>3, <4>4, WindowedKept
    <3>3. CASE e.source = s /\ Behind(e, MaxEntries)
      BY <1>2, <1>4, <3>3 DEF Windowed
    <3>4. CASE e.source = s /\ ~Behind(e, MaxEntries)
      <4>1. PICK i \in Slots : sh.order[i] = e.key /\ Behind(e, Age(sh, i))
        BY <3>1, <3>4 DEF Windowed, sh
      <4>2. PICK d \in Nat : d = Age(sh, i)
        BY <2>5
      <4>3. PICK k \in Nat : k = d + 1
        OBVIOUS
      <4>4. Behind(e, k)'
        BY <1>4, <3>4, <4>1, <4>2, <4>3
      <4>5. CASE i = sh.head
        <5>1. k = MaxEntries
          BY <2>5, <4>2, <4>3, <4>5
        <5> QED BY <4>4, <5>1 DEF Windowed, Behind
      <4>6. CASE i # sh.head
        <5>1. shards'[e.source].order[i] = e.key /\ Age(shards'[e.source], i) = k
          BY <2>1, <2>5, <3>4, <4>1, <4>2, <4>3, <4>6
        <5>2. Behind(e, Age(shards[e.source], i))'
          BY <4>4, <5>1 DEF Behind, Age
        <5> QED BY <5>1, <5>2 DEF Windowed
      <4> QED BY <4>5, <4>6
    <3> QED BY <3>2, <3>3, <3>4
  <2>8. ASSUME NEW e \in Past, e.source = s, e.key = evt.key PROVE e.n + MaxEntries < evt.n
    <3>1. Behind(e, MaxEntries)
      BY <1>6, <2>3, <2>8 DEF WindowInv, Windowed, sh
    <3> QED BY <1>2, <1>4, <2>8, <3>1
  <2>9. ASSUME NEW e \in Past, e.source = s, e.key = evt.key PROVE ~(evt.n < e.n)
    <3>1. e.n + MaxEntries < evt.n /\ e.n \in Nat
      BY <1>1, <2>8, <2>9 DEF Event
    <3> QED BY <1>2, <3>1
  <2>10. ~(evt.n < evt.n)
    BY <1>2
  <2> QED BY <2>4, <2>6, <2>7, <2>8, <2>9, <2>10 DEF WindowInv
<1> QED BY <1>5, <1>6

LEMMA WindowStep ==
    TypeOK /\ ReadInv /\ OrderInv /\ WindowInv /\ TypeOK' /\ [Next]_vars => WindowInv'
<1> SUFFICES ASSUME TypeOK, ReadInv, OrderInv, WindowInv, TypeOK', [Next]_vars PROVE WindowInv'
  OBVIOUS
<1>1. Past \subseteq Event /\ Among(rawCh) \subseteq Event /\ rawCh \in Seq(Event)
      /\ read \in [Sources -> Nat] /\ read' \in [Sources -> Nat]
  <2>1. read \in [Sources -> Nat] /\ read' \in [Sources -> Nat]
    <3>1. 0..MaxMessages \subseteq Nat
      BY PipelineAssumption
    <3>2. read \in [Sources -> 0..MaxMessages] /\ read' \in [Sources -> 0..MaxMessages]
      BY DEF TypeOK
    <3> QED BY <3>1, <3>2
  <2> QED BY <2>1, PastType DEF TypeOK
<1>2. ASSUME shards' = shards, Past' \subseteq Past,
             \A s \in Sources : read[s] <= read'[s],
             \A f \in Among(rawCh') : f \in Among(rawCh) \/ (f \in Event /\ f.n > read[f.source])
      PROVE  WindowInv'
  <2>1. ASSUME NEW e \in Past, e.key # NoKey PROVE Windowed(e)'
    <3>1. e \in Event /\ Windowed(e) /\ e.source \in Sources
      BY <1>1, <2>1 DEF WindowInv, Event
    <3>2. read[e.source] <= read'[e.source] /\ shards'[e.source] = shards[e.source]
      BY <1>2, <3>1
    <3> QED BY <1>1, <1>2, <3>1, <3>2, WindowedKept
  <2> QED BY <1>2, <2>1 DEF WindowInv
<1>3. \A s \in Sources : read[s] \in Nat /\ read[s] <= read[s]
  BY <1>1
<1>4. ASSUME NEW s \in Sources, NEW key \in Keys \cup {NoKey}, Receive(s, key) PROVE WindowInv'
  <2> DEFINE evt == [source |-> s, key |-> key, n |-> read[s] + 1]
  <2>1. evt \in Event /\ evt.n = read[s] + 1 /\ evt.source = s
    BY <1>4, ReadNext DEF Event
  <2>2. /\ Past' = Past /\ shards' = shards /\ read' = [read EXCEPT ![s] = read[s] + 1]
        /\ rawCh' = rawCh \/ rawCh' = Append(rawCh, evt)
    BY <1>4, PastReceive
  <2> HIDE DEF evt
  <2>3. Among(rawCh') \subseteq Among(rawCh) \cup {evt}
    <3>1. Among(Append(rawCh, evt)) = Among(rawCh) \cup {evt}
      BY <1>1, <2>1, AmongAppend
    <3> QED BY <2>2, <3>1
  <2>4. evt.n > read[evt.source]
    BY <1>3, <2>1
  <2>5. \A t \in Sources : read[t] <= read'[t]
    BY <1>1, <1>3, <2>2
  <2> QED BY <1>2, <2>1, <2>2, <2>3, <2>4, <2>5
<1>5. CASE Normalize
  <2>1. /\ rawCh # <<>> /\ rawCh' = Tail(rawCh) /\ read' = read /\ Among(rawCh') \subseteq Among(rawCh)
        /\ \/ Past' = Past /\ shards' = shards
           \/ /\ ~Duplicate(Head(rawCh)) /\ Past' = Past \cup {Head(rawCh)}
              /\ shards' = IF Head(rawCh).key = NoKey THEN shards
                           ELSE [shards EXCEPT ![Head(rawCh).source] = Remember(@, Head(rawCh).key)]
    BY <1>5, PastNormalize
  <2>2. CASE Past' = Past /\ shards' = shards
    BY <1>2, <1>3, <2>1, <2>2
  <2>3. CASE ~(Past' = Past /\ shards' = shards)
    BY <2>1, <2>3, WindowAccept
  <2> QED BY <2>2, <2>3
<1>6. CASE Forward \/ FanTake \/ FanToWriter \/ FanToEngine \/ EngineTake \/ WriterTake
  <2>1. Past' \subseteq Past /\ read' = read /\ rawCh' = rawCh /\ shards' = shards
    BY <1>6, PastMoves
  <2> QED BY <1>2, <1>3, <2>1
<1>7. CASE Cancel \/ (\E w \in Sources \cup Workers : Stop(w)) \/ UNCHANGED vars
  <2>1. Past' = Past /\ read' = read /\ rawCh' = rawCh /\ shards' = shards
    BY <1>7, PastStays
  <2> QED BY <1>2, <1>3, <2>1
<1> QED BY <1>4, <1>5, <1>6, <1>7 DEF Next

\* A consumer never gets a trade id again before MaxEntries other messages of its
\* source have been read, for any number of sources, any size of the shards and
\* whatever is dropped on the way.
THEOREM PipelineDuplicatesApart == Spec => []DuplicatesApart
<1>1. TypeOK /\ OrderInv /\ WindowInv => DuplicatesApart
  <2> SUFFICES ASSUME TypeOK, OrderInv, WindowInv,
                      NEW got \in {engineGot, writerGot}
               PROVE  Apart(got)
    BY DEF DuplicatesApart
  <2>1. Sorted(got) /\ Among(got) \subseteq Past /\ Past \subseteq Event
    BY PastType DEF OrderInv, InOrder, Past
  <2>2. ASSUME NEW i \in DOMAIN got, NEW j \in DOMAIN got,
               i < j, got[i].source = got[j].source, got[i].key = got[j].key, got[i].key # NoKey
        PROVE  got[j].n - got[i].n > MaxEntries
    <3>1. got[i] \in Past /\ got[j] \in Past /\ got[i].n \in Nat /\ got[j].n \in Nat
      BY <2>1 DEF Among, Event
    <3>2. got[i].n < got[j].n
      BY <2>1, <2>2 DEF Sorted
    <3>3. got[i].n + MaxEntries < got[j].n
      BY <2>2, <3>1, <3>2 DEF WindowInv
    <3> QED BY <3>1, <3>3, DedupAssumption
  <2> QED BY <2>2 DEF Apart
<1> QED BY <1>1, WindowInit, ReadStep, OrderStep, WindowStep, PipelineTypeCorrect, PTL DEF Spec

-----------------------------------------------------------------------------
(* What the drop counters account for *)

Size(q) == Len(q)
Between == Size(normalizedCh) + Size(normalizing)
HeldLen == IF fanStage = "writer" THEN 1 ELSE 0

\* What the balances are sums of.
Numbers ==
    /\ Size(normalizedCh) \in Nat /\ Size(normalizing) \in Nat
    /\ Size(fanning) \in Nat /\ Size(engineCh) \in Nat /\ Size(writerCh) \in Nat
    /\ Size(engineGot) \in Nat /\ Size(writerGot) \in Nat
    /\ drops["normalizer"] \in Nat /\ drops["engine"] \in Nat /\ drops["writer"] \in Nat
    /\ HeldLen \in Nat /\ Between \in Nat /\ accepted \in Nat

LEMMA LengthsAreNumbers == TypeOK => Numbers
<1> SUFFICES ASSUME TypeOK PROVE Numbers
  OBVIOUS
<1>1. \A s \in Seq(Event) : Size(s) \in Nat
  BY LenProperties DEF Size
<1>2. /\ Size(normalizedCh) \in Nat /\ Size(normalizing) \in Nat
      /\ Size(fanning) \in Nat /\ Size(engineCh) \in Nat /\ Size(writerCh) \in Nat
      /\ Size(engineGot) \in Nat /\ Size(writerGot) \in Nat /\ accepted \in Nat
  BY <1>1 DEF TypeOK
<1>3. drops["normalizer"] \in Nat /\ drops["engine"] \in Nat /\ drops["writer"] \in Nat
  BY DEF TypeOK, Channels
<1>4. HeldLen \in Nat
  BY DEF HeldLen
<1>5. Between \in Nat
  BY <1>2 DEF Between
<1> QED BY <1>2, <1>3, <1>4, <1>5 DEF Numbers

\* The balances with the lengths added up, which every step keeps.
Sums ==
    /\ accepted = drops["normalizer"] + drops["engine"]
                  + Size(engineCh) + Size(fanning) + Between + Size(engineGot)
    /\ HasDB => accepted = drops["normalizer"] + drops["writer"]
                           + Size(writerCh) + HeldLen + Between + Size(writerGot)

LEMMA SumsBalance == TypeOK => (Sums <=> Balanced)
<1> SUFFICES ASSUME TypeOK PROVE Sums <=> Balanced
  OBVIOUS
<1>1. Numbers
  BY LengthsAreNumbers
<1>2. /\ AcceptedForEngine = Size(engineCh) + Size(fanning) + Size(normalizedCh) + Size(normalizing)
      /\ AcceptedForWriter = Size(writerCh) + HeldLen + Size(normalizedCh) + Size(normalizing)
      /\ Len(engineGot) = Size(engineGot) /\ Len(writerGot) = Size(writerGot)
  BY DEF AcceptedForEngine, AcceptedForWriter, HeldLen, Size
<1>3. \A a, b, c, d, e, f, g \in Nat :
          a + b + c + d + (e + f) + g = a + b + (c + d + e + f) + g
  OBVIOUS
<1>4. drops["normalizer"] + drops["engine"] + Size(engineCh) + Size(fanning) + Between + Size(engineGot)
        = drops["normalizer"] + drops["engine"] + AcceptedForEngine + Len(engineGot)
  <2>1. drops["normalizer"] + drops["engine"] + Size(engineCh) + Size(fanning)
           + (Size(normalizedCh) + Size(normalizing)) + Size(engineGot)
        = drops["normalizer"] + drops["engine"]
           + (Size(engineCh) + Size(fanning) + Size(normalizedCh) + Size(normalizing)) + Size(engineGot)
    BY <1>1, <1>3 DEF Numbers
  <2> QED BY <1>2, <2>1, Zenon DEF Between
<1>5. drops["normalizer"] + drops["writer"] + Size(writerCh) + HeldLen + Between + Size(writerGot)
        = drops["normalizer"] + drops["writer"] + AcceptedForWriter + Len(writerGot)
  <2>1. drops["normalizer"] + drops["writer"] + Size(writerCh) + HeldLen
           + (Size(normalizedCh) + Size(normalizing)) + Size(writerGot)
        = drops["normalizer"] + drops["writer"]
           + (Size(writerCh) + HeldLen + Size(normalizedCh) + Size(normalizing)) + Size(writerGot)
    BY <1>1, <1>3 DEF Numbers
  <2> QED BY <1>2, <2>1, Zenon DEF Between
<1> QED BY <1>4, <1>5, Zenon DEF Sums, Balanced

LEMMA BalanceInit == Init => Sums
<1>1. Size(<<>>) = 0
  BY DEF Size
<1> QED BY <1>1 DEF Init, Sums, Between, HeldLen, Channels

LEMMA BalanceStep == TypeOK /\ TypeOK' /\ Sums /\ [Next]_vars => Sums'
<1> SUFFICES ASSUME TypeOK, TypeOK', Sums, [Next]_vars PROVE Sums'
  OBVIOUS
<1>1. \A q \in Seq(Event) : \A e \in Event : Size(Append(q, e)) = Size(q) + 1
  BY DEF Size
<1>2. \A q \in Seq(Event) : q # <<>> => Size(Tail(q)) = Size(q) - 1 /\ Size(q) >= 1
  BY DEF Size
<1>3. \A s, t \in Seq(Event) : Size(s \o t) = Size(s) + Size(t)
  BY ConcatProperties DEF Size
<1>4. /\ engineCh \in Seq(Event) /\ fanning \in Seq(Event) /\ normalizedCh \in Seq(Event)
      /\ normalizing \in Seq(Event) /\ writerCh \in Seq(Event)
      /\ engineGot \in Seq(Event) /\ writerGot \in Seq(Event)
      /\ Size(normalizing) <= 1 /\ Size(fanning) = IF fanStage = "idle" THEN 0 ELSE 1
      /\ \A q \in Seq(Event) : q # <<>> => Size(q) # 0
  BY DEF TypeOK, Size
<1>5. drops \in [Channels -> Nat]
  BY DEF TypeOK
<1>6. Numbers /\ Numbers'
  BY LengthsAreNumbers, PTL
<1>7. Size(<<>>) = 0 /\ \A e : Size(<<e>>) = 1
  BY DEF Size
<1>8. \A c \in Channels : IncChannelDrop(c) =>
          drops'[c] = drops[c] + 1 /\ \A d \in Channels \ {c} : drops'[d] = drops[d]
  BY <1>5 DEF IncChannelDrop
<1>9. /\ UNCHANGED <<normalizedCh, normalizing>> => Between' = Between
      /\ fanStage' = fanStage => HeldLen' = HeldLen
  BY DEF Between, HeldLen
<1>10. ASSUME NEW s \in Sources, NEW key \in Keys \cup {NoKey}, Receive(s, key) PROVE Sums'
  <2>1. UNCHANGED <<normalizedCh, normalizing, writerCh, engineCh, fanning, fanStage, drops,
                    accepted, engineGot, writerGot>>
    BY <1>10 DEF Receive, hands, history
  <2> QED BY <1>9, <2>1 DEF Sums
<1>11. CASE Normalize
  <2>1. UNCHANGED <<normalizedCh, writerCh, engineCh, fanning, fanStage, drops, engineGot,
                    writerGot>>
        /\ Size(normalizing) = 0
    BY <1>7, <1>11 DEF Normalize
  <2>2. \/ UNCHANGED <<normalizing, accepted>>
        \/ Size(normalizing') = 1 /\ accepted' = accepted + 1
    BY <1>7, <1>11 DEF Normalize
  <2>3. HeldLen' = HeldLen
    BY <1>9, <2>1
  <2>4. \/ Between' = Between /\ accepted' = accepted
        \/ Between' = Between + 1 /\ accepted' = accepted + 1
    BY <1>6, <2>1, <2>2 DEF Between, Numbers
  <2> QED BY <1>6, <2>1, <2>3, <2>4 DEF Sums, Numbers
<1>12. CASE Forward
  <2>1. Size(normalizing) = 1 /\ Size(normalizing') = 0
    <3>1. Size(normalizing) # 0
      BY <1>4, <1>12 DEF Forward
    <3>2. Size(normalizing) = 1
      <4>1. \A n \in Nat : n <= 1 /\ n # 0 => n = 1
        OBVIOUS
      <4>2. Size(normalizing) \in Nat
        BY <1>6 DEF Numbers
      <4> QED BY <1>4, <3>1, <4>1, <4>2
    <3> QED BY <1>7, <1>12, <3>2 DEF Forward
  <2>2. UNCHANGED <<writerCh, engineCh, fanning, fanStage, accepted, engineGot, writerGot>>
    BY <1>12 DEF Forward, history
  <2>3. \/ Size(normalizedCh') = Size(normalizedCh) + 1 /\ drops' = drops
        \/ normalizedCh' = normalizedCh /\ IncChannelDrop("normalizer")
    BY <1>3, <1>4, <1>12, <2>1 DEF Forward
  <2>4. /\ Between' + drops'["normalizer"] = Between + drops["normalizer"]
        /\ drops'["engine"] = drops["engine"] /\ drops'["writer"] = drops["writer"]
    BY <1>6, <1>8, <2>1, <2>3 DEF Between, Numbers, Channels
  <2> QED BY <1>6, <1>9, <2>2, <2>4 DEF Sums, Numbers
<1>13. CASE FanTake
  <2>1. Size(normalizedCh') = Size(normalizedCh) - 1 /\ Size(normalizedCh) >= 1
        /\ Size(fanning) = 0 /\ Size(fanning') = 1
    BY <1>2, <1>4, <1>7, <1>13 DEF FanTake
  <2>2. UNCHANGED <<writerCh, engineCh, normalizing, drops, accepted, engineGot, writerGot>>
        /\ fanStage = "idle" /\ (HasDB => fanStage' = "writer")
    BY <1>13 DEF FanTake, history
  <2>3. Between' = Between - 1
    BY <1>6, <2>1, <2>2 DEF Between, Numbers
  <2>4. HasDB => HeldLen' = HeldLen + 1
    BY <2>2 DEF HeldLen
  <2> QED BY <1>6, <2>1, <2>2, <2>3, <2>4 DEF Sums, Numbers
<1>14. CASE FanToWriter
  <2>1. UNCHANGED <<normalizedCh, normalizing, fanning, engineCh, accepted, engineGot, writerGot>>
        /\ fanStage = "writer" /\ fanStage' = "engine"
    BY <1>14 DEF FanToWriter, history
  <2>2. \/ Size(writerCh') = Size(writerCh) + 1 /\ drops' = drops
        \/ writerCh' = writerCh /\ IncChannelDrop("writer")
    <3>1. Size(fanning) = 1
      BY <1>4, <2>1
    <3> QED BY <1>3, <1>4, <1>14, <3>1 DEF FanToWriter
  <2>3. HeldLen = 1 /\ HeldLen' = 0 /\ Between' = Between
    BY <1>9, <2>1 DEF HeldLen
  <2>4. /\ Size(writerCh') + drops'["writer"] = Size(writerCh) + drops["writer"] + 1
        /\ drops'["normalizer"] = drops["normalizer"] /\ drops'["engine"] = drops["engine"]
    BY <1>6, <1>8, <2>2 DEF Numbers, Channels
  <2> QED BY <1>6, <2>1, <2>3, <2>4 DEF Sums, Numbers
<1>15. CASE FanToEngine
  <2>1. UNCHANGED <<normalizedCh, normalizing, writerCh, accepted, engineGot, writerGot>>
        /\ fanStage = "engine" /\ fanStage' = "idle" /\ Size(fanning) = 1 /\ Size(fanning') = 0
    BY <1>4, <1>7, <1>15 DEF FanToEngine, history
  <2>2. \/ Size(engineCh') = Size(engineCh) + 1 /\ drops' = drops
        \/ engineCh' = engineCh /\ IncChannelDrop("engine")
    <3>1. Size(engineCh \o fanning) = Size(engineCh) + 1
      BY <1>3, <1>4, <2>1
    <3> QED BY <1>15, <3>1 DEF FanToEngine
  <2>3. HeldLen = 0 /\ HeldLen' = 0 /\ Between' = Between
    BY <1>9, <2>1 DEF HeldLen
  <2>4. /\ Size(engineCh') + drops'["engine"] = Size(engineCh) + drops["engine"] + 1
        /\ drops'["normalizer"] = drops["normalizer"] /\ drops'["writer"] = drops["writer"]
    BY <1>6, <1>8, <2>2 DEF Numbers, Channels
  <2> QED BY <1>6, <2>1, <2>3, <2>4 DEF Sums, Numbers
<1>16. CASE EngineTake
  <2>1. UNCHANGED <<normalizedCh, normalizing, fanning, fanStage, writerCh, drops, accepted,
                    writerGot>>
    BY <1>16 DEF EngineTake, hands
  <2>2. Head(engineCh) \in Event
    BY <1>4, <1>16 DEF EngineTake
  <2>3. Size(engineCh') = Size(engineCh) - 1 /\ Size(engineGot') = Size(engineGot) + 1
    BY <1>1, <1>2, <1>4, <1>16, <2>2 DEF EngineTake
  <2> QED BY <1>6, <1>9, <2>1, <2>3 DEF Sums, Numbers
<1>17. CASE WriterTake
  <2>1. UNCHANGED <<normalizedCh, normalizing, fanning, fanStage, engineCh, drops, accepted,
                    engineGot>>
    BY <1>17 DEF WriterTake, hands
  <2>2. Head(writerCh) \in Event
    BY <1>4, <1>17 DEF WriterTake
  <2>3. Size(writerCh') = Size(writerCh) - 1 /\ Size(writerGot') = Size(writerGot) + 1
    BY <1>1, <1>2, <1>4, <1>17, <2>2 DEF WriterTake
  <2> QED BY <1>6, <1>9, <2>1, <2>3 DEF Sums, Numbers
<1>18. CASE Cancel \/ (\E w \in Sources \cup Workers : Stop(w)) \/ UNCHANGED vars
  <2>1. UNCHANGED <<normalizedCh, normalizing, fanning, fanStage, engineCh, writerCh, drops,
                    accepted, engineGot, writerGot>>
    BY <1>18 DEF Cancel, Stop, vars, queues, hands, history
  <2> QED BY <1>9, <2>1 DEF Sums
<1> QED BY <1>10, <1>11, <1>12, <1>13, <1>14, <1>15, <1>16, <1>17, <1>18 DEF Next

\* What the drop counters of the metrics say is exactly what a consumer does not get of
\* the events past the duplicate test: for the engine and for the writer on their own.
THEOREM PipelineBalanced == Spec => []Balanced
<1>1. TypeOK /\ Sums => Balanced
  BY SumsBalance
<1> QED BY <1>1, BalanceInit, BalanceStep, PipelineTypeCorrect, PTL DEF Spec

=============================================================================
