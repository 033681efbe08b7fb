----------------------------- MODULE DedupShard -----------------------------
(***************************************************************************)
(* A dedup shard of the normalizer (internal/normalizer/normalizer.go):    *)
(* the trade ids of one source it has let through, in a set for the test   *)
(* and in a ring for the eviction.                                         *)
(***************************************************************************)
EXTENDS Integers, FiniteSets

CONSTANTS
    Keys,        \* the trade ids of a source
    NoKey,       \* the empty string: an empty slot, an event without an id
    MaxEntries   \* shard.maxEntries

ASSUME DedupAssumption == NoKey \notin Keys /\ MaxEntries \in Nat \ {0}

Slots == 0..(MaxEntries - 1)

Shard == [seen : SUBSET Keys, order : [Slots -> Keys \cup {NoKey}], head : Slots]

NewShard == [seen |-> {}, order |-> [i \in Slots |-> NoKey], head |-> 0]

IsDuplicate(shard, key) == key \in shard.seen

\* Mutant: nothing is evicted.
KeepAll(shard) == shard.seen

\* What is left of the set when the key in the slot to be filled has gone.
Evict(shard) ==
    IF Cardinality(shard.seen) >= MaxEntries THEN shard.seen \ {shard.order[shard.head]}
                                             ELSE shard.seen

\* Mutant: the ring is left one slot short.
NextShort(i) == (i + 1) % (IF MaxEntries > 1 THEN MaxEntries - 1 ELSE 1)

NextSlot(i) == (i + 1) % MaxEntries

\* Mutant: the key goes to the ring and not to the set.
RememberInRing(shard, key) ==
    [seen  |-> Evict(shard),
     order |-> [shard.order EXCEPT ![shard.head] = key],
     head  |-> NextSlot(shard.head)]

\* The shard after a key it had not seen.
Remember(shard, key) ==
    [seen  |-> Evict(shard) \cup {key},
     order |-> [shard.order EXCEPT ![shard.head] = key],
     head  |-> NextSlot(shard.head)]
=============================================================================
