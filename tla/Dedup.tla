------------------------------- MODULE Dedup -------------------------------
(***************************************************************************)
(* isDuplicate on one shard, call after call.  The shard's mutex is held   *)
(* from the first line to the last: a call is one step.                    *)
(***************************************************************************)
EXTENDS DedupShard, Sequences

VARIABLES
    shard,    \* the shard
    verdict   \* the last key asked for and the answer

dedupVars == <<shard, verdict>>

DedupInit == shard = NewShard /\ verdict = [key |-> NoKey, duplicate |-> FALSE]

Hit(key) ==
    /\ IsDuplicate(shard, key)
    /\ verdict' = [key |-> key, duplicate |-> TRUE]
    /\ UNCHANGED shard

Miss(key) ==
    /\ ~IsDuplicate(shard, key)
    /\ verdict' = [key |-> key, duplicate |-> FALSE]
    /\ shard' = Remember(shard, key)

DedupNext == \E key \in Keys : Hit(key) \/ Miss(key)

DedupSpec == DedupInit /\ [][DedupNext]_dedupVars

-----------------------------------------------------------------------------
\* The shard and the answer have their types; the head stays in the ring.
DedupTypeOK ==
    /\ shard \in Shard
    /\ verdict \in [key : Keys \cup {NoKey}, duplicate : BOOLEAN]

Full(sh) == sh.order[sh.head] # NoKey

RingMatches(sh) ==
    /\ sh.seen = {sh.order[i] : i \in Slots} \ {NoKey}
    /\ \A i, j \in Slots : sh.order[i] = sh.order[j] /\ sh.order[i] # NoKey => i = j
    /\ Cardinality(sh.seen) = IF Full(sh) THEN MaxEntries ELSE sh.head

\* The set holds the keys of the ring and no other, none of them twice, so a
\* key that leaves the ring leaves the set and the memory stays bounded: a key
\* left behind would be refused for good and the map would grow.
SetMatchesRing == RingMatches(shard)

\* The slot of the i-th oldest entry of a full ring.
Oldest(sh, i) == IF sh.head + i - 1 < MaxEntries THEN sh.head + i - 1
                                                 ELSE sh.head + i - 1 - MaxEntries

\* The ring read from its oldest entry to its newest.
Remembered(sh) ==
    IF Full(sh) THEN [i \in 1..MaxEntries |-> sh.order[Oldest(sh, i)]]
                ELSE [i \in 1..sh.head |-> sh.order[i - 1]]

Window == INSTANCE DedupWindow WITH window <- Remembered(shard)

\* The shard is a window of the last MaxEntries keys let through.
WindowSpec == Window!Spec
=============================================================================
