---------------------------- MODULE DedupWindow ----------------------------
(***************************************************************************)
(* What a dedup shard promises: a key is a duplicate exactly when it is    *)
(* one of the last MaxEntries keys that were not.                          *)
(***************************************************************************)
EXTENDS Integers, Sequences

CONSTANTS Keys, NoKey, MaxEntries

VARIABLES window, verdict

vars == <<window, verdict>>

InWindow(key) == \E i \in 1..Len(window) : window[i] = key

\* The window without its oldest key when there is no room for another.
Room == IF Len(window) = MaxEntries THEN Tail(window) ELSE window

Init == window = <<>> /\ verdict = [key |-> NoKey, duplicate |-> FALSE]

Refuse(key) ==
    /\ InWindow(key)
    /\ verdict' = [key |-> key, duplicate |-> TRUE]
    /\ UNCHANGED window

Accept(key) ==
    /\ ~InWindow(key)
    /\ verdict' = [key |-> key, duplicate |-> FALSE]
    /\ window' = Append(Room, key)

Next == \E key \in Keys : Refuse(key) \/ Accept(key)

Spec == Init /\ [][Next]_vars
=============================================================================
