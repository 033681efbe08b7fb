----------------------------- MODULE StoreOnce ------------------------------
(***************************************************************************)
(* What a batched writer promises of the items it is given: an item is     *)
(* dropped at the door or waits; one that waits stops waiting only when    *)
(* the table has a row with its key, its own or an earlier one, or when it *)
(* has been reported as failed; the table only grows, and holds nothing    *)
(* that was not accepted.                                                  *)
(***************************************************************************)
CONSTANTS Items, KeyOf    \* KeyOf[i]: the key of item i in the table

VARIABLES waiting, stored, failed, dropped

storeVars == <<waiting, stored, failed, dropped>>

StoreInit == waiting = {} /\ stored = {} /\ failed = {} /\ dropped = {}

Offer(i) ==
    /\ i \notin waiting \cup stored \cup failed \cup dropped
    /\ \/ waiting' = waiting \cup {i} /\ UNCHANGED dropped
       \/ dropped' = dropped \cup {i} /\ UNCHANGED waiting
    /\ UNCHANGED <<stored, failed>>

\* Items are stored, reported and let go of; some may be stored and still wait,
\* when the writer does not know that they are.
Resolve ==
    /\ stored \subseteq stored' /\ stored' \subseteq stored \cup waiting
    /\ failed \subseteq failed' /\ failed' \subseteq failed \cup waiting
    /\ waiting' \subseteq waiting
    /\ \A i \in waiting \ waiting' : i \in failed' \/ (\E j \in stored' : KeyOf[j] = KeyOf[i])
    /\ UNCHANGED dropped

\* The item offered, if any, is the one that is new.
StoreNext ==
    \/ \E i \in (waiting' \cup dropped') \ (waiting \cup dropped) : i \in Items /\ Offer(i)
    \/ Resolve

StoreSpec == StoreInit /\ [][StoreNext]_storeVars
=============================================================================
