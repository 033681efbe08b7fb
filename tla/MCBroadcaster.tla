---------------------------- MODULE MCBroadcaster ----------------------------
EXTENDS Broadcaster

\* The ticks of two symbols share the channels; the snapshots of one go beside them.
MCKeys == {TickKey(s) : s \in Symbols}
          \cup {[type |-> "snapshot_1s", symbol |-> "btc", source |-> NoSource]}

\* Enough ticks of one symbol to replace and reorder them.
MCMaxEvents == [k \in MCKeys |-> IF k = TickKey("btc") THEN 3 ELSE 1]
=============================================================================
