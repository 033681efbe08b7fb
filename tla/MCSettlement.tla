---------------------------- MODULE MCSettlement -----------------------------
EXTENDS Settlement

\* Two symbols: a healthy snapshot of one, a degraded and a carried one of the other.
MCRows == {[symbol |-> "btc", price |-> 4, stale |-> FALSE, degraded |-> FALSE, count |-> 2],
           [symbol |-> "eth", price |-> 2, stale |-> FALSE, degraded |-> TRUE, count |-> 1],
           [symbol |-> "eth", price |-> 6, stale |-> TRUE, degraded |-> TRUE, count |-> 0]}

\* Two sources, the closest trade of one of them the later of its two; two trades
\* expire together, which takes the pruner several batches.
MCTrades == {[source |-> "binance", symbol |-> "btc", at |-> 0, price |-> 2],
             [source |-> "binance", symbol |-> "btc", at |-> 1, price |-> 4],
             [source |-> "kraken", symbol |-> "btc", at |-> 0, price |-> 8]}
=============================================================================
