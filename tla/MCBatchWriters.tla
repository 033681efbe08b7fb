--------------------------- MODULE MCBatchWriters ---------------------------
EXTENDS BatchWriters

CONSTANT OtherSymbol    \* the snapshot writer of another symbol's engine

\* A snapshot writer gets a batch of two, which is more than its queue holds; the
\* writer of another symbol has one snapshot, of the second one of these seconds.
\* The raw writer, whose table is its own, has to close and return.
MCMaxItems == [w \in Writers |-> IF w = RawWriter THEN 0 ELSE IF w = OtherSymbol THEN 1 ELSE 2]
MCKey == [w \in Writers |-> [i \in 1..MCMaxItems[w] |->
             <<"snapshots_1s", IF w = OtherSymbol THEN i + 1 ELSE i>>]]
=============================================================================
