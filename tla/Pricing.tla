------------------------------- MODULE Pricing -------------------------------
(***************************************************************************)
(* The pricing rules of internal/engine/snapshot.go as pure operators: the *)
(* reference price of each venue at an instant (computeVenueRefs) and the  *)
(* canonical price of a set of references (computeCanonical).              *)
(*                                                                         *)
(* Prices are natural numbers in a unit small enough for both halvings     *)
(* (bid/ask midpoint, then the mean of the two middle prices) to be exact, *)
(* as decimal arithmetic makes them; 0 is decimal.Zero, which a trade may  *)
(* carry: nothing on its way from the exchange refuses it.  Venues are     *)
(* numbered in the alphabetical order of their names, the order the code   *)
(* sorts the references in.                                                *)
(***************************************************************************)
EXTENDS Integers, FiniteSets

CONSTANTS
    Venues,                 \* the price sources, a finite set of naturals
    None,                   \* nil pointer / zero time.Time
    MaxPrice,               \* no price a venue reports is above it
    TradeFreshness,         \* pricing.trade_freshness_window_ms
    QuoteFreshness,         \* pricing.quote_freshness_window_ms
    SingleVenueMode,        \* pricing.mode = "single_venue"
    MinimumHealthySources,  \* pricing.minimum_healthy_sources
    OutlierNum, OutlierDen  \* pricing.outlier_reject_pct / 100 as a fraction

Trade == [price : 0..MaxPrice, ts : Nat]
Quote == [bid : 0..MaxPrice, ask : 0..MaxPrice, ts : Nat]
VenueState == [lastTrade : Trade \cup {None}, lastQuote : Quote \cup {None}]

\* A venue's contribution to a price: domain.VenueRefPrice.
Ref == [price : 0..MaxPrice, basis : {"trade", "midpoint"}, ts : Nat]

ASSUME PricingAssumption ==
    /\ Venues \subseteq Nat /\ IsFiniteSet(Venues)
    /\ None \notin Int /\ None \notin Trade \cup Quote \cup Ref
    /\ MaxPrice \in Nat
    /\ TradeFreshness \in Nat /\ QuoteFreshness \in Nat
    /\ SingleVenueMode \in BOOLEAN /\ MinimumHealthySources \in Nat
    /\ OutlierNum \in Nat /\ OutlierDen \in Nat \ {0}

Refs == [Venues -> Ref \cup {None}]

CanonicalBases == {"single_trade", "single_midpoint", "median_trade", "median_mixed"}

\* The venues a price is computed from, and the prices they contribute.
Sources(refs) == {v \in Venues : refs[v] # None}
RefPrices(refs) == [v \in Sources(refs) |-> refs[v].price]

-----------------------------------------------------------------------------
\* Mutant: an event after atTime is fresh.
FreshFromFuture(ts, atTime, window) == atTime - ts <= window

Fresh(ts, atTime, window) == ts <= atTime /\ atTime - ts <= window

UsableTrade(vs, atTime) ==
    vs.lastTrade # None /\ Fresh(vs.lastTrade.ts, atTime, TradeFreshness)

UsableQuote(vs, atTime) ==
    /\ vs.lastQuote # None /\ Fresh(vs.lastQuote.ts, atTime, QuoteFreshness)
    /\ vs.lastQuote.bid # 0 /\ vs.lastQuote.ask # 0

VenueRef(vs, atTime) ==
    IF UsableTrade(vs, atTime)
    THEN [price |-> vs.lastTrade.price, basis |-> "trade", ts |-> vs.lastTrade.ts]
    ELSE IF UsableQuote(vs, atTime)
    THEN [price |-> (vs.lastQuote.bid + vs.lastQuote.ask) \div 2,
          basis |-> "midpoint", ts |-> vs.lastQuote.ts]
    ELSE None

\* Each venue's reference at atTime, None for the venues excluded.
ComputeVenueRefs(venues, atTime) == [v \in Venues |-> VenueRef(venues[v], atTime)]

-----------------------------------------------------------------------------
\* The k-th element of the prices in ascending order, counted from 1.
KthSmallest(prices, k) ==
    CHOOSE p \in {prices[v] : v \in DOMAIN prices} :
        /\ Cardinality({v \in DOMAIN prices : prices[v] < p}) < k
        /\ Cardinality({v \in DOMAIN prices : prices[v] <= p}) >= k

\* Mutant: of an even number of prices, the upper of the middle two.
ComputeMedianUpper(prices) == KthSmallest(prices, (Cardinality(DOMAIN prices) \div 2) + 1)

ComputeMedian(prices) ==
    LET n == Cardinality(DOMAIN prices)
    IN  IF n % 2 = 1
        THEN KthSmallest(prices, (n \div 2) + 1)
        ELSE (KthSmallest(prices, n \div 2) + KthSmallest(prices, (n \div 2) + 1)) \div 2

Distance(p, q) == IF p < q THEN q - p ELSE p - q

\* Mutant: the deviation is taken from the first venue's price.
RejectOutliersFromFirst(prices) ==
    LET first == prices[CHOOSE v \in DOMAIN prices : \A w \in DOMAIN prices : v <= w]
        kept  == {v \in DOMAIN prices :
                     Distance(prices[v], first) * OutlierDen <= OutlierNum * first}
    IN  [v \in kept |-> prices[v]]

\* The prices left after outlier rejection; all of them if none would be left.
RejectOutliers(prices) ==
    LET median == ComputeMedian(prices)
        kept   == {v \in DOMAIN prices :
                      Distance(prices[v], median) * OutlierDen <= OutlierNum * median}
    IN  IF OutlierNum = 0 \/ kept = {} THEN prices ELSE [v \in kept |-> prices[v]]

\* The deviations are divided by the median: decimal division by zero panics.
Panics(refs) ==
    /\ ~SingleVenueMode /\ Cardinality(Sources(refs)) > 1 /\ OutlierNum > 0
    /\ ComputeMedian(RefPrices(refs)) = 0

\* refs[0] after the sort by source name.
FirstVenue(refs) == CHOOSE v \in Sources(refs) : \A w \in Sources(refs) : v <= w

\* The canonical price of a set of references that is not empty, when there is one.
ComputeCanonical(refs) ==
    LET n      == Cardinality(Sources(refs))
        first  == refs[FirstVenue(refs)]
        prices == RejectOutliers(RefPrices(refs))
    IN  IF SingleVenueMode \/ n = 1
        THEN [price    |-> first.price,
              basis    |-> IF first.basis = "trade" THEN "single_trade" ELSE "single_midpoint",
              degraded |-> n < MinimumHealthySources]
        ELSE [price    |-> ComputeMedian(prices),
              basis    |-> IF \E v \in Sources(refs) : refs[v].basis = "midpoint"
                           THEN "median_mixed" ELSE "median_trade",
              degraded |-> Cardinality(DOMAIN prices) < MinimumHealthySources]
=============================================================================
