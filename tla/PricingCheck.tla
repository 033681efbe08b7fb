---------------------------- MODULE PricingCheck ----------------------------
(***************************************************************************)
(* computeCanonical on every set of references of a small market, against  *)
(* what a median with outlier rejection should be.                         *)
(***************************************************************************)
EXTENDS Pricing

CONSTANT MarketPrices   \* prices a venue may report

ASSUME MarketAssumption == MarketPrices \subseteq 0..MaxPrice

VARIABLES market, computed

marketVars == <<market, computed>>

MarketRefs == [price : MarketPrices, basis : {"trade", "midpoint"}, ts : {0}]

MarketInit ==
    /\ market \in {r \in [Venues -> MarketRefs \cup {None}] : Sources(r) # {}}
    /\ computed = None

Compute ==
    /\ computed = None /\ ~Panics(market)
    /\ computed' = ComputeCanonical(market) /\ UNCHANGED market

MarketNext == Compute

MarketSpec == MarketInit /\ [][MarketNext]_marketVars

-----------------------------------------------------------------------------
Reported == RefPrices(market)
Kept == DOMAIN RejectOutliers(Reported)

\* Venues in the order of their prices, each once.
InOrder(places, prices) ==
    \A i, j \in DOMAIN places :
        i < j => places[i] # places[j] /\ prices[places[i]] <= prices[places[j]]

\* What computeMedian says: sort the prices and take the middle.
SortedMedian(prices) ==
    LET n == Cardinality(DOMAIN prices)
        places == CHOOSE q \in [1..n -> DOMAIN prices] : InOrder(q, prices)
        mid == n \div 2
    IN  IF n % 2 = 1 THEN prices[places[mid + 1]]
        ELSE (prices[places[mid]] + prices[places[mid + 1]]) \div 2

Within(p, q) == Distance(p, q) * OutlierDen <= OutlierNum * q

\* The selection of the k-th price by counting gives the median of the sorted
\* prices that are left, with ties and for odd and even numbers of venues.
MedianMatchesSort ==
    computed # None /\ Cardinality(Sources(market)) > 1 /\ ~SingleVenueMode =>
        computed.price = SortedMedian([v \in Kept |-> Reported[v]])

\* When more than half of the venues report the same price, that is the
\* canonical price: rejection never throws the majority out.
MajorityWins ==
    computed # None /\ ~SingleVenueMode =>
        \A p \in MarketPrices :
            2 * Cardinality({v \in Sources(market) : Reported[v] = p}) > Cardinality(Sources(market))
                => computed.price = p

\* With three venues or more, one that misreports cannot move the canonical
\* price out of the range of the others, provided these agree to within the
\* rejection threshold.
OneFaultyVenueBounded ==
    computed # None /\ ~SingleVenueMode /\ Cardinality(Sources(market)) >= 3 =>
        \A faulty \in Sources(market) :
            LET others == Sources(market) \ {faulty}
            IN  (\A v, w \in others : Within(Reported[v], Reported[w])) =>
                    /\ \E v \in others : Reported[v] <= computed.price
                    /\ \E v \in others : computed.price <= Reported[v]
=============================================================================
