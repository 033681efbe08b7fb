--------------------------- MODULE Pricing_proofs ---------------------------
(***************************************************************************)
(* The pricing operators for every set of venues and every configuration:  *)
(* the median of some prices lies between two of them, and so does the     *)
(* canonical price; it is the price of a majority, and stays in the range  *)
(* of the others when one venue misreports; a reference lies in its        *)
(* freshness window.                                                       *)
(***************************************************************************)
EXTENDS PricingCheck, FiniteSetTheorems, WellFoundedInduction, TLAPS

LEMMA SmallestNat ==
    ASSUME NEW T \in SUBSET Nat, T # {}
    PROVE  \E x \in T : \A y \in T : x <= y
<1>1. IsWellFoundedOn(OpToRel(<, Nat), Nat)
  BY NatLessThanWellFounded
<1>2. PICK x \in T : \A y \in T : ~ (<<y, x>> \in OpToRel(<, Nat))
  BY <1>1, WFMin
<1>3. ASSUME NEW y \in T PROVE x <= y
  <2> SUFFICES ASSUME y < x PROVE FALSE
    OBVIOUS
  <2>1. <<y, x>> \in Nat \X Nat /\ <<y, x>>[1] = y /\ <<y, x>>[2] = x
    OBVIOUS
  <2>2. <<y, x>> \in OpToRel(<, Nat)
    BY <2>1 DEF OpToRel
  <2> QED BY <1>2, <2>2
<1> QED BY <1>3

\* The prices below p, and those that are not above it.
Below(prices, p) == {v \in DOMAIN prices : prices[v] < p}
UpTo(prices, p) == {v \in DOMAIN prices : prices[v] <= p}

\* There is a k-th smallest price: fewer than k are below it, k or more are not above.
LEMMA KthSmallestRank ==
    ASSUME NEW D, IsFiniteSet(D), NEW prices \in [D -> 0..MaxPrice],
           NEW k \in 1..Cardinality(D)
    PROVE  /\ \E v \in D : KthSmallest(prices, k) = prices[v]
           /\ Cardinality(Below(prices, KthSmallest(prices, k))) < k
           /\ Cardinality(UpTo(prices, KthSmallest(prices, k))) >= k
<1> DEFINE T == {p \in Nat : Cardinality(UpTo(prices, p)) >= k}
           Kth(p) == /\ p \in {prices[v] : v \in D}
                     /\ Cardinality(Below(prices, p)) < k /\ Cardinality(UpTo(prices, p)) >= k
<1>1. MaxPrice \in Nat /\ Cardinality(D) \in Nat /\ k \in Nat /\ k >= 1 /\ DOMAIN prices = D
  BY PricingAssumption, FS_CardinalityType
<1>2. \A p : UpTo(prices, p) \in SUBSET D
  BY <1>1 DEF UpTo
<1>3. \A p : IsFiniteSet(UpTo(prices, p)) /\ Cardinality(UpTo(prices, p)) \in Nat
  BY <1>2, FS_Subset, FS_CardinalityType
<1>4. MaxPrice \in T
  <2>1. UpTo(prices, MaxPrice) = D
    BY <1>1 DEF UpTo
  <2> QED BY <2>1, <1>1
<1>5. PICK p \in T : \A q \in T : p <= q
  <2> HIDE DEF T
  <2>1. T \in SUBSET Nat
    BY DEF T
  <2> QED BY <2>1, <1>4, SmallestNat
<1>9. Cardinality(Below(prices, p)) < k
  <2>1. CASE p = 0
    <3>1. Below(prices, p) = {}
      BY <1>1, <2>1 DEF Below
    <3> QED BY <3>1, <1>1, FS_EmptySet
  <2>2. CASE p # 0
    <3>1. p - 1 \in Nat /\ ~(p <= p - 1)
      BY <2>2
    <3>2. ~(Cardinality(UpTo(prices, p - 1)) >= k)
      BY <1>5, <3>1
    <3>3. Below(prices, p) = UpTo(prices, p - 1)
      BY <1>1, <2>2 DEF Below, UpTo
    <3> QED BY <1>1, <1>3, <3>1, <3>2, <3>3
  <2> QED BY <2>1, <2>2
<1>10. Cardinality(UpTo(prices, p)) >= k
  OBVIOUS
<1>11. p \in {prices[v] : v \in D}
  <2> SUFFICES ASSUME \A v \in D : prices[v] # p PROVE FALSE
    OBVIOUS
  <2>1. UpTo(prices, p) = Below(prices, p)
    BY <1>1 DEF UpTo, Below
  <2> QED BY <1>1, <1>3, <1>9, <1>10, <2>1
<1>12. Kth(p)
  BY <1>9, <1>10, <1>11
<1> HIDE DEF T, Kth
<1>13. KthSmallest(prices, k) = CHOOSE q : Kth(q)
  <2>1. KthSmallest(prices, k) =
            CHOOSE q \in {prices[v] : v \in D} :
                Cardinality(Below(prices, q)) < k /\ Cardinality(UpTo(prices, q)) >= k
    BY <1>1, Zenon DEF KthSmallest, Below, UpTo
  <2> QED BY <2>1 DEF Kth
<1>14. Kth(KthSmallest(prices, k))
  BY <1>12, <1>13
<1> QED BY <1>14 DEF Kth

\* The median of some prices lies between two of them.
LEMMA MedianBetween ==
    ASSUME NEW D, IsFiniteSet(D), D # {}, NEW prices \in [D -> 0..MaxPrice]
    PROVE  /\ ComputeMedian(prices) \in 0..MaxPrice
           /\ \E v, w \in D : /\ prices[v] <= ComputeMedian(prices)
                              /\ ComputeMedian(prices) <= prices[w]
<1> DEFINE n == Cardinality(D)
<1>1. n \in Nat /\ n # 0 /\ MaxPrice \in Nat /\ DOMAIN prices = D
  BY FS_CardinalityType, FS_EmptySet, PricingAssumption
<1>2. \A k \in 1..n : \E v \in D : KthSmallest(prices, k) = prices[v]
  BY KthSmallestRank
<1> HIDE DEF n
<1>3. CASE n % 2 = 1
  <2>1. (n \div 2) + 1 \in 1..n
    BY <1>1, <1>3
  <2>2. PICK v \in D : KthSmallest(prices, (n \div 2) + 1) = prices[v]
    BY <1>2, <2>1
  <2>3. ComputeMedian(prices) = prices[v]
    BY <1>1, <1>3, <2>2 DEF ComputeMedian, n
  <2> QED BY <2>3, <1>1
<1>4. CASE n % 2 # 1
  <2>1. n \div 2 \in 1..n /\ (n \div 2) + 1 \in 1..n
    BY <1>1, <1>4
  <2>2. PICK v \in D : KthSmallest(prices, n \div 2) = prices[v]
    BY <1>2, <2>1
  <2>3. PICK w \in D : KthSmallest(prices, (n \div 2) + 1) = prices[w]
    BY <1>2, <2>1
  <2>4. ComputeMedian(prices) = (prices[v] + prices[w]) \div 2
    BY <1>1, <1>4, <2>2, <2>3 DEF ComputeMedian, n
  <2>5. prices[v] \in 0..MaxPrice /\ prices[w] \in 0..MaxPrice
    OBVIOUS
  <2>6. CASE prices[v] <= prices[w]
    BY <2>4, <2>5, <2>6, <1>1
  <2>7. CASE prices[w] <= prices[v]
    BY <2>4, <2>5, <2>7, <1>1
  <2> QED BY <2>5, <2>6, <2>7, <1>1
<1> QED BY <1>3, <1>4

\* Outlier rejection leaves a nonempty part of the prices as they were.
LEMMA RejectOutliersSome ==
    ASSUME NEW D, IsFiniteSet(D), D # {}, NEW prices \in [D -> 0..MaxPrice]
    PROVE  \E K \in SUBSET D : /\ K # {}
                               /\ RejectOutliers(prices) = [v \in K |-> prices[v]]
<1> DEFINE kept == {v \in DOMAIN prices :
                       Distance(prices[v], ComputeMedian(prices)) * OutlierDen
                           <= OutlierNum * ComputeMedian(prices)}
<1>1. RejectOutliers(prices) =
          IF OutlierNum = 0 \/ kept = {} THEN prices ELSE [v \in kept |-> prices[v]]
  BY DEF RejectOutliers
<1>2. kept \in SUBSET D
  OBVIOUS
<1>3. prices = [v \in D |-> prices[v]]
  OBVIOUS
<1> HIDE DEF kept
<1>4. CASE OutlierNum = 0 \/ kept = {}
  BY <1>1, <1>3, <1>4
<1>5. CASE ~(OutlierNum = 0 \/ kept = {})
  BY <1>1, <1>2, <1>5
<1> QED BY <1>4, <1>5

\* The canonical price of a nonempty set of references lies between the prices
\* of two of them: neither the median, nor the rejection of outliers, nor the
\* single-venue mode invents a price.
THEOREM CanonicalBetween ==
    ASSUME NEW refs \in Refs, Sources(refs) # {}
    PROVE  LET canonical == ComputeCanonical(refs)
           IN  /\ canonical.price \in 0..MaxPrice
               /\ canonical.basis \in CanonicalBases
               /\ canonical.degraded \in BOOLEAN
               /\ \E v, w \in Sources(refs) : /\ refs[v].price <= canonical.price
                                              /\ canonical.price <= refs[w].price
<1> DEFINE D == Sources(refs)
           P == RefPrices(refs)
           n == Cardinality(D)
           canonical == ComputeCanonical(refs)
<1>1. IsFiniteSet(D) /\ D \subseteq Nat /\ n \in Nat /\ MaxPrice \in Nat
  BY FS_Subset, FS_CardinalityType, PricingAssumption DEF Sources
<1>2. \A v \in D : refs[v] \in Ref
  BY DEF Refs, Sources
<1>3. P \in [D -> 0..MaxPrice] /\ \A v \in D : P[v] = refs[v].price
  BY <1>2 DEF RefPrices, Ref
<1>4. MinimumHealthySources \in Nat
  BY PricingAssumption
<1>5. CASE SingleVenueMode \/ n = 1
  <2>1. PICK v \in D : \A w \in D : v <= w
    BY <1>1, SmallestNat
  <2>2. FirstVenue(refs) \in D
    BY <2>1 DEF FirstVenue
  <2>3. ComputeCanonical(refs) =
           [price    |-> refs[FirstVenue(refs)].price,
            basis    |-> IF refs[FirstVenue(refs)].basis = "trade"
                         THEN "single_trade" ELSE "single_midpoint",
            degraded |-> n < MinimumHealthySources]
    BY <1>5 DEF ComputeCanonical
  <2>4. refs[FirstVenue(refs)].price \in 0..MaxPrice
    BY <2>2, <1>2 DEF Ref
  <2>5. canonical.price = refs[FirstVenue(refs)].price
    BY <2>3
  <2>6. canonical.basis \in CanonicalBases /\ canonical.degraded \in BOOLEAN
    <3>1. canonical.basis \in CanonicalBases
      BY <2>3 DEF CanonicalBases
    <3>2. canonical.degraded = (n < MinimumHealthySources)
      BY <2>3
    <3> HIDE DEF canonical, n
    <3> QED BY <3>1, <3>2
  <2>8. refs[FirstVenue(refs)].price <= canonical.price /\ canonical.price <= refs[FirstVenue(refs)].price
    BY <2>4, <2>5, <1>1
  <2> HIDE DEF canonical, D
  <2> QED BY <2>2, <2>4, <2>5, <2>6, <2>8 DEF D, canonical
<1>6. CASE ~(SingleVenueMode \/ n = 1)
  <2>1. PICK K \in SUBSET D : K # {} /\ RejectOutliers(P) = [v \in K |-> P[v]]
    BY <1>1, <1>3, RejectOutliersSome
  <2> DEFINE Q == [v \in K |-> P[v]]
  <2>2. IsFiniteSet(K) /\ Cardinality(K) \in Nat
    BY <1>1, FS_Subset, FS_CardinalityType
  <2>3. Q \in [K -> 0..MaxPrice] /\ \A v \in K : Q[v] = refs[v].price
    BY <1>3
  <2> HIDE DEF Q
  <2>4. /\ ComputeMedian(Q) \in 0..MaxPrice
        /\ \E v, w \in K : Q[v] <= ComputeMedian(Q) /\ ComputeMedian(Q) <= Q[w]
    BY <2>1, <2>2, <2>3, MedianBetween
  <2>5. ComputeCanonical(refs) =
           [price    |-> ComputeMedian(Q),
            basis    |-> IF \E v \in Sources(refs) : refs[v].basis = "midpoint"
                         THEN "median_mixed" ELSE "median_trade",
            degraded |-> Cardinality(DOMAIN Q) < MinimumHealthySources]
    BY <1>6, <2>1 DEF ComputeCanonical, Q
  <2>6. DOMAIN Q = K
    BY DEF Q
  <2>7. canonical.price = ComputeMedian(Q)
    BY <2>5
  <2>8. canonical.basis \in CanonicalBases /\ canonical.degraded \in BOOLEAN
    <3>1. canonical.basis \in CanonicalBases
      BY <2>5 DEF CanonicalBases
    <3>2. canonical.degraded = (Cardinality(DOMAIN Q) < MinimumHealthySources)
      BY <2>5
    <3> HIDE DEF canonical
    <3> QED BY <3>1, <3>2
  <2>9. \E v, w \in D : refs[v].price <= canonical.price /\ canonical.price <= refs[w].price
    BY <2>3, <2>4, <2>7
  <2> HIDE DEF canonical
  <2> QED BY <2>4, <2>7, <2>8, <2>9 DEF D, canonical
<1> QED BY <1>5, <1>6

\* Each venue's reference at an instant is a price with a time in the
\* freshness window of its kind that ends at that instant.
THEOREM RefsInWindow ==
    ASSUME NEW venues \in [Venues -> VenueState], NEW atTime \in Nat
    PROVE  LET refs == ComputeVenueRefs(venues, atTime)
           IN  /\ refs \in Refs
               /\ \A v \in Sources(refs) :
                     /\ refs[v].ts <= atTime
                     /\ atTime - refs[v].ts <= IF refs[v].basis = "trade"
                                               THEN TradeFreshness ELSE QuoteFreshness
<1> DEFINE refs == ComputeVenueRefs(venues, atTime)
<1>1. ASSUME NEW v \in Venues
      PROVE  /\ refs[v] \in Ref \cup {None}
             /\ refs[v] # None =>
                   /\ refs[v].ts <= atTime
                   /\ atTime - refs[v].ts <= IF refs[v].basis = "trade"
                                             THEN TradeFreshness ELSE QuoteFreshness
  <2> DEFINE vs == venues[v]
  <2>1. vs \in VenueState /\ refs[v] = VenueRef(vs, atTime)
    BY DEF ComputeVenueRefs
  <2> HIDE DEF vs, refs
  <2>2. CASE UsableTrade(vs, atTime)
    <3>1. vs.lastTrade \in Trade
      BY <2>1, <2>2 DEF VenueState, UsableTrade
    <3> QED BY <2>1, <2>2, <3>1 DEF VenueRef, UsableTrade, Fresh, Trade, Ref
  <2>3. CASE ~UsableTrade(vs, atTime) /\ UsableQuote(vs, atTime)
    <3>1. vs.lastQuote \in Quote
      BY <2>1, <2>3 DEF VenueState, UsableQuote
    <3>2. /\ vs.lastQuote.bid \in 0..MaxPrice /\ vs.lastQuote.ask \in 0..MaxPrice
          /\ vs.lastQuote.ts \in Nat
      BY <2>3, <3>1, PricingAssumption DEF UsableQuote, Quote
    <3>3. (vs.lastQuote.bid + vs.lastQuote.ask) \div 2 \in 0..MaxPrice
      BY <3>2, PricingAssumption
    <3> QED BY <2>1, <2>3, <3>2, <3>3 DEF VenueRef, UsableQuote, Fresh, Ref
  <2>4. CASE ~UsableTrade(vs, atTime) /\ ~UsableQuote(vs, atTime)
    BY <2>1, <2>4 DEF VenueRef
  <2> QED BY <2>2, <2>3, <2>4
<1>2. refs \in Refs
  BY <1>1 DEF ComputeVenueRefs, Refs
<1> QED BY <1>1, <1>2 DEF Sources

-----------------------------------------------------------------------------
(* Majorities and outliers *)

\* Parts of a finite set of venues.
LEMMA Parts ==
    ASSUME NEW D, IsFiniteSet(D), NEW A \in SUBSET D, NEW B \in SUBSET D
    PROVE  /\ Cardinality(A) \in Nat /\ Cardinality(B) \in Nat /\ Cardinality(D) \in Nat
           /\ Cardinality(A) <= Cardinality(D)
           /\ A \subseteq B => Cardinality(A) <= Cardinality(B)
           /\ A \cap B = {} => Cardinality(A) + Cardinality(B) <= Cardinality(D)
           /\ A \cup B = D => Cardinality(D) <= Cardinality(A) + Cardinality(B)
<1>1. IsFiniteSet(A) /\ IsFiniteSet(B) /\ IsFiniteSet(A \cup B)
  BY FS_Subset, FS_Union
<1>2. Cardinality(A) \in Nat /\ Cardinality(B) \in Nat /\ Cardinality(D) \in Nat
  BY <1>1, FS_CardinalityType
<1>3. Cardinality(A) <= Cardinality(D) /\ Cardinality(A \cup B) <= Cardinality(D)
  BY FS_Subset
<1>4. A \subseteq B => Cardinality(A) <= Cardinality(B)
  BY <1>1, FS_Subset
<1>5. Cardinality(A \cup B) = Cardinality(A) + Cardinality(B) - Cardinality(A \cap B)
  BY <1>1, FS_Union
<1>6. Cardinality(A \cap B) \in Nat
  <2>1. IsFiniteSet(A \cap B)
    BY <1>1, FS_Subset
  <2> QED BY <2>1, FS_CardinalityType
<1>7. A \cap B = {} => Cardinality(A \cap B) = 0
  BY FS_EmptySet
<1>8. A \cap B = {} => Cardinality(A) + Cardinality(B) <= Cardinality(D)
  BY <1>2, <1>3, <1>5, <1>7
<1>9. A \cup B = D => Cardinality(D) <= Cardinality(A) + Cardinality(B)
  <2>1. PICK a \in Nat, b \in Nat, c \in Nat :
            a = Cardinality(A) /\ b = Cardinality(B) /\ c = Cardinality(A \cap B)
    BY <1>2, <1>6
  <2>2. Cardinality(A \cup B) = a + b - c /\ a + b - c <= a + b
    BY <1>5, <2>1
  <2> QED BY <2>1, <2>2
<1> QED BY <1>2, <1>3, <1>4, <1>8, <1>9

\* Only one price has that rank.
LEMMA KthSmallestIs ==
    ASSUME NEW D, IsFiniteSet(D), NEW prices \in [D -> 0..MaxPrice],
           NEW k \in 1..Cardinality(D), NEW p \in Nat,
           Cardinality(Below(prices, p)) < k, Cardinality(UpTo(prices, p)) >= k
    PROVE  KthSmallest(prices, k) = p
<1>1. PICK q \in Nat : q = KthSmallest(prices, k)
  BY KthSmallestRank, PricingAssumption
<1>2. Cardinality(Below(prices, q)) < k /\ Cardinality(UpTo(prices, q)) >= k
  BY <1>1, KthSmallestRank
<1>3. k \in Nat /\ DOMAIN prices = D
  BY FS_CardinalityType
<1>4. ASSUME NEW a \in Nat, NEW b \in Nat, a < b,
             Cardinality(Below(prices, b)) < k, Cardinality(UpTo(prices, a)) >= k
      PROVE  FALSE
  <2>1. UpTo(prices, a) \in SUBSET D /\ Below(prices, b) \in SUBSET D
    BY <1>3 DEF UpTo, Below
  <2>2. UpTo(prices, a) \subseteq Below(prices, b)
    BY <1>3, <1>4, PricingAssumption DEF UpTo, Below
  <2>3. /\ Cardinality(UpTo(prices, a)) <= Cardinality(Below(prices, b))
        /\ Cardinality(UpTo(prices, a)) \in Nat /\ Cardinality(Below(prices, b)) \in Nat
    BY <2>1, <2>2, Parts
  <2> QED BY <1>3, <1>4, <2>3
<1>5. ~(p < q)
  BY <1>2, <1>4
<1>6. ~(q < p)
  BY <1>2, <1>4
<1> QED BY <1>1, <1>5, <1>6

\* The price of a strict majority is the median.
LEMMA MajorityMedian ==
    ASSUME NEW D, IsFiniteSet(D), NEW prices \in [D -> 0..MaxPrice], NEW p \in Nat,
           2 * Cardinality({v \in D : prices[v] = p}) > Cardinality(D)
    PROVE  ComputeMedian(prices) = p
<1> DEFINE n == Cardinality(D)
           same == {v \in D : prices[v] = p}
           above == {v \in D : p < prices[v]}
<1>1. DOMAIN prices = D /\ MaxPrice \in Nat
  BY PricingAssumption
<1>2. Below(prices, p) \in SUBSET D /\ UpTo(prices, p) \in SUBSET D /\ same \in SUBSET D /\ above \in SUBSET D
  BY <1>1 DEF Below, UpTo
<1>3. Below(prices, p) \cap same = {} /\ above \cap same = {} /\ UpTo(prices, p) \cup above = D
  BY <1>1 DEF Below, UpTo
<1> HIDE DEF same, above
<1>4. PICK b \in Nat, s \in Nat, u \in Nat, a \in Nat, m \in Nat :
          /\ b = Cardinality(Below(prices, p)) /\ s = Cardinality(same)
          /\ u = Cardinality(UpTo(prices, p)) /\ a = Cardinality(above) /\ m = n
  BY <1>2, Parts
<1>5. b + s <= m /\ a + s <= m /\ m <= u + a /\ s <= m
  <2>1. b + s <= m
    BY <1>2, <1>3, <1>4, Parts
  <2>2. a + s <= m /\ s <= m
    BY <1>2, <1>3, <1>4, Parts
  <2>3. m <= u + a
    BY <1>2, <1>3, <1>4, Parts
  <2> QED BY <2>1, <2>2, <2>3
<1>6. 2 * s > m
  BY <1>4 DEF same
<1>7. ASSUME NEW k \in 1..m, 2 * k >= m, 2 * k <= m + 2 PROVE KthSmallest(prices, k) = p
  <2>1. b < k /\ u >= k
    BY <1>5, <1>6, <1>7
  <2> QED BY <1>4, <2>1, KthSmallestIs
<1>8. ComputeMedian(prices) =
          IF m % 2 = 1 THEN KthSmallest(prices, (m \div 2) + 1)
          ELSE (KthSmallest(prices, m \div 2) + KthSmallest(prices, (m \div 2) + 1)) \div 2
  BY <1>1, <1>4 DEF ComputeMedian
<1>9. CASE m % 2 = 1
  <2>1. (m \div 2) + 1 \in 1..m /\ 2 * ((m \div 2) + 1) >= m /\ 2 * ((m \div 2) + 1) <= m + 2
    BY <1>5, <1>6, <1>9
  <2> QED BY <1>7, <1>8, <1>9, <2>1
<1>10. CASE m % 2 # 1
  <2>1. /\ (m \div 2) + 1 \in 1..m /\ 2 * ((m \div 2) + 1) >= m /\ 2 * ((m \div 2) + 1) <= m + 2
        /\ m \div 2 \in 1..m /\ 2 * (m \div 2) >= m /\ 2 * (m \div 2) <= m + 2
    BY <1>5, <1>6, <1>10
  <2>2. KthSmallest(prices, m \div 2) = p /\ KthSmallest(prices, (m \div 2) + 1) = p
    BY <1>7, <2>1
  <2>3. (p + p) \div 2 = p
    OBVIOUS
  <2> QED BY <1>8, <1>10, <2>2, <2>3
<1> QED BY <1>9, <1>10

\* A rank that is neither the first nor the last: without any one venue there is
\* still a price that is not above it, and one that is not below it.
LEMMA InnerRank ==
    ASSUME NEW D, IsFiniteSet(D), NEW prices \in [D -> 0..MaxPrice], NEW f \in D,
           NEW k \in 2..(Cardinality(D) - 1)
    PROVE  /\ \E v \in D \ {f} : prices[v] <= KthSmallest(prices, k)
           /\ \E v \in D \ {f} : KthSmallest(prices, k) <= prices[v]
<1>1. Cardinality(D) \in Nat /\ k \in 1..Cardinality(D) /\ k >= 2 /\ k + 1 <= Cardinality(D) /\ DOMAIN prices = D
  BY FS_CardinalityType
<1>2. PICK q \in 0..MaxPrice : q = KthSmallest(prices, k)
  BY <1>1, KthSmallestRank
<1>3. Cardinality(Below(prices, q)) < k /\ Cardinality(UpTo(prices, q)) >= k
  BY <1>1, <1>2, KthSmallestRank
<1>4. /\ Below(prices, q) \in SUBSET D /\ UpTo(prices, q) \in SUBSET D /\ {f} \in SUBSET D
      /\ IsFiniteSet({f}) /\ Cardinality({f}) = 1 /\ MaxPrice \in Nat
  BY <1>1, FS_Singleton, PricingAssumption DEF Below, UpTo
<1>5. \E v \in D \ {f} : prices[v] <= q
  <2> SUFFICES ASSUME \A v \in D \ {f} : ~(prices[v] <= q) PROVE FALSE
    OBVIOUS
  <2>1. UpTo(prices, q) \subseteq {f}
    BY <1>1 DEF UpTo
  <2>2. Cardinality(UpTo(prices, q)) <= 1 /\ Cardinality(UpTo(prices, q)) \in Nat
    BY <1>4, <2>1, Parts
  <2> QED BY <1>1, <1>3, <2>2
<1>6. \E v \in D \ {f} : q <= prices[v]
  <2> SUFFICES ASSUME \A v \in D \ {f} : ~(q <= prices[v]) PROVE FALSE
    OBVIOUS
  <2>1. Below(prices, q) \cup {f} = D
    <3>1. \A v \in D \ {f} : prices[v] < q
      BY <1>4
    <3> QED BY <1>1, <3>1 DEF Below
  <2>2. /\ Cardinality(D) <= Cardinality(Below(prices, q)) + 1
        /\ Cardinality(Below(prices, q)) \in Nat
    BY <1>4, <2>1, Parts
  <2> QED BY <1>1, <1>3, <2>2
<1> QED BY <1>2, <1>5, <1>6

\* The median of three prices or more lies in the range of all but one of them.
LEMMA MedianWithout ==
    ASSUME NEW D, IsFiniteSet(D), NEW prices \in [D -> 0..MaxPrice], NEW f \in D,
           Cardinality(D) >= 3
    PROVE  /\ \E v \in D \ {f} : prices[v] <= ComputeMedian(prices)
           /\ \E v \in D \ {f} : ComputeMedian(prices) <= prices[v]
<1>1. PICK m \in Nat : m = Cardinality(D)
  BY FS_CardinalityType
<1>2. ComputeMedian(prices) =
          IF m % 2 = 1 THEN KthSmallest(prices, (m \div 2) + 1)
          ELSE (KthSmallest(prices, m \div 2) + KthSmallest(prices, (m \div 2) + 1)) \div 2
  BY <1>1 DEF ComputeMedian
<1>3. CASE m % 2 = 1
  <2>1. (m \div 2) + 1 \in 2..(m - 1)
    BY <1>1, <1>3
  <2> QED BY <1>1, <1>2, <1>3, <2>1, InnerRank
<1>4. CASE m % 2 # 1
  <2>1. m \div 2 \in 2..(m - 1) /\ (m \div 2) + 1 \in 2..(m - 1)
    BY <1>1, <1>4
  <2>2. \A k \in 2..(m - 1) : /\ KthSmallest(prices, k) \in 0..MaxPrice
                              /\ \E v \in D \ {f} : prices[v] <= KthSmallest(prices, k)
                              /\ \E v \in D \ {f} : KthSmallest(prices, k) <= prices[v]
    <3> TAKE k \in 2..(m - 1)
    <3>1. k \in 1..Cardinality(D)
      BY <1>1
    <3>2. KthSmallest(prices, k) \in 0..MaxPrice
      BY <3>1, KthSmallestRank
    <3> QED BY <1>1, <3>2, InnerRank
  <2>3. PICK x \in 0..MaxPrice, y \in 0..MaxPrice :
            x = KthSmallest(prices, m \div 2) /\ y = KthSmallest(prices, (m \div 2) + 1)
    BY <2>1, <2>2
  <2>4. ComputeMedian(prices) = (x + y) \div 2
    BY <1>2, <1>4, <2>3
  <2>5. PICK v \in D \ {f}, w \in D \ {f}, r \in D \ {f}, t \in D \ {f} :
            prices[v] <= x /\ prices[w] <= y /\ x <= prices[r] /\ y <= prices[t]
    BY <2>1, <2>2, <2>3
  <2>6. /\ prices[v] \in Nat /\ prices[w] \in Nat /\ prices[r] \in Nat /\ prices[t] \in Nat
        /\ x \in Nat /\ y \in Nat
    BY PricingAssumption
  <2>7. CASE x <= y
    <3>1. x <= (x + y) \div 2 /\ (x + y) \div 2 <= y
      BY <2>6, <2>7
    <3>2. prices[v] <= (x + y) \div 2 /\ (x + y) \div 2 <= prices[t]
      BY <2>5, <2>6, <3>1
    <3> QED BY <2>4, <3>2
  <2>8. CASE y <= x
    <3>1. y <= (x + y) \div 2 /\ (x + y) \div 2 <= x
      BY <2>6, <2>8
    <3>2. prices[w] <= (x + y) \div 2 /\ (x + y) \div 2 <= prices[r]
      BY <2>5, <2>6, <3>1
    <3> QED BY <2>4, <3>2
  <2> QED BY <2>6, <2>7, <2>8
<1> QED BY <1>3, <1>4

\* What is left after rejection, when it rejects something.
LEMMA Rejected ==
    ASSUME NEW D, IsFiniteSet(D), D # {}, NEW prices \in [D -> 0..MaxPrice]
    PROVE  \/ RejectOutliers(prices) = prices
           \/ \E K \in SUBSET D :
                  /\ K # {} /\ RejectOutliers(prices) = [v \in K |-> prices[v]]
                  /\ \A v \in D : v \in K <=> Within(prices[v], ComputeMedian(prices))
<1> DEFINE K == {v \in DOMAIN prices :
                    Distance(prices[v], ComputeMedian(prices)) * OutlierDen
                        <= OutlierNum * ComputeMedian(prices)}
<1>1. RejectOutliers(prices) = IF OutlierNum = 0 \/ K = {} THEN prices ELSE [v \in K |-> prices[v]]
  BY DEF RejectOutliers
<1>2. K \in SUBSET D /\ \A v \in D : v \in K <=> Within(prices[v], ComputeMedian(prices))
  BY DEF Within
<1> HIDE DEF K
<1> QED BY <1>1, <1>2

\* The price of a strict majority is the canonical price, whatever else is rejected.
LEMMA MajorityRejected ==
    ASSUME NEW D, IsFiniteSet(D), NEW prices \in [D -> 0..MaxPrice], NEW p \in Nat,
           2 * Cardinality({v \in D : prices[v] = p}) > Cardinality(D)
    PROVE  ComputeMedian(RejectOutliers(prices)) = p
<1> DEFINE same == {v \in D : prices[v] = p}
<1>1. ComputeMedian(prices) = p
  BY MajorityMedian
<1>2. same \in SUBSET D /\ Cardinality(same) \in Nat /\ Cardinality(D) \in Nat
  BY Parts
<1>3. D # {}
  BY <1>2, FS_EmptySet
<1>4. ASSUME NEW K \in SUBSET D, RejectOutliers(prices) = [v \in K |-> prices[v]],
             \A v \in D : v \in K <=> Within(prices[v], p)
      PROVE  ComputeMedian(RejectOutliers(prices)) = p
  <2> DEFINE Q == [v \in K |-> prices[v]]
  <2>1. Distance(p, p) * OutlierDen <= OutlierNum * p
    <3>1. Distance(p, p) = 0
      BY DEF Distance
    <3>2. 0 * OutlierDen = 0 /\ OutlierNum * p \in Nat
      BY PricingAssumption
    <3> QED BY <3>1, <3>2
  <2>2. same \subseteq K
    BY <1>4, <2>1 DEF Within
  <2>3. {v \in K : Q[v] = p} = same
    BY <2>2
  <2>4. IsFiniteSet(K) /\ Cardinality(K) <= Cardinality(D) /\ Cardinality(K) \in Nat
    BY FS_Subset, FS_CardinalityType
  <2>5. Q \in [K -> 0..MaxPrice]
    OBVIOUS
  <2> HIDE DEF Q, same
  <2>6. 2 * Cardinality({v \in K : Q[v] = p}) > Cardinality(K)
    <3>1. 2 * Cardinality(same) > Cardinality(D)
      BY DEF same
    <3>2. 2 * Cardinality(same) > Cardinality(K)
      BY <1>2, <2>4, <3>1
    <3> QED BY <2>3, <3>2
  <2>7. ComputeMedian(Q) = p
    BY <2>4, <2>5, <2>6, MajorityMedian
  <2> QED BY <1>4, <2>7 DEF Q
<1> QED BY <1>1, <1>3, <1>4, Rejected

\* With one price of three or more taken away, and the others close together, what
\* rejection leaves has a median in the range of the others.
LEMMA FaultyRejected ==
    ASSUME NEW D, IsFiniteSet(D), NEW prices \in [D -> 0..MaxPrice], NEW f \in D,
           Cardinality(D) >= 3, \A v, w \in D \ {f} : Within(prices[v], prices[w])
    PROVE  /\ \E v \in D \ {f} : prices[v] <= ComputeMedian(RejectOutliers(prices))
           /\ \E v \in D \ {f} : ComputeMedian(RejectOutliers(prices)) <= prices[v]
<1>1. PICK lo \in D \ {f}, hi \in D \ {f} :
          prices[lo] <= ComputeMedian(prices) /\ ComputeMedian(prices) <= prices[hi]
  BY MedianWithout
<1>2. PICK m \in 0..MaxPrice : m = ComputeMedian(prices)
  BY MedianBetween
<1>3. ASSUME NEW v \in D \ {f} PROVE Within(prices[v], m)
  <2>1. PICK x \in Nat, l \in Nat, h \in Nat : x = prices[v] /\ l = prices[lo] /\ h = prices[hi]
    BY PricingAssumption
  <2>2. l <= m /\ m <= h
    BY <1>1, <1>2, <2>1
  <2>3. Within(x, l) /\ Within(h, x)
    BY <2>1
  <2>4. OutlierNum \in Nat /\ OutlierDen \in Nat /\ m \in Nat
    BY PricingAssumption
  <2>5. \A a, b, c \in Nat : a <= b => a * c <= b * c /\ c * a <= c * b
    OBVIOUS
  <2>6. CASE m <= x
    <3>1. Distance(x, m) = x - m /\ Distance(x, l) = x - l
      BY <2>2, <2>4, <2>6 DEF Distance
    <3>2. x - m \in Nat /\ x - l \in Nat /\ x - m <= x - l
      BY <2>2, <2>4, <2>6
    <3>3. (x - m) * OutlierDen <= (x - l) * OutlierDen /\ OutlierNum * l <= OutlierNum * m
      BY <2>2, <2>4, <2>5, <3>2
    <3>4. (x - l) * OutlierDen <= OutlierNum * l
      BY <2>3, <3>1 DEF Within
    <3>5. /\ (x - m) * OutlierDen \in Nat /\ (x - l) * OutlierDen \in Nat
          /\ OutlierNum * l \in Nat /\ OutlierNum * m \in Nat
      BY <2>4, <3>2
    <3>6. (x - m) * OutlierDen <= OutlierNum * m
      BY <3>3, <3>4, <3>5
    <3> QED BY <2>1, <3>1, <3>6 DEF Within
  <2>7. CASE x < m
    <3>1. Distance(x, m) = m - x /\ Distance(h, x) = h - x
      BY <2>2, <2>4, <2>7 DEF Distance
    <3>2. m - x \in Nat /\ h - x \in Nat /\ m - x <= h - x
      BY <2>2, <2>4, <2>7
    <3>3. (m - x) * OutlierDen <= (h - x) * OutlierDen /\ OutlierNum * x <= OutlierNum * m
      BY <2>4, <2>5, <2>7, <3>2
    <3>4. (h - x) * OutlierDen <= OutlierNum * x
      BY <2>3, <3>1 DEF Within
    <3>5. /\ (m - x) * OutlierDen \in Nat /\ (h - x) * OutlierDen \in Nat
          /\ OutlierNum * x \in Nat /\ OutlierNum * m \in Nat
      BY <2>4, <3>2
    <3>6. (m - x) * OutlierDen <= OutlierNum * m
      BY <3>3, <3>4, <3>5
    <3> QED BY <2>1, <3>1, <3>6 DEF Within
  <2> QED BY <2>1, <2>4, <2>6, <2>7
<1>4. CASE RejectOutliers(prices) = prices
  BY <1>1, <1>4
<1>5. ASSUME NEW K \in SUBSET D, K # {}, RejectOutliers(prices) = [v \in K |-> prices[v]],
             \A v \in D : v \in K <=> Within(prices[v], m)
      PROVE  /\ \E v \in D \ {f} : prices[v] <= ComputeMedian(RejectOutliers(prices))
             /\ \E v \in D \ {f} : ComputeMedian(RejectOutliers(prices)) <= prices[v]
  <2>1. D \ {f} \subseteq K
    BY <1>3, <1>5
  <2>2. CASE f \in K
    <3>1. K = D /\ [v \in D |-> prices[v]] = prices
      BY <2>1, <2>2
    <3> QED BY <1>4, <1>5, <3>1
  <2>3. CASE f \notin K
    <3> DEFINE Q == [v \in K |-> prices[v]]
    <3>1. K = D \ {f} /\ IsFiniteSet(K) /\ Q \in [K -> 0..MaxPrice] /\ \A v \in K : Q[v] = prices[v]
      BY <2>1, <2>3, FS_Subset
    <3> HIDE DEF Q
    <3>2. \E v, w \in K : Q[v] <= ComputeMedian(Q) /\ ComputeMedian(Q) <= Q[w]
      BY <1>5, <3>1, MedianBetween
    <3>3. \E v, w \in D \ {f} : prices[v] <= ComputeMedian(Q) /\ ComputeMedian(Q) <= prices[w]
      BY <3>1, <3>2
    <3> QED BY <1>5, <3>3 DEF Q
  <2> QED BY <2>2, <2>3
<1>6. D # {}
  OBVIOUS
<1> QED BY <1>2, <1>4, <1>5, <1>6, Rejected

-----------------------------------------------------------------------------
(* Every market *)

\* The canonical price of a market was computed from its references.
MarketInv ==
    /\ market \in Refs /\ Sources(market) # {}
    /\ computed # None => computed = ComputeCanonical(market)

LEMMA MarketInvariant == MarketSpec => []MarketInv
<1>1. MarketInit => MarketInv
  <2> SUFFICES ASSUME MarketInit PROVE MarketInv
    OBVIOUS
  <2>1. MarketRefs \subseteq Ref
    <3> SUFFICES ASSUME NEW r \in MarketRefs PROVE r \in Ref
      OBVIOUS
    <3>1. /\ r = [price |-> r.price, basis |-> r.basis, ts |-> r.ts]
          /\ r.price \in MarketPrices /\ r.basis \in {"trade", "midpoint"} /\ r.ts = 0
      BY DEF MarketRefs
    <3>2. r.price \in 0..MaxPrice /\ r.ts \in Nat
      BY <3>1, MarketAssumption
    <3> QED BY <3>1, <3>2 DEF Ref
  <2>2. [Venues -> MarketRefs \cup {None}] \subseteq [Venues -> Ref \cup {None}]
    BY <2>1
  <2> QED BY <2>2 DEF MarketInit, MarketInv, Refs
<1>2. MarketInv /\ [MarketNext]_marketVars => MarketInv'
  <2> SUFFICES ASSUME MarketInv, [MarketNext]_marketVars PROVE MarketInv'
    OBVIOUS
  <2>1. market' = market /\ (computed' = computed \/ computed' = ComputeCanonical(market))
    BY DEF MarketNext, Compute, marketVars
  <2> QED BY <2>1 DEF MarketInv
<1> QED BY <1>1, <1>2, PTL DEF MarketSpec

\* The prices of a market.
LEMMA MarketPricesTyped ==
    ASSUME MarketInv
    PROVE  /\ IsFiniteSet(Sources(market)) /\ Sources(market) # {}
           /\ Reported \in [Sources(market) -> 0..MaxPrice]
           /\ \A v \in Sources(market) : Reported[v] = market[v].price
<1>1. IsFiniteSet(Sources(market))
  BY FS_Subset, PricingAssumption DEF Sources
<1>2. \A v \in Sources(market) : market[v] \in Ref
  BY DEF MarketInv, Refs, Sources
<1>3. /\ Reported \in [Sources(market) -> 0..MaxPrice]
      /\ \A v \in Sources(market) : Reported[v] = market[v].price
  BY <1>2 DEF Reported, RefPrices, Ref
<1> QED BY <1>1, <1>3 DEF MarketInv

\* With more than one venue it is the median of what rejection leaves.
LEMMA MarketMedian ==
    ASSUME MarketInv, computed # None, ~SingleVenueMode, Cardinality(Sources(market)) # 1
    PROVE  computed.price = ComputeMedian(RejectOutliers(Reported))
  BY DEF MarketInv, ComputeCanonical, Reported

\* For every set of venues and prices and every threshold of rejection: the price
\* that more than half of the venues report is the canonical one.
THEOREM PricingMajorityWins == MarketSpec => []MajorityWins
<1>1. MarketInv => MajorityWins
  <2> SUFFICES ASSUME MarketInv, computed # None, ~SingleVenueMode, NEW p \in MarketPrices,
                      2 * Cardinality({v \in Sources(market) : Reported[v] = p})
                          > Cardinality(Sources(market))
               PROVE  computed.price = p
    BY DEF MajorityWins
  <2>1. p \in Nat
    BY MarketAssumption, PricingAssumption
  <2>2. CASE Cardinality(Sources(market)) # 1
    <3>1. ComputeMedian(RejectOutliers(Reported)) = p
      BY <2>1, MarketPricesTyped, MajorityRejected
    <3> QED BY <2>2, <3>1, MarketMedian
  <2>3. CASE Cardinality(Sources(market)) = 1
    <3>1. PICK w : Sources(market) = {w}
      BY <2>3, MarketPricesTyped, FS_Singleton
    <3>2. Reported[w] = p
      <4>1. CASE {v \in Sources(market) : Reported[v] = p} = {}
        BY <2>3, <4>1, FS_EmptySet
      <4>2. CASE {v \in Sources(market) : Reported[v] = p} # {}
        BY <3>1, <4>2
      <4> QED BY <4>1, <4>2
    <3>3. FirstVenue(market) = w
      <4>1. w \in Nat
        BY <3>1, PricingAssumption DEF Sources
      <4> QED BY <3>1, <4>1 DEF FirstVenue
    <3>4. computed.price = market[FirstVenue(market)].price
      BY <2>3 DEF MarketInv, ComputeCanonical
    <3> QED BY <3>1, <3>2, <3>3, <3>4, MarketPricesTyped
  <2> QED BY <2>2, <2>3
<1> QED BY <1>1, MarketInvariant, PTL

\* For every set of three venues or more: one of them cannot move the canonical
\* price out of the range of the others, if these agree to within the threshold.
THEOREM PricingOneFaultyVenueBounded == MarketSpec => []OneFaultyVenueBounded
<1>1. MarketInv => OneFaultyVenueBounded
  <2> SUFFICES ASSUME MarketInv, computed # None, ~SingleVenueMode, Cardinality(Sources(market)) >= 3,
                      NEW faulty \in Sources(market),
                      \A v, w \in Sources(market) \ {faulty} : Within(Reported[v], Reported[w])
               PROVE  /\ \E v \in Sources(market) \ {faulty} : Reported[v] <= computed.price
                      /\ \E v \in Sources(market) \ {faulty} : computed.price <= Reported[v]
    BY DEF OneFaultyVenueBounded
  <2>1. computed.price = ComputeMedian(RejectOutliers(Reported))
    <3>1. Cardinality(Sources(market)) # 1
      OBVIOUS
    <3> QED BY <3>1, MarketMedian
  <2> QED BY <2>1, MarketPricesTyped, FaultyRejected
<1> QED BY <1>1, MarketInvariant, PTL

-----------------------------------------------------------------------------
(***************************************************************************)
(* Selecting the k-th price by counting is taking the k-th of the sorted   *)
(* prices.  That prices can be sorted is shown by giving each venue the    *)
(* number of those not after it.                                           *)
(***************************************************************************)
Sorts(q, D, prices) == q \in [1..Cardinality(D) -> D] /\ InOrder(q, prices)

LEMMA SortedKth ==
    ASSUME NEW D, IsFiniteSet(D), NEW prices \in [D -> 0..MaxPrice],
           NEW q, Sorts(q, D, prices), NEW k \in 1..Cardinality(D)
    PROVE  KthSmallest(prices, k) = prices[q[k]] /\ prices[q[k]] \in 0..MaxPrice
<1>1. PICK n \in Nat : n = Cardinality(D)
  BY FS_CardinalityType
<1>2. k \in 1..n /\ q \in [1..n -> D] /\ DOMAIN prices = D /\ MaxPrice \in Nat
  BY <1>1, PricingAssumption DEF Sorts
<1>3. PICK p \in 0..MaxPrice : p = prices[q[k]]
  BY <1>2
<1>4. \A i, j \in 1..n : i < j => q[i] # q[j] /\ prices[q[i]] <= prices[q[j]]
  BY <1>2 DEF InOrder, Sorts
<1>5. \A i, j \in 1..n : q[i] = q[j] => i = j
  BY <1>4
<1>6. \A v \in D : prices[v] \in Nat
  BY <1>2
<1> DEFINE atLeast == {v \in D : p <= prices[v]}
<1>7. Cardinality(UpTo(prices, p)) >= k
  <2> DEFINE f == [i \in 1..k |-> q[i]]
  <2>1. ASSUME NEW i \in 1..k PROVE i \in 1..n /\ q[i] \in UpTo(prices, p)
    <3>1. i \in 1..n /\ q[i] \in D /\ prices[q[i]] \in Nat
      <4>1. i \in 1..n
        BY <1>2
      <4>2. q[i] \in D
        BY <1>2, <4>1
      <4> QED BY <1>6, <4>1, <4>2
    <3>2. i < k => prices[q[i]] <= p
      BY <1>2, <1>3, <1>4, <3>1
    <3>3. prices[q[i]] <= p
      BY <1>2, <1>3, <3>1, <3>2
    <3> QED BY <1>2, <3>1, <3>3 DEF UpTo
  <2>2. f \in Injection(1..k, UpTo(prices, p))
    BY <1>5, <2>1 DEF Injection, IsInjective
  <2>3. IsFiniteSet(UpTo(prices, p))
    BY <1>2, FS_Subset DEF UpTo
  <2>4. Cardinality(1..k) <= Cardinality(UpTo(prices, p))
    BY <2>2, <2>3, FS_Injection
  <2>5. Cardinality(1..k) = k
    BY <1>2, FS_Interval
  <2> QED BY <2>4, <2>5
<1>8. Cardinality(atLeast) >= n - k + 1
  <2> DEFINE f == [i \in k..n |-> q[i]]
  <2>1. ASSUME NEW i \in k..n PROVE i \in 1..n /\ q[i] \in atLeast
    <3>1. i \in 1..n /\ q[i] \in D /\ prices[q[i]] \in Nat
      <4>1. i \in 1..n
        BY <1>2
      <4>2. q[i] \in D
        BY <1>2, <4>1
      <4> QED BY <1>6, <4>1, <4>2
    <3>2. k < i => p <= prices[q[i]]
      BY <1>2, <1>3, <1>4, <3>1
    <3>3. p <= prices[q[i]]
      BY <1>2, <1>3, <3>1, <3>2
    <3> QED BY <3>1, <3>3
  <2>2. f \in Injection(k..n, atLeast)
    BY <1>5, <2>1 DEF Injection, IsInjective
  <2>3. IsFiniteSet(atLeast)
    BY FS_Subset
  <2>4. Cardinality(k..n) <= Cardinality(atLeast)
    BY <2>2, <2>3, FS_Injection
  <2>5. Cardinality(k..n) = n - k + 1
    BY <1>2, FS_Interval
  <2> QED BY <2>4, <2>5
<1>9. Cardinality(Below(prices, p)) < k
  <2>1. Below(prices, p) \in SUBSET D /\ atLeast \in SUBSET D /\ Below(prices, p) \cap atLeast = {}
    BY <1>2, <1>3, <1>6 DEF Below
  <2>2. /\ Cardinality(Below(prices, p)) + Cardinality(atLeast) <= n
        /\ Cardinality(Below(prices, p)) \in Nat /\ Cardinality(atLeast) \in Nat
    BY <1>1, <2>1, Parts
  <2> QED BY <1>2, <1>8, <2>2
<1> QED BY <1>3, <1>7, <1>9, KthSmallestIs

\* The venues that are not after v: those with a lower price, and with the
\* same price those of a lower number.
NotAfter(prices, v) ==
    {w \in DOMAIN prices : prices[w] < prices[v] \/ (prices[w] = prices[v] /\ w <= v)}

LEMMA SortExists ==
    ASSUME NEW D \in SUBSET Nat, IsFiniteSet(D), NEW prices \in [D -> 0..MaxPrice]
    PROVE  \E q : Sorts(q, D, prices)
<1>1. PICK n \in Nat : n = Cardinality(D)
  BY FS_CardinalityType
<1>2. DOMAIN prices = D /\ \A v \in D : prices[v] \in Nat /\ v \in Nat
  BY PricingAssumption
<1> DEFINE place == [v \in D |-> Cardinality(NotAfter(prices, v))]
<1>3. ASSUME NEW v \in D
      PROVE  /\ NotAfter(prices, v) \in SUBSET D /\ IsFiniteSet(NotAfter(prices, v))
             /\ v \in NotAfter(prices, v) /\ place[v] = Cardinality(NotAfter(prices, v))
             /\ place[v] \in 1..n
  <2>1. NotAfter(prices, v) \in SUBSET D /\ v \in NotAfter(prices, v)
    BY <1>2 DEF NotAfter
  <2>2. IsFiniteSet(NotAfter(prices, v)) /\ Cardinality(NotAfter(prices, v)) <= n
    BY <1>1, <2>1, FS_Subset
  <2>3. Cardinality(NotAfter(prices, v)) \in Nat /\ Cardinality(NotAfter(prices, v)) # 0
    BY <2>1, <2>2, FS_CardinalityType, FS_EmptySet
  <2> QED BY <1>1, <2>1, <2>2, <2>3
<1>4. ASSUME NEW v \in D, NEW w \in D, v \in NotAfter(prices, w), v # w
      PROVE  place[v] < place[w]
  <2>1. ASSUME NEW u \in NotAfter(prices, v) PROVE u \in NotAfter(prices, w)
    <3>1. /\ u \in D /\ u \in Nat /\ v \in Nat /\ w \in Nat
          /\ prices[u] \in Nat /\ prices[v] \in Nat /\ prices[w] \in Nat
      BY <1>2 DEF NotAfter
    <3>2. prices[u] < prices[v] \/ (prices[u] = prices[v] /\ u <= v)
      BY DEF NotAfter
    <3>3. prices[v] < prices[w] \/ (prices[v] = prices[w] /\ v <= w)
      BY <1>4 DEF NotAfter
    <3>4. prices[u] < prices[w] \/ (prices[u] = prices[w] /\ u <= w)
      BY <3>1, <3>2, <3>3
    <3> QED BY <1>2, <3>1, <3>4 DEF NotAfter
  <2>2. w \notin NotAfter(prices, v)
    BY <1>2, <1>4 DEF NotAfter
  <2>3. NotAfter(prices, v) # NotAfter(prices, w) /\ NotAfter(prices, v) \in SUBSET NotAfter(prices, w)
    BY <1>3, <2>1, <2>2
  <2>4. /\ Cardinality(NotAfter(prices, v)) <= Cardinality(NotAfter(prices, w))
        /\ Cardinality(NotAfter(prices, v)) # Cardinality(NotAfter(prices, w))
    BY <1>3, <2>3, FS_Subset
  <2>5. place[v] <= place[w] /\ place[v] # place[w] /\ place[v] \in Nat /\ place[w] \in Nat
    BY <1>3, <2>4
  <2> QED BY <2>5
<1>5. \A v, w \in D : v # w => v \in NotAfter(prices, w) \/ w \in NotAfter(prices, v)
  BY <1>2 DEF NotAfter
<1>6. place \in [D -> 1..n] /\ DOMAIN place = D
  BY <1>3
<1> HIDE DEF place
<1>7. \A v, w \in D : place[v] = place[w] => v = w
  <2> SUFFICES ASSUME NEW v \in D, NEW w \in D, place[v] = place[w], v # w PROVE FALSE
    OBVIOUS
  <2>1. place[v] < place[w] \/ place[w] < place[v]
    BY <1>4, <1>5
  <2>2. place[v] \in Nat /\ place[w] \in Nat
    BY <1>3
  <2> QED BY <2>1, <2>2
<1>8. place \in Injection(D, 1..n)
  BY <1>6, <1>7 DEF Injection, IsInjective
<1>9. place \in Surjection(D, 1..n)
  <2>1. IsFiniteSet(1..n) /\ Cardinality(1..n) = n
    BY FS_Interval
  <2> QED BY <1>1, <1>8, <2>1, FS_Injection
<1> DEFINE q == [i \in 1..n |-> CHOOSE v \in D : place[v] = i]
<1>10. \A i \in 1..n : q[i] \in D /\ place[q[i]] = i
  BY <1>9 DEF Surjection
<1>11. q \in [1..n -> D] /\ DOMAIN q = 1..n
  BY <1>10
<1> HIDE DEF q
<1>12. ASSUME NEW i \in 1..n, NEW j \in 1..n, i < j
       PROVE  q[i] # q[j] /\ prices[q[i]] <= prices[q[j]]
  <2>1. PICK v \in D, w \in D : v = q[i] /\ w = q[j] /\ place[v] = i /\ place[w] = j
    BY <1>10
  <2>2. v # w
    BY <1>12, <2>1
  <2>3. v \in NotAfter(prices, w)
    <3>1. SUFFICES ASSUME w \in NotAfter(prices, v) PROVE FALSE
      BY <1>5, <2>2
    <3>2. place[w] < place[v]
      BY <1>4, <2>2, <3>1
    <3> QED BY <1>12, <2>1, <3>2
  <2>4. prices[v] <= prices[w]
    BY <1>2, <2>3 DEF NotAfter
  <2> QED BY <2>1, <2>2, <2>4
<1>13. InOrder(q, prices)
  BY <1>11, <1>12 DEF InOrder
<1> QED BY <1>1, <1>11, <1>13 DEF Sorts

LEMMA MedianIsSorted ==
    ASSUME NEW D, IsFiniteSet(D), D # {}, NEW prices \in [D -> 0..MaxPrice],
           \E q : Sorts(q, D, prices)
    PROVE  ComputeMedian(prices) = SortedMedian(prices)
<1>1. PICK n \in Nat : n = Cardinality(D) /\ n # 0
  BY FS_CardinalityType, FS_EmptySet
<1>2. DOMAIN prices = D
  OBVIOUS
<1>3. PICK q : /\ q = CHOOSE r \in [1..n -> D] : InOrder(r, prices)
               /\ Sorts(q, D, prices)
  BY <1>1 DEF Sorts
<1>4. ASSUME NEW k \in 1..n PROVE KthSmallest(prices, k) = prices[q[k]]
  <2>1. k \in 1..Cardinality(D) /\ Sorts(q, D, prices)
    BY <1>1, <1>3
  <2> QED BY <2>1, SortedKth
<1>5. CASE n % 2 = 1
  <2>1. (n \div 2) + 1 \in 1..n
    BY <1>1, <1>5
  <2>2. ComputeMedian(prices) = KthSmallest(prices, (n \div 2) + 1)
    BY <1>1, <1>2, <1>5 DEF ComputeMedian
  <2>3. SortedMedian(prices) = prices[q[(n \div 2) + 1]]
    BY <1>1, <1>2, <1>3, <1>5 DEF SortedMedian
  <2> QED BY <1>4, <2>1, <2>2, <2>3
<1>6. CASE n % 2 # 1
  <2>1. n \div 2 \in 1..n /\ (n \div 2) + 1 \in 1..n
    BY <1>1, <1>6
  <2>2. ComputeMedian(prices) =
           (KthSmallest(prices, n \div 2) + KthSmallest(prices, (n \div 2) + 1)) \div 2
    BY <1>1, <1>2, <1>6 DEF ComputeMedian
  <2>3. SortedMedian(prices) = (prices[q[n \div 2]] + prices[q[(n \div 2) + 1]]) \div 2
    BY <1>1, <1>2, <1>3, <1>6 DEF SortedMedian
  <2> QED BY <1>4, <2>1, <2>2, <2>3
<1> QED BY <1>5, <1>6

\* For every set of venues and prices: the canonical price is the middle of the
\* sorted prices that rejection leaves.
THEOREM PricingMedianMatchesSort == MarketSpec => []MedianMatchesSort
<1>1. MarketInv => MedianMatchesSort
  <2> SUFFICES ASSUME MarketInv, computed # None, Cardinality(Sources(market)) > 1, ~SingleVenueMode
               PROVE  computed.price = SortedMedian([v \in Kept |-> Reported[v]])
    BY DEF MedianMatchesSort
  <2> DEFINE D == Sources(market)
  <2>1. D \in SUBSET Nat /\ IsFiniteSet(D) /\ D # {} /\ Reported \in [D -> 0..MaxPrice]
    BY MarketPricesTyped, PricingAssumption DEF Sources
  <2>2. computed.price = ComputeMedian(RejectOutliers(Reported))
    <3>1. Cardinality(D) # 1
      OBVIOUS
    <3> QED BY <3>1, MarketMedian
  <2> HIDE DEF D
  <2>3. PICK K \in SUBSET D : K # {} /\ RejectOutliers(Reported) = [v \in K |-> Reported[v]]
    BY <2>1, RejectOutliersSome
  <2>4. Kept = K
    BY <2>3 DEF Kept
  <2>5. /\ K \in SUBSET Nat /\ IsFiniteSet(K)
        /\ [v \in K |-> Reported[v]] \in [K -> 0..MaxPrice]
    BY <2>1, <2>3, FS_Subset
  <2>6. \E q : Sorts(q, K, [v \in K |-> Reported[v]])
    BY <2>5, SortExists
  <2>7. ComputeMedian([v \in K |-> Reported[v]]) = SortedMedian([v \in K |-> Reported[v]])
    BY <2>3, <2>5, <2>6, MedianIsSorted
  <2> QED BY <2>2, <2>3, <2>4, <2>7
<1> QED BY <1>1, MarketInvariant, PTL
=============================================================================
