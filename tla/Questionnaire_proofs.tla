------------------------ MODULE Questionnaire_proofs ------------------------
(***************************************************************************)
(* Proofs about Questionnaire: the prices, for every rate and distance and *)
(* every valid request; and the questions, for every reply.                *)
(***************************************************************************)
EXTENDS Questionnaire, FiniteSetTheorems, WellFoundedInduction, TLAPS

-----------------------------------------------------------------------------
(* Rounding *)

LEMMA MaxOfTwo ==
  ASSUME NEW a \in Int, NEW b \in Int
  PROVE  /\ Max({a, b}) \in {a, b}
         /\ Max({a, b}) >= a /\ Max({a, b}) >= b
<1>1. \E x \in {a, b} : \A y \in {a, b} : x >= y
  <2>1. CASE a >= b
    BY <2>1
  <2>2. CASE b >= a
    BY <2>2
  <2> QED BY <2>1, <2>2
<1> QED BY <1>1 DEF Max

\* The divisors of the prices
Divisors == {4, 1000, 20000}

LEMMA RoundedUp ==
  ASSUME NEW a \in Nat, NEW b \in Divisors
  PROVE  /\ CeilDiv(a, b) \in Nat
         /\ b * CeilDiv(a, b) >= a
BY DEF CeilDiv, Divisors

LEMMA RoundingKeepsOrder ==
  ASSUME NEW a \in Nat, NEW c \in Nat, a =< c, NEW b \in Divisors
  PROVE  CeilDiv(a, b) =< CeilDiv(c, b)
BY DEF CeilDiv, Divisors

\* What applyQuoteProfitabilityFloor returns is not below either of its arguments.
LEMMA FlooredIsAbove ==
  ASSUME NEW subtotal \in Nat, NEW minimum \in Nat
  PROVE  /\ Floored(subtotal, minimum) \in Nat
         /\ Floored(subtotal, minimum) >= minimum
<1> DEFINE top == Max({subtotal, minimum})
<1>1. top \in Nat /\ top >= minimum
  BY MaxOfTwo
<1> HIDE DEF top
<1>2. CeilDiv(top, 1000) \in Nat /\ 1000 * CeilDiv(top, 1000) >= top
  BY <1>1, RoundedUp DEF Divisors
<1>3. Floored(subtotal, minimum) = 1000 * CeilDiv(top, 1000)
  BY DEF Floored, top
<1> QED BY <1>1, <1>2, <1>3

LEMMA FlooredKeepsOrder ==
  ASSUME NEW s \in Nat, NEW t \in Nat, s =< t, NEW m \in Nat, NEW n \in Nat, m =< n
  PROVE  Floored(s, m) =< Floored(t, n)
<1> DEFINE low == Max({s, m})
           high == Max({t, n})
<1>1. low \in {s, m} /\ low >= s /\ low >= m
  BY MaxOfTwo
<1>2. high \in {t, n} /\ high >= t /\ high >= n
  BY MaxOfTwo
<1> HIDE DEF low, high
<1>3. low \in Nat /\ high \in Nat /\ low =< high
  BY <1>1, <1>2
<1>4. CeilDiv(low, 1000) =< CeilDiv(high, 1000)
  BY <1>3, RoundingKeepsOrder DEF Divisors
<1>5. CeilDiv(low, 1000) \in Nat /\ CeilDiv(high, 1000) \in Nat
  BY <1>3, RoundedUp DEF Divisors
<1>6. /\ Floored(s, m) = 1000 * CeilDiv(low, 1000)
      /\ Floored(t, n) = 1000 * CeilDiv(high, 1000)
  BY DEF Floored, low, high
<1> QED BY <1>4, <1>5, <1>6

-----------------------------------------------------------------------------
(* The least contribution keeps the margin *)

LEMMA ContributionKeepsMargin ==
  ASSUME NEW cost \in Nat, NEW total \in Nat, total >= cost + MinimumContribution(cost)
  PROVE  total - cost >= 10000 /\ 5 * (total - cost) >= total
<1>1. CeilDiv(cost, 4) \in Nat /\ 4 * CeilDiv(cost, 4) >= cost
  BY RoundedUp DEF Divisors
<1>2. PICK q \in Nat : q = CeilDiv(cost, 4) /\ 4 * q >= cost
  BY <1>1
<1>3. /\ Max({10000, q}) \in {10000, q}
      /\ Max({10000, q}) >= 10000 /\ Max({10000, q}) >= q
  BY MaxOfTwo
<1>4. PICK c \in Nat : c = MinimumContribution(cost) /\ c >= 10000 /\ c >= q
  BY <1>2, <1>3 DEF MinimumContribution
<1> QED BY <1>2, <1>4

LEMMA ContributionKeepsOrder ==
  ASSUME NEW cost \in Nat, NEW more \in Nat, cost =< more
  PROVE  /\ MinimumContribution(cost) \in Nat /\ MinimumContribution(more) \in Nat
         /\ MinimumContribution(cost) =< MinimumContribution(more)
<1>1. /\ CeilDiv(cost, 4) \in Nat /\ CeilDiv(more, 4) \in Nat
      /\ CeilDiv(cost, 4) =< CeilDiv(more, 4)
  BY RoundedUp, RoundingKeepsOrder DEF Divisors
<1>2. PICK q \in Nat, r \in Nat : q = CeilDiv(cost, 4) /\ r = CeilDiv(more, 4) /\ q =< r
  BY <1>1
<1>3. Max({10000, q}) \in {10000, q} /\ Max({10000, q}) >= 10000 /\ Max({10000, q}) >= q
  BY MaxOfTwo
<1>4. Max({10000, r}) \in {10000, r} /\ Max({10000, r}) >= 10000 /\ Max({10000, r}) >= r
  BY MaxOfTwo
<1>5. /\ MinimumContribution(cost) = Max({10000, q})
      /\ MinimumContribution(more) = Max({10000, r})
  BY <1>2 DEF MinimumContribution
<1> QED BY <1>2, <1>3, <1>4, <1>5

-----------------------------------------------------------------------------
(* What a valid request has *)

LEMMA ValidGroups ==
  ASSUME NEW d, IncompleteGroups(d) = {}
  PROVE  ValidProperty(d) /\ ValidRequest(d)
<1>1. "property" \in Groups /\ "request" \in Groups
  BY DEF Groups, FactsOf
<1>2. Valid(d, "property") /\ Valid(d, "request")
  BY <1>1 DEF IncompleteGroups
<1> QED BY <1>2 DEF Valid

LEMMA ValidSizes ==
  ASSUME NEW d, ValidProperty(d)
  PROVE  /\ d.floorSize \in {FloorSizes[i] : i \in 1..9} \cup {"UNKNOWN"}
         /\ d.bedrooms \in {"STUDIO", "ONE", "TWO", "THREE", "FOUR", "FIVE_PLUS", "OTHER"}
         /\ d.bathrooms \in {"ONE", "TWO", "THREE", "FOUR", "FIVE_PLUS"}
         /\ d.livingAreas \in {"ONE", "TWO", "THREE", "FOUR_PLUS"}
<1>1. \A f \in {"floorSize", "bedrooms", "bathrooms", "livingAreas"} : d[f] \in PropertyWords[f]
  BY DEF ValidProperty, PropertyWords
<1>2. d.floorSize \in {"UNDER_40", "FROM_40_TO_59", "FROM_60_TO_79", "FROM_80_TO_99",
                       "FROM_100_TO_129", "FROM_130_TO_169", "FROM_170_TO_219",
                       "FROM_220_TO_299", "FROM_300_UP", "UNKNOWN"}
  BY <1>1 DEF PropertyWords
<1>3. d.floorSize \in {FloorSizes[i] : i \in 1..9} \cup {"UNKNOWN"}
  BY <1>2 DEF FloorSizes
<1> QED BY <1>1, <1>3 DEF PropertyWords

\* Each size has one place in the order.
LEMMA FloorPlaces ==
  ASSUME NEW i \in 1..9
  PROVE  /\ FloorIndex(FloorSizes[i]) = i
         /\ FloorSizes[i] # "UNKNOWN"
         /\ FloorSizes[i] = "FROM_300_UP" <=> i = 9
         /\ DOMAIN FloorSizes = 1..9
<1>1. \A j, k \in 1..9 : FloorSizes[j] = FloorSizes[k] => j = k
  BY DEF FloorSizes
<1>2. DOMAIN FloorSizes = 1..9
  BY DEF FloorSizes
<1>3. FloorIndex(FloorSizes[i]) = i
  BY <1>1, <1>2 DEF FloorIndex
<1>4. FloorSizes[i] # "UNKNOWN" /\ (FloorSizes[i] = "FROM_300_UP" <=> i = 9)
  BY DEF FloorSizes
<1> QED BY <1>2, <1>3, <1>4

\* Prices and workloads grow with the home.
LEMMA FloorTables ==
  ASSUME NEW service \in FloorServices
  PROVE  /\ \A i \in 1..9 : FloorPrice(service)[i] \in Nat
         /\ \A i \in 1..8 : FloorPrice(service)[i] =< FloorPrice(service)[i + 1]
         /\ \A i \in 1..8 : FloorHalfHours(service)[i] \in Nat
         /\ \A i \in 1..7 : FloorHalfHours(service)[i] =< FloorHalfHours(service)[i + 1]
<1>1. CASE service = "Regular_Home_Cleaning"
  <2>1. \A i \in 1..9 : FloorPrice(service)[i] \in Nat
    BY <1>1 DEF FloorPrice
  <2>2. \A i \in 1..8 : FloorPrice(service)[i] =< FloorPrice(service)[i + 1]
    BY <1>1 DEF FloorPrice
  <2>3. \A i \in 1..8 : FloorHalfHours(service)[i] \in Nat
    BY <1>1 DEF FloorHalfHours
  <2>4. \A i \in 1..7 : FloorHalfHours(service)[i] =< FloorHalfHours(service)[i + 1]
    BY <1>1 DEF FloorHalfHours
  <2> QED BY <2>1, <2>2, <2>3, <2>4
<1>2. CASE service = "Deep_Cleaning"
  <2>1. \A i \in 1..9 : FloorPrice(service)[i] \in Nat
    BY <1>2 DEF FloorPrice
  <2>2. \A i \in 1..8 : FloorPrice(service)[i] =< FloorPrice(service)[i + 1]
    BY <1>2 DEF FloorPrice
  <2>3. \A i \in 1..8 : FloorHalfHours(service)[i] \in Nat
    BY <1>2 DEF FloorHalfHours
  <2>4. \A i \in 1..7 : FloorHalfHours(service)[i] =< FloorHalfHours(service)[i + 1]
    BY <1>2 DEF FloorHalfHours
  <2> QED BY <2>1, <2>2, <2>3, <2>4
<1>3. CASE service \in {"Move_In_Cleaning", "Move_Out_Cleaning"}
  <2>1. \A i \in 1..9 : FloorPrice(service)[i] \in Nat
    BY <1>3 DEF FloorPrice
  <2>2. \A i \in 1..8 : FloorPrice(service)[i] =< FloorPrice(service)[i + 1]
    BY <1>3 DEF FloorPrice
  <2>3. \A i \in 1..8 : FloorHalfHours(service)[i] \in Nat
    BY <1>3 DEF FloorHalfHours
  <2>4. \A i \in 1..7 : FloorHalfHours(service)[i] =< FloorHalfHours(service)[i + 1]
    BY <1>3 DEF FloorHalfHours
  <2> QED BY <2>1, <2>2, <2>3, <2>4
<1> QED BY <1>1, <1>2, <1>3 DEF FloorServices

LEMMA EventTables ==
  /\ \A i \in 1..8 : EventBase.price[i] \in Nat /\ EventBase.halfHours[i] \in Nat
  /\ \A i \in 1..7 : /\ EventBase.price[i] =< EventBase.price[i + 1]
                     /\ EventBase.halfHours[i] =< EventBase.halfHours[i + 1]
BY DEF EventBase

-----------------------------------------------------------------------------
(* Hours and amounts *)

LEMMA RoomCounts ==
  ASSUME NEW d, ValidProperty(d), NEW service \in DOMAIN Room
  PROVE  LET room == Room[service] IN
         /\ Count(d[room.of]) \in 0..5
         /\ d[room.of] # "OTHER" => Count(d[room.of]) >= 1
         /\ room.first \in Nat /\ room.more \in Nat
         /\ room.firstHalfHours \in Nat /\ room.moreHalfHours \in Nat
<1>1. /\ Count(d.bathrooms) \in 1..5 /\ Count(d.livingAreas) \in 1..4
      /\ Count(d.bedrooms) \in 0..5 /\ (d.bedrooms # "OTHER" => Count(d.bedrooms) >= 1)
  BY ValidSizes DEF Count
<1>2. CASE service = "Bathroom_Sanitisation"
  BY <1>1, <1>2 DEF Room
<1>3. CASE service = "Bedroom_Cleaning"
  BY <1>1, <1>3 DEF Room
<1>4. CASE service = "Living_Area_Cleaning"
  BY <1>1, <1>4 DEF Room
<1>5. service \in {"Bathroom_Sanitisation", "Bedroom_Cleaning", "Living_Area_Cleaning"}
  BY DEF Room
<1> QED BY <1>2, <1>3, <1>4, <1>5

\* What a Post-Event visit takes beyond the size of the home.
LEMMA ExtraIsCounted ==
  ASSUME NEW d, ValidEvent(d)
  PROVE  EventExtraHalfHours(d) \in Nat
<1> DEFINE areas == {"PATIO", "BALCONY", "BRAAI_AREA", "GARDEN_ENTERTAINMENT_AREA"}
<1>1. IsFiniteSet(areas)
  <2>1. IsFiniteSet({"PATIO"}) /\ IsFiniteSet({"BALCONY"})
        /\ IsFiniteSet({"BRAAI_AREA"}) /\ IsFiniteSet({"GARDEN_ENTERTAINMENT_AREA"})
    BY FS_Singleton
  <2>2. IsFiniteSet({"PATIO"} \cup {"BALCONY"})
        /\ IsFiniteSet({"BRAAI_AREA"} \cup {"GARDEN_ENTERTAINMENT_AREA"})
    BY <2>1, FS_Union
  <2>3. IsFiniteSet(({"PATIO"} \cup {"BALCONY"})
                      \cup ({"BRAAI_AREA"} \cup {"GARDEN_ENTERTAINMENT_AREA"}))
    BY <2>2, FS_Union
  <2>4. areas = ({"PATIO"} \cup {"BALCONY"}) \cup ({"BRAAI_AREA"} \cup {"GARDEN_ENTERTAINMENT_AREA"})
    OBVIOUS
  <2> QED BY <2>3, <2>4
<1>2. d.outdoorAreas \subseteq areas
  BY DEF ValidEvent
<1>3. Cardinality(d.outdoorAreas) \in Nat
  BY <1>1, <1>2, FS_Subset, FS_CardinalityType
<1>4. /\ d.guestBand \in {"ONE_TO_20", "FROM_21_TO_50", "FROM_51_TO_100",
                          "FROM_101_TO_150", "FROM_150_UP"}
      /\ d.dishwashing \in {"NONE", "MODERATE", "HEAVY"}
      /\ d.wasteLevel \in {"LIGHT", "MODERATE", "HEAVY"}
      /\ d.eventBathrooms \in Nat \ {0}
  BY DEF ValidEvent
<1> HIDE DEF areas
<1>5. [ONE_TO_20 |-> 0, FROM_21_TO_50 |-> 4, FROM_51_TO_100 |-> 8,
       FROM_101_TO_150 |-> 14, FROM_150_UP |-> 0][d.guestBand] \in Nat
  BY <1>4
<1>6. [NONE |-> 0, MODERATE |-> 4, HEAVY |-> 8][d.dishwashing] \in Nat
  BY <1>4
<1>7. [LIGHT |-> 0, MODERATE |-> 3, HEAVY |-> 6][d.wasteLevel] \in Nat
  BY <1>4
<1>8. PICK g \in Nat : g = [ONE_TO_20 |-> 0, FROM_21_TO_50 |-> 4, FROM_51_TO_100 |-> 8,
                           FROM_101_TO_150 |-> 14, FROM_150_UP |-> 0][d.guestBand]
  BY <1>5
<1>9. PICK w \in Nat : w = [NONE |-> 0, MODERATE |-> 4, HEAVY |-> 8][d.dishwashing]
  BY <1>6
<1>10. PICK l \in Nat : l = [LIGHT |-> 0, MODERATE |-> 3, HEAVY |-> 6][d.wasteLevel]
  BY <1>7
<1>11. PICK c \in Nat : c = Cardinality(d.outdoorAreas)
  BY <1>3
<1>12. d.eventBathrooms - 1 \in Nat
  BY <1>4
<1>13. PICK b \in Nat : b = d.eventBathrooms - 1
  BY <1>12
<1>14. EventExtraHalfHours(d) =
        g + 3 * b + (IF d.kitchenSubstantiallyUsed THEN 4 ELSE 0) + w + 3 * c
          + (IF "GARDEN_ENTERTAINMENT_AREA" \in d.outdoorAreas THEN 2 ELSE 0)
          + l + (IF d.significantOrdinarySoiling THEN 4 ELSE 0)
  BY <1>8, <1>9, <1>10, <1>11, <1>13, Zenon DEF EventExtraHalfHours
<1> QED BY <1>14

\* An event that is priced takes place in a home of a known size.
LEMMA EventIsSized ==
  ASSUME NEW d, ValidProperty(d), EventReviews(d) = {}
  PROVE  \E i \in 1..8 : d.floorSize = FloorSizes[i] /\ FloorIndex(d.floorSize) = i
<1>1. d.floorSize # "UNKNOWN" /\ d.floorSize # "FROM_300_UP"
  BY DEF EventReviews
<1>2. PICK i \in 1..9 : d.floorSize = FloorSizes[i]
  BY <1>1, ValidSizes
<1> QED BY <1>1, <1>2, FloorPlaces

LEMMA HalfHoursCounted ==
  ASSUME NEW d, ValidProperty(d), ValidRequest(d), CleanerHalfHours(d) # None
  PROVE  CleanerHalfHours(d) \in Nat
<1>1. CASE d.primaryService = PostEvent
  <2>1. EventReviews(d) = {} /\ CleanerHalfHours(d) = EventHalfHours(d)
    BY <1>1 DEF CleanerHalfHours, PostEvent, FloorServices, Room
  <2>2. PICK i \in 1..8 : FloorIndex(d.floorSize) = i
    BY <2>1, EventIsSized
  <2>3. EventExtraHalfHours(d) \in Nat
    BY <1>1, ExtraIsCounted DEF ValidRequest
  <2> QED BY <2>1, <2>2, <2>3, EventTables DEF EventHalfHours
<1>2. CASE d.primaryService \in FloorServices
  <2>1. /\ d.floorSize \notin {"UNKNOWN", "FROM_300_UP"}
        /\ CleanerHalfHours(d) = FloorHalfHours(d.primaryService)[FloorIndex(d.floorSize)]
    BY <1>2 DEF CleanerHalfHours, PostEvent, FloorServices, Room
  <2>2. PICK i \in 1..9 : d.floorSize = FloorSizes[i]
    BY <2>1, ValidSizes
  <2> QED BY <1>2, <2>1, <2>2, FloorPlaces, FloorTables
<1>3. CASE d.primaryService \in DOMAIN Room
  <2> DEFINE room == Room[d.primaryService]
  <2>1. /\ d[room.of] # "OTHER"
        /\ CleanerHalfHours(d) =
             room.firstHalfHours + room.moreHalfHours * (Count(d[room.of]) - 1)
    BY <1>3 DEF CleanerHalfHours, PostEvent, FloorServices, Room
  <2>2. Count(d[room.of]) - 1 \in Nat /\ room.firstHalfHours \in Nat /\ room.moreHalfHours \in Nat
    BY <1>3, <2>1, RoomCounts
  <2> HIDE DEF room
  <2> QED BY <2>1, <2>2
<1> QED BY <1>1, <1>2, <1>3 DEF CleanerHalfHours

-----------------------------------------------------------------------------
(* What a visit costs *)

LEMMA ProductsKeepOrder ==
  ASSUME NEW h \in Nat, NEW k \in Nat, h =< k, NEW rate \in Nat
  PROVE  3327 * h * rate \in Nat /\ 3327 * h * rate =< 3327 * k * rate
<1>1. PICK j \in Nat : k = h + j
  <2>1. k - h \in Nat /\ k = h + (k - h)
    OBVIOUS
  <2> QED BY <2>1
<1>2. 3327 * h * rate \in Nat /\ 3327 * j * rate \in Nat
  OBVIOUS
<1>3. 3327 * k * rate = 3327 * h * rate + 3327 * j * rate
  BY <1>1
<1> QED BY <1>2, <1>3

LEMMA LabourKeepsOrder ==
  ASSUME NEW h \in Nat, NEW k \in Nat, h =< k, CoidaRate # None
  PROVE  Labour(h) \in Nat /\ Labour(h) =< Labour(k)
<1>1. PICK rate \in Nat : rate = 10100 + CoidaRate
  BY CoidaRateKnown
<1>2. /\ 3327 * h * rate \in Nat /\ 3327 * k * rate \in Nat
      /\ 3327 * h * rate =< 3327 * k * rate
  BY ProductsKeepOrder
<1>3. PICK low \in Nat, high \in Nat :
        low = 3327 * h * rate /\ high = 3327 * k * rate /\ low =< high
  BY <1>2
<1>4. CeilDiv(low, 20000) \in Nat /\ CeilDiv(low, 20000) =< CeilDiv(high, 20000)
  <2>1. 20000 \in Divisors
    BY DEF Divisors
  <2> QED BY <1>3, <2>1, RoundedUp, RoundingKeepsOrder
<1>5. Labour(h) = CeilDiv(low, 20000) /\ Labour(k) = CeilDiv(high, 20000)
  BY <1>1, <1>3 DEF Labour
<1> QED BY <1>4, <1>5

\* More hours at the same service never cost less.
LEMMA CostKeepsOrder ==
  ASSUME NEW d, NEW e, CostsReady(d), CostsReady(e), d.primaryService = e.primaryService,
         CleanerHalfHours(d) \in Nat, CleanerHalfHours(e) \in Nat,
         CleanerHalfHours(d) =< CleanerHalfHours(e)
  PROVE  CostTotal(d) \in Nat /\ CostTotal(e) \in Nat /\ CostTotal(d) =< CostTotal(e)
<1>1. PICK h \in Nat : h = CleanerHalfHours(d)
  OBVIOUS
<1>2. PICK k \in Nat : k = CleanerHalfHours(e)
  OBVIOUS
<1>3. CoidaRate # None /\ RouteKm \in Nat
  BY RouteKmKnown DEF CostsReady
<1>4. Labour(h) \in Nat /\ Labour(k) \in Nat /\ Labour(h) =< Labour(k)
  BY <1>1, <1>2, <1>3, LabourKeepsOrder
<1>5. PICK service : service = d.primaryService /\ service = e.primaryService
  OBVIOUS
<1>6. /\ Consumables(service, h) \in Nat /\ Consumables(service, k) \in Nat
      /\ Consumables(service, h) =< Consumables(service, k)
  <2>1. CASE service = "Regular_Home_Cleaning"
    BY <2>1, <1>1, <1>2 DEF Consumables
  <2>2. CASE service = "Deep_Cleaning"
    BY <2>2, <1>1, <1>2 DEF Consumables
  <2>3. CASE service \in {"Move_In_Cleaning", "Move_Out_Cleaning"}
    BY <2>3, <1>1, <1>2 DEF Consumables
  <2>4. CASE service \in {"Kitchen_Cleaning", "Bathroom_Sanitisation"}
    BY <2>4, <1>1, <1>2 DEF Consumables
  <2>5. CASE service \notin {"Regular_Home_Cleaning", "Deep_Cleaning", "Move_In_Cleaning",
                             "Move_Out_Cleaning", "Kitchen_Cleaning",
                             "Bathroom_Sanitisation"}
    BY <2>5, <1>1, <1>2 DEF Consumables
  <2> QED BY <2>1, <2>2, <2>3, <2>4, <2>5
<1>7. /\ CostTotal(d) = Labour(h) + 182 * RouteKm + Consumables(service, h) + 100 * h + 1000 * h
      /\ CostTotal(e) = Labour(k) + 182 * RouteKm + Consumables(service, k) + 100 * k + 1000 * k
  BY <1>1, <1>2, <1>5 DEF CostTotal
<1> QED BY <1>1, <1>2, <1>3, <1>4, <1>6, <1>7

LEMMA CostIsCounted ==
  ASSUME NEW d, ValidProperty(d), ValidRequest(d), CostsReady(d)
  PROVE  CostTotal(d) \in Nat
<1>1. CleanerHalfHours(d) \in Nat
  BY HalfHoursCounted DEF CostsReady
<1> QED BY <1>1, CostKeepsOrder

-----------------------------------------------------------------------------
(* What the customer is asked to pay *)

LEMMA PrimaryIsPriced ==
  ASSUME NEW d, ValidProperty(d), ValidRequest(d)
  PROVE  PrimaryPriced(d).amount \in Nat
<1> DEFINE service == d.primaryService
<1>1. CASE service = NotSure
  BY <1>1 DEF PrimaryPriced, Priced, NotSure, PostEvent, FloorServices, Room
<1>2. CASE service = PostEvent
  <2>1. PrimaryPriced(d) = EventPriced(d)
    BY <1>2 DEF PrimaryPriced, NotSure, PostEvent, FloorServices, Room
  <2>2. CASE EventReviews(d) # {}
    BY <2>1, <2>2 DEF EventPriced, Priced
  <2>3. CASE EventReviews(d) = {}
    <3>1. PICK i \in 1..8 : FloorIndex(d.floorSize) = i
      BY <2>3, EventIsSized
    <3>2. EventExtraHalfHours(d) \in Nat
      BY <1>2, ExtraIsCounted DEF ValidRequest
    <3>3. EventPrice(d) \in Nat
      BY <3>1, <3>2, EventTables DEF EventPrice
    <3> QED BY <2>1, <2>3, <3>3 DEF EventPriced, Priced
  <2> QED BY <2>2, <2>3
<1>3. CASE service \in FloorServices
  <2>1. PrimaryPriced(d) = FloorPriced(d)
    BY <1>3 DEF PrimaryPriced, NotSure, PostEvent, FloorServices, Room
  <2>2. CASE d.floorSize = "UNKNOWN"
    BY <2>1, <2>2 DEF FloorPriced, Priced
  <2>3. CASE d.floorSize # "UNKNOWN"
    <3>1. PICK i \in 1..9 : d.floorSize = FloorSizes[i]
      BY <2>3, ValidSizes
    <3>2. FloorPrice(service)[i] \in Nat /\ FloorIndex(d.floorSize) = i
      BY <1>3, <3>1, FloorPlaces, FloorTables
    <3> QED BY <2>1, <2>3, <3>2 DEF FloorPriced, Priced
  <2> QED BY <2>2, <2>3
<1>4. CASE service \in DOMAIN Room
  <2> DEFINE room == Room[service]
  <2>1. PrimaryPriced(d) = RoomPriced(d)
    BY <1>4 DEF PrimaryPriced, NotSure, PostEvent, FloorServices, Room
  <2>2. Count(d[room.of]) \in 0..5 /\ room.first \in Nat /\ room.more \in Nat
    BY <1>4, RoomCounts
  <2>3. RoomPriced(d).amount =
          IF Count(d[room.of]) = 0 THEN 0 ELSE room.first + room.more * (Count(d[room.of]) - 1)
    BY DEF RoomPriced, Priced
  <2> HIDE DEF room
  <2> QED BY <2>1, <2>2, <2>3
<1>5. CASE service \notin {NotSure, PostEvent} \cup FloorServices \cup DOMAIN Room
  BY <1>5 DEF PrimaryPriced, Priced
<1> QED BY <1>1, <1>2, <1>3, <1>4, <1>5

LEMMA LaundryIsPriced ==
  ASSUME NEW d, NEW structured \in BOOLEAN
  PROVE  LaundryPriced(d, structured).amount \in Nat
<1>1. CASE ~structured \/ ~LaundrySupplied(d) \/ LaundryErrors(d) # {}
  BY <1>1 DEF LaundryPriced, Nothing, Priced
<1>2. CASE structured /\ LaundrySupplied(d) /\ LaundryErrors(d) = {}
  <2>1. /\ d.laundryLoads # None => d.laundryLoads \in Nat
        /\ d.ironingLoads # None => d.ironingLoads \in Nat
    BY <1>2 DEF LaundryErrors
  <2> QED BY <1>2, <2>1 DEF LaundryPriced, Priced
<1> QED BY <1>1, <1>2

LEMMA AddOnIsPriced ==
  ASSUME NEW a, NEW quantity \in Nat, NEW detail
  PROVE  ReviewedAddOn(a, quantity, detail).amount \in Nat
BY DEF ReviewedAddOn, Priced

LEMMA AddOnsArePriced ==
  ASSUME NEW d, ValidRequest(d), NEW detail
  PROVE  AddOnsReviewed(d, detail).amount \in Nat /\ AddOnsPriced(d).amount = 0
<1> DEFINE row(a) == IF a \in DOMAIN d.addOns THEN ReviewedAddOn(a, d.addOns[a], detail)
                     ELSE Nothing
<1>1. \A a : row(a).amount \in Nat
  <2>1. \A a \in DOMAIN d.addOns : d.addOns[a] \in Nat
    BY DEF ValidRequest, ValidAddOns
  <2>2. Nothing.amount \in Nat
    BY DEF Nothing
  <2> QED BY <2>1, <2>2, AddOnIsPriced
<1>2. AddOnsReviewed(d, detail).amount =
        row("Pet_Hair_Treatment").amount + row("Inside_Oven_Cleaning").amount
          + row("Garage_Sweeping").amount + row("Extra_Bathroom_Cleaning").amount
  BY DEF AddOnsReviewed, Priced
<1> HIDE DEF row
<1> QED BY <1>1, <1>2 DEF AddOnsPriced, Priced

\* A price of known costs covers the cost and the least contribution.
LEMMA PriceCoversMinimum ==
  ASSUME NEW d, ValidProperty(d), ValidRequest(d), NEW structured \in BOOLEAN,
         NEW addOns, addOns.amount \in Nat
  PROVE  LET total == Pricing(d, structured, addOns).total IN
         total \in Nat /\ (CostsReady(d) => total >= RequiredMinimum(d))
<1>1. PICK subtotal \in Nat :
        subtotal = PrimaryPriced(d).amount + addOns.amount + LaundryPriced(d, structured).amount
  BY PrimaryIsPriced, LaundryIsPriced
<1>2. CASE ~CostsReady(d)
  BY <1>1, <1>2 DEF Pricing
<1>3. CASE CostsReady(d)
  <2>1. CostTotal(d) \in Nat
    BY <1>3, CostIsCounted
  <2>2. MinimumContribution(CostTotal(d)) \in Nat
    BY <2>1, ContributionKeepsOrder
  <2>3. RequiredMinimum(d) \in Nat
    BY <2>1, <2>2 DEF RequiredMinimum
  <2>4. Pricing(d, structured, addOns).total = Floored(subtotal, RequiredMinimum(d))
    BY <1>1, <1>3 DEF Pricing
  <2> QED BY <1>3, <2>3, <2>4, FlooredIsAbove
<1> QED BY <1>2, <1>3

-----------------------------------------------------------------------------
(* The next question *)

\* A nonempty set of natural numbers has a least one.
LEMMA LeastNatural ==
  ASSUME NEW T \in SUBSET Nat, T # {}
  PROVE  Min(T) \in T /\ \A y \in T : Min(T) <= y
<1>1. PICK R : /\ R = {ss \in Nat \X Nat : ss[1] < ss[2]}
               /\ IsWellFoundedOn(R, Nat)
  BY NatLessThanWellFounded, Zenon DEF OpToRel
<1>2. \E x \in T : \A y \in T : ~ (<<y, x>> \in R)
  BY <1>1, WFMin, Zenon
<1>3. \A x, y \in Nat : <<y, x>> \in R <=> y < x
  BY <1>1
<1>4. PICK x \in T : \A y \in T : ~ (<<y, x>> \in R)
  BY <1>2, Zenon
<1>5. \A y \in T : y \in Nat /\ x \in Nat /\ ~ (y < x)
  BY <1>3, <1>4, Zenon
<1>6. \E z \in T : \A y \in T : z =< y
  BY <1>5
<1> QED
  BY <1>6 DEF Min

\* The questions a collector may ask, as its order goes through them.
HomeOpen(d, q)        == HomeApplies(d, q) /\ d[HomeFact[q]] = None
CleaningOpen(d, q)    == CleaningApplies(d, q) /\ d[CleaningFact[q]] = None
EventOpen(d, q)       == d[EventFact[q]] = None
PersonaliseOpen(d, q) == PersonaliseApplies(d, q) /\ PersonaliseUnanswered(d, q)
VisitOpen(d, q)       == VisitApplies(d, q) /\ d[VisitFact[q]] = None
FinalOpen(d, q)       == d[FinalFact[q]] = None

\* The first of the places `at` names a question, when there is one.
LEMMA FirstIsLeast ==
  ASSUME NEW questions, NEW names, None \notin names, DOMAIN questions \in SUBSET Nat,
         \A i \in DOMAIN questions : questions[i] \in names,
         NEW at \in SUBSET DOMAIN questions
  PROVE  LET q == IF at = {} THEN None ELSE questions[Min(at)] IN
         /\ q = None => at = {}
         /\ q # None => \E i \in at : q = questions[i] /\ \A j \in at : i =< j
<1>1. CASE at = {}
  BY <1>1
<1>2. CASE at # {}
  BY <1>2, LeastNatural
<1> QED BY <1>1, <1>2

LEMMA HomeOrder ==
  /\ DOMAIN HomeQuestions = 1..12
  /\ \A i \in 1..12 : HomeQuestions[i] \in DOMAIN HomeFact
  /\ \A q \in DOMAIN HomeFact : \E i \in 1..12 : HomeQuestions[i] = q
<1>1. DOMAIN HomeQuestions = 1..12 /\ \A i \in 1..12 : HomeQuestions[i] \in DOMAIN HomeFact
  BY DEF HomeQuestions, HomeFact
<1>2. \A q \in DOMAIN HomeFact : \E i \in 1..12 : HomeQuestions[i] = q
  BY DEF HomeQuestions, HomeFact
<1> QED BY <1>1, <1>2

LEMMA CleaningOrder ==
  /\ DOMAIN CleaningQuestions = 1..4
  /\ \A i \in 1..4 : CleaningQuestions[i] \in DOMAIN CleaningFact
  /\ \A q \in DOMAIN CleaningFact : \E i \in 1..4 : CleaningQuestions[i] = q
<1>1. DOMAIN CleaningQuestions = 1..4 /\ \A i \in 1..4 : CleaningQuestions[i] \in DOMAIN CleaningFact
  BY DEF CleaningQuestions, CleaningFact
<1>2. \A q \in DOMAIN CleaningFact : \E i \in 1..4 : CleaningQuestions[i] = q
  BY DEF CleaningQuestions, CleaningFact
<1> QED BY <1>1, <1>2

LEMMA EventOrder ==
  /\ DOMAIN EventQuestions = 1..14
  /\ \A i \in 1..14 : EventQuestions[i] \in DOMAIN EventFact
  /\ \A q \in DOMAIN EventFact : \E i \in 1..14 : EventQuestions[i] = q
<1>1. DOMAIN EventQuestions = 1..14 /\ \A i \in 1..14 : EventQuestions[i] \in DOMAIN EventFact
  BY DEF EventQuestions, EventFact
<1>2. \A q \in DOMAIN EventFact : \E i \in 1..14 : EventQuestions[i] = q
  BY DEF EventQuestions, EventFact
<1> QED BY <1>1, <1>2

LEMMA PersonaliseOrder ==
  /\ DOMAIN PersonaliseQuestions = 1..7
  /\ \A i \in 1..7 : PersonaliseQuestions[i] \in DOMAIN PersonaliseFact
  /\ \A q \in DOMAIN PersonaliseFact : \E i \in 1..7 : PersonaliseQuestions[i] = q
<1>1. DOMAIN PersonaliseQuestions = 1..7 /\ \A i \in 1..7 : PersonaliseQuestions[i] \in DOMAIN PersonaliseFact
  BY DEF PersonaliseQuestions, PersonaliseFact
<1>2. \A q \in DOMAIN PersonaliseFact : \E i \in 1..7 : PersonaliseQuestions[i] = q
  BY DEF PersonaliseQuestions, PersonaliseFact
<1> QED BY <1>1, <1>2

LEMMA VisitOrder ==
  /\ DOMAIN VisitQuestions = 1..15
  /\ \A i \in 1..15 : VisitQuestions[i] \in DOMAIN VisitFact
  /\ \A q \in DOMAIN VisitFact : \E i \in 1..15 : VisitQuestions[i] = q
<1>1. DOMAIN VisitQuestions = 1..15 /\ \A i \in 1..15 : VisitQuestions[i] \in DOMAIN VisitFact
  BY DEF VisitQuestions, VisitFact
<1>2. \A q \in DOMAIN VisitFact : \E i \in 1..15 : VisitQuestions[i] = q
  BY DEF VisitQuestions, VisitFact
<1> QED BY <1>1, <1>2

LEMMA FinalOrder ==
  /\ DOMAIN FinalQuestions = 1..14
  /\ \A i \in 1..14 : FinalQuestions[i] \in DOMAIN FinalFact
  /\ \A q \in DOMAIN FinalFact : \E i \in 1..14 : FinalQuestions[i] = q
<1>1. DOMAIN FinalQuestions = 1..14 /\ \A i \in 1..14 : FinalQuestions[i] \in DOMAIN FinalFact
  BY DEF FinalQuestions, FinalFact
<1>2. \A q \in DOMAIN FinalFact : \E i \in 1..14 : FinalQuestions[i] = q
  BY DEF FinalQuestions, FinalFact
<1> QED BY <1>1, <1>2

LEMMA HomeAsks ==
  ASSUME NEW d
  PROVE  LET at == {i \in DOMAIN HomeQuestions : HomeOpen(d, HomeQuestions[i])}
             q  == IF at = {} THEN None ELSE HomeQuestions[Min(at)]
         IN  /\ q = None => \A p \in DOMAIN HomeFact : ~HomeOpen(d, p)
             /\ q # None => q \in DOMAIN HomeFact /\ HomeOpen(d, q)
<1> DEFINE at == {i \in DOMAIN HomeQuestions : HomeOpen(d, HomeQuestions[i])}
           q  == IF at = {} THEN None ELSE HomeQuestions[Min(at)]
<1>1. /\ q = None => at = {}
      /\ q # None => \E i \in at : q = HomeQuestions[i] /\ \A j \in at : i =< j
  <2>1. DOMAIN HomeQuestions \in SUBSET Nat /\ at \in SUBSET DOMAIN HomeQuestions
    BY HomeOrder
  <2>2. None \notin DOMAIN HomeFact
    BY NoneIsNoQuestion
  <2> HIDE DEF at
  <2> QED BY <2>1, <2>2, HomeOrder, FirstIsLeast
<1>2. q = None => \A p \in DOMAIN HomeFact : ~HomeOpen(d, p)
  BY <1>1, HomeOrder
<1>3. q # None => q \in DOMAIN HomeFact /\ HomeOpen(d, q)
  BY <1>1, HomeOrder
<1> QED BY <1>2, <1>3

LEMMA CleaningAsks ==
  ASSUME NEW d
  PROVE  LET at == {i \in DOMAIN CleaningQuestions : CleaningOpen(d, CleaningQuestions[i])}
             q  == IF at = {} THEN None ELSE CleaningQuestions[Min(at)]
         IN  /\ q = None => \A p \in DOMAIN CleaningFact : ~CleaningOpen(d, p)
             /\ q # None => q \in DOMAIN CleaningFact /\ CleaningOpen(d, q) /\ (q = "FREQUENCY" => d.primaryService # None)
<1> DEFINE at == {i \in DOMAIN CleaningQuestions : CleaningOpen(d, CleaningQuestions[i])}
           q  == IF at = {} THEN None ELSE CleaningQuestions[Min(at)]
<1>1. /\ q = None => at = {}
      /\ q # None => \E i \in at : q = CleaningQuestions[i] /\ \A j \in at : i =< j
  <2>1. DOMAIN CleaningQuestions \in SUBSET Nat /\ at \in SUBSET DOMAIN CleaningQuestions
    BY CleaningOrder
  <2>2. None \notin DOMAIN CleaningFact
    BY NoneIsNoQuestion
  <2> HIDE DEF at
  <2> QED BY <2>1, <2>2, CleaningOrder, FirstIsLeast
<1>2. q = None => \A p \in DOMAIN CleaningFact : ~CleaningOpen(d, p)
  BY <1>1, CleaningOrder
<1>3. ASSUME q # None
      PROVE  q \in DOMAIN CleaningFact /\ CleaningOpen(d, q)
             /\ (q = "FREQUENCY" => d.primaryService # None)
  <2>1. PICK i \in at : q = CleaningQuestions[i] /\ \A j \in at : i =< j
    BY <1>1, <1>3
  <2>2. q \in DOMAIN CleaningFact /\ CleaningOpen(d, q) /\ i \in 1..4
    BY <2>1, CleaningOrder
  <2>3. ASSUME q = "FREQUENCY" PROVE d.primaryService # None
    <3>1. i = 2
      BY <2>1, <2>2, <2>3 DEF CleaningQuestions
    <3>2. 1 \notin at
      BY <2>1, <3>1
    <3>3. ~CleaningOpen(d, "PRIMARY_SERVICE")
      <4>1. 1 \in DOMAIN CleaningQuestions /\ CleaningQuestions[1] = "PRIMARY_SERVICE"
        BY DEF CleaningQuestions
      <4> QED BY <3>2, <4>1
    <3> QED BY <3>3 DEF CleaningOpen, CleaningApplies, CleaningFact
  <2> QED BY <2>2, <2>3
<1> QED BY <1>2, <1>3

LEMMA EventAsks ==
  ASSUME NEW d
  PROVE  LET at == {i \in DOMAIN EventQuestions : EventOpen(d, EventQuestions[i])}
             q  == IF at = {} THEN None ELSE EventQuestions[Min(at)]
         IN  /\ q = None => \A p \in DOMAIN EventFact : ~EventOpen(d, p)
             /\ q # None => q \in DOMAIN EventFact /\ EventOpen(d, q)
<1> DEFINE at == {i \in DOMAIN EventQuestions : EventOpen(d, EventQuestions[i])}
           q  == IF at = {} THEN None ELSE EventQuestions[Min(at)]
<1>1. /\ q = None => at = {}
      /\ q # None => \E i \in at : q = EventQuestions[i] /\ \A j \in at : i =< j
  <2>1. DOMAIN EventQuestions \in SUBSET Nat /\ at \in SUBSET DOMAIN EventQuestions
    BY EventOrder
  <2>2. None \notin DOMAIN EventFact
    BY NoneIsNoQuestion
  <2> HIDE DEF at
  <2> QED BY <2>1, <2>2, EventOrder, FirstIsLeast
<1>2. q = None => \A p \in DOMAIN EventFact : ~EventOpen(d, p)
  BY <1>1, EventOrder
<1>3. q # None => q \in DOMAIN EventFact /\ EventOpen(d, q)
  BY <1>1, EventOrder
<1> QED BY <1>2, <1>3

LEMMA PersonaliseAsks ==
  ASSUME NEW d
  PROVE  LET at == {i \in DOMAIN PersonaliseQuestions : PersonaliseOpen(d, PersonaliseQuestions[i])}
             q  == IF at = {} THEN None ELSE PersonaliseQuestions[Min(at)]
         IN  /\ q = None => \A p \in DOMAIN PersonaliseFact : ~PersonaliseOpen(d, p)
             /\ q # None => q \in DOMAIN PersonaliseFact /\ PersonaliseOpen(d, q)
<1> DEFINE at == {i \in DOMAIN PersonaliseQuestions : PersonaliseOpen(d, PersonaliseQuestions[i])}
           q  == IF at = {} THEN None ELSE PersonaliseQuestions[Min(at)]
<1>1. /\ q = None => at = {}
      /\ q # None => \E i \in at : q = PersonaliseQuestions[i] /\ \A j \in at : i =< j
  <2>1. DOMAIN PersonaliseQuestions \in SUBSET Nat /\ at \in SUBSET DOMAIN PersonaliseQuestions
    BY PersonaliseOrder
  <2>2. None \notin DOMAIN PersonaliseFact
    BY NoneIsNoQuestion
  <2> HIDE DEF at
  <2> QED BY <2>1, <2>2, PersonaliseOrder, FirstIsLeast
<1>2. q = None => \A p \in DOMAIN PersonaliseFact : ~PersonaliseOpen(d, p)
  BY <1>1, PersonaliseOrder
<1>3. q # None => q \in DOMAIN PersonaliseFact /\ PersonaliseOpen(d, q)
  BY <1>1, PersonaliseOrder
<1> QED BY <1>2, <1>3

LEMMA VisitAsks ==
  ASSUME NEW d
  PROVE  LET at == {i \in DOMAIN VisitQuestions : VisitOpen(d, VisitQuestions[i])}
             q  == IF at = {} THEN None ELSE VisitQuestions[Min(at)]
         IN  /\ q = None => \A p \in DOMAIN VisitFact : ~VisitOpen(d, p)
             /\ q # None => q \in DOMAIN VisitFact /\ VisitOpen(d, q)
<1> DEFINE at == {i \in DOMAIN VisitQuestions : VisitOpen(d, VisitQuestions[i])}
           q  == IF at = {} THEN None ELSE VisitQuestions[Min(at)]
<1>1. /\ q = None => at = {}
      /\ q # None => \E i \in at : q = VisitQuestions[i] /\ \A j \in at : i =< j
  <2>1. DOMAIN VisitQuestions \in SUBSET Nat /\ at \in SUBSET DOMAIN VisitQuestions
    BY VisitOrder
  <2>2. None \notin DOMAIN VisitFact
    BY NoneIsNoQuestion
  <2> HIDE DEF at
  <2> QED BY <2>1, <2>2, VisitOrder, FirstIsLeast
<1>2. q = None => \A p \in DOMAIN VisitFact : ~VisitOpen(d, p)
  BY <1>1, VisitOrder
<1>3. q # None => q \in DOMAIN VisitFact /\ VisitOpen(d, q)
  BY <1>1, VisitOrder
<1> QED BY <1>2, <1>3

LEMMA FinalAsks ==
  ASSUME NEW d
  PROVE  LET at == {i \in DOMAIN FinalQuestions : FinalOpen(d, FinalQuestions[i])}
             q  == IF at = {} THEN None ELSE FinalQuestions[Min(at)]
         IN  /\ q = None => \A p \in DOMAIN FinalFact : ~FinalOpen(d, p)
             /\ q # None => q \in DOMAIN FinalFact /\ FinalOpen(d, q)
<1> DEFINE at == {i \in DOMAIN FinalQuestions : FinalOpen(d, FinalQuestions[i])}
           q  == IF at = {} THEN None ELSE FinalQuestions[Min(at)]
<1>1. /\ q = None => at = {}
      /\ q # None => \E i \in at : q = FinalQuestions[i] /\ \A j \in at : i =< j
  <2>1. DOMAIN FinalQuestions \in SUBSET Nat /\ at \in SUBSET DOMAIN FinalQuestions
    BY FinalOrder
  <2>2. None \notin DOMAIN FinalFact
    BY NoneIsNoQuestion
  <2> HIDE DEF at
  <2> QED BY <2>1, <2>2, FinalOrder, FirstIsLeast
<1>2. q = None => \A p \in DOMAIN FinalFact : ~FinalOpen(d, p)
  BY <1>1, FinalOrder
<1>3. q # None => q \in DOMAIN FinalFact /\ FinalOpen(d, q)
  BY <1>1, FinalOrder
<1> QED BY <1>2, <1>3

\* The question asked is open with its collector, and without one none is open:
\* what handleGuidedCollection and the collectors' chain of calls come to.
AskedNext(d, q) ==
  \/ q \in DOMAIN HomeFact /\ HomeOpen(d, q)
  \/ q \in DOMAIN CleaningFact /\ CleaningOpen(d, q)
       /\ (q = "FREQUENCY" => d.primaryService # None)
  \/ q \in DOMAIN EventFact /\ EventOpen(d, q) /\ d.primaryService = PostEvent
  \/ q \in DOMAIN PersonaliseFact /\ PersonaliseOpen(d, q)
  \/ q \in DOMAIN VisitFact /\ VisitOpen(d, q)
  \/ q \in DOMAIN FinalFact /\ FinalOpen(d, q)

NothingOpen(d) ==
  /\ \A q \in DOMAIN HomeFact : ~HomeOpen(d, q)
  /\ \A q \in DOMAIN CleaningFact : ~CleaningOpen(d, q)
  /\ d.primaryService = PostEvent => \A q \in DOMAIN EventFact : ~EventOpen(d, q)
  /\ \A q \in DOMAIN PersonaliseFact : ~PersonaliseOpen(d, q)
  /\ \A q \in DOMAIN VisitFact : ~VisitOpen(d, q)
  /\ \A q \in DOMAIN FinalFact : ~FinalOpen(d, q)

LEMMA NextIsOpen ==
  ASSUME NEW d
  PROVE  /\ NextQuestion(d) = None => NothingOpen(d)
         /\ NextQuestion(d) # None => AskedNext(d, NextQuestion(d))
<1>1. /\ NextHome(d) = None => \A q \in DOMAIN HomeFact : ~HomeOpen(d, q)
      /\ NextHome(d) # None => NextHome(d) \in DOMAIN HomeFact /\ HomeOpen(d, NextHome(d))
  BY HomeAsks DEF NextHome, First, HomeOpen
<1>2. /\ NextFinal(d) = None => \A q \in DOMAIN FinalFact : ~FinalOpen(d, q)
      /\ NextFinal(d) # None => NextFinal(d) \in DOMAIN FinalFact /\ FinalOpen(d, NextFinal(d))
  BY FinalAsks DEF NextFinal, First, FinalOpen
<1>3. /\ NextEvent(d) = None /\ d.primaryService = PostEvent
           => \A q \in DOMAIN EventFact : ~EventOpen(d, q)
      /\ NextEvent(d) # None => /\ NextEvent(d) \in DOMAIN EventFact
                                /\ EventOpen(d, NextEvent(d)) /\ d.primaryService = PostEvent
  BY EventAsks DEF NextEvent, First, EventOpen
<1>4. PICK v :
        /\ v = None => \A q \in DOMAIN VisitFact : ~VisitOpen(d, q)
        /\ v # None => v \in DOMAIN VisitFact /\ VisitOpen(d, v)
        /\ NextVisit(d) = IF v # None THEN v ELSE NextFinal(d)
  BY VisitAsks DEF NextVisit, First, VisitOpen
<1>5. PICK p :
        /\ p = None => \A q \in DOMAIN PersonaliseFact : ~PersonaliseOpen(d, q)
        /\ p # None => p \in DOMAIN PersonaliseFact /\ PersonaliseOpen(d, p)
        /\ NextPersonalise(d) = IF p # None THEN p ELSE NextVisit(d)
  BY PersonaliseAsks DEF NextPersonalise, First, PersonaliseOpen
<1>6. PICK c :
        /\ c = None => \A q \in DOMAIN CleaningFact : ~CleaningOpen(d, q)
        /\ c # None => c \in DOMAIN CleaningFact /\ CleaningOpen(d, c)
                       /\ (c = "FREQUENCY" => d.primaryService # None)
        /\ NextCleaning(d) = IF c # None THEN c
                             ELSE IF NextEvent(d) # None THEN None ELSE NextPersonalise(d)
  BY CleaningAsks DEF NextCleaning, First, CleaningOpen
<1>7. NextQuestion(d) = IF NextHome(d) # None THEN NextHome(d)
                        ELSE IF NextCleaning(d) # None THEN NextCleaning(d) ELSE NextEvent(d)
  BY DEF NextQuestion
<1> QED BY <1>1, <1>2, <1>3, <1>4, <1>5, <1>6, <1>7 DEF NothingOpen, AskedNext

-----------------------------------------------------------------------------
(* What a draft holds *)

\* The facts of each collector are of its menus, and a detail stands only with the
\* choice it belongs to.
HomeFits(d) ==
  /\ \A f \in DOMAIN PropertyWords : d[f] \in PropertyWords[f] \cup {None}
  /\ d.addressLine1 \in {"TEXT", None} /\ d.suburb \in {"TEXT", None}
  /\ d.country \in {"South_Africa", None}
  /\ d.exactFloor \in 0..50 \cup {None}
  /\ d.buildingAccess \in {"ELEVATOR", "STAIRS", "ELEVATOR_AND_STAIRS", None}
  /\ d.bedrooms = "STUDIO" \/ d.exactFloor # None \/ d.buildingAccess # None
       => d.propertyType = "APARTMENT"

CleaningFits(d) ==
  /\ d.primaryService \in PrimaryServices \cup {PostEvent, None}
  /\ d.frequency \in FullFrequencies \cup {None}
  /\ d.frequency # None =>
       /\ d.primaryService # None
       /\ IF d.primaryService = PostEvent THEN d.frequency = "ONE_TIME"
          ELSE d.frequency \in AllowedFrequencies(d.primaryService)
  /\ d.customFrequencyNote \in {"TEXT", None}
  /\ d.customFrequencyNote # None => d.frequency = "CUSTOM"
  /\ d.homeCondition \in {"LIGHT_UPKEEP", "STANDARD", "EXTRA_ATTENTION", "HEAVY_BUILDUP",
                          "RECENTLY_RENOVATED", "VACANT", "MOVE_IN_OUT", None}

EventFits(d) ==
  /\ d.eventType \in {"PARTY_BIRTHDAY", "WEDDING_RECEPTION", "FAMILY_GATHERING",
                      "CORPORATE_EVENT", "FUNERAL_MEMORIAL", "OTHER", None}
  /\ d.venueType \in {"HOME", "APARTMENT", "BUSINESS_PREMISES", "EVENT_VENUE", "OTHER", None}
  /\ d.guestBand \in {"ONE_TO_20", "FROM_21_TO_50", "FROM_51_TO_100",
                      "FROM_101_TO_150", "FROM_150_UP", None}
  /\ d.dishwashing \in {"NONE", "MODERATE", "HEAVY", None}
  /\ d.wasteLevel \in {"LIGHT", "MODERATE", "HEAVY", None}
  /\ d.eventBathrooms \in 1..20 \cup {None}
  /\ d.outdoorAreas # None =>
       d.outdoorAreas \subseteq {"PATIO", "BALCONY", "BRAAI_AREA", "GARDEN_ENTERTAINMENT_AREA"}
  /\ \A f \in EventBooleans : d[f] \in BOOLEAN \cup {None}

EventIsAsked(d) == d.primaryService # PostEvent => \A f \in EventFacts : d[f] = None

AddOnsFit(addOns) ==
  /\ addOns = [s \in DOMAIN addOns |-> addOns[s]]
  /\ DOMAIN addOns \subseteq AddOnServices
  /\ \A s \in DOMAIN addOns :
       addOns[s] \in Nat /\ (s \notin QuantityAddOns => addOns[s] = 1)

PersonaliseFits(d) ==
  /\ d.addOns # None => AddOnsFit(d.addOns)
  /\ d.ecoFriendlyProducts \in BOOLEAN \cup {None}
  /\ d.facilities \in {"WASHER_DRYER", "WASHER_LINE", None}
  /\ d.laundryLoads \in Nat \cup {None} /\ d.ironingLoads \in Nat \cup {None}
  /\ d.facilities # None => d.laundryLoads # None

LaundryIsEligible(d) ==
  d.laundryLoads # None \/ d.ironingLoads # None => LaundryEligible(d.primaryService)

VisitFits(d) ==
  /\ d.preferredDate \in {"DATE", None} /\ d.alternativeDate \in {"", "DATE", None}
  /\ d.preferredTime \in {"MORNING", "MIDDAY", "AFTERNOON", "FLEXIBLE", None}
  /\ \A f \in {"flexibility", "urgency", "keyHandoverDetails", "petType", "petTemperament"} :
       d[f] \in {"TEXT", None}
  /\ \A f \in {"recurringNotes", "securityInstructions", "parking"} : d[f] \in {"", "TEXT", None}
  /\ d.complexAccess \in {"ACCESS_CODE", "NOT_APPLICABLE", "VISITOR_SIGN_IN",
                          "RESIDENT_ARRANGED", None}
  /\ d.keyHandover \in {"SOMEONE_WILL_OPEN", "CONCIERGE_RECEPTION", "TO_BE_ARRANGED", None}
  /\ d.keyHandoverDetails # None => d.keyHandover = "TO_BE_ARRANGED"
  /\ d.someonePresent \in BOOLEAN \cup {None} /\ d.hasPets \in BOOLEAN \cup {None}
  /\ d.petType # None \/ d.petTemperament # None => d.hasPets = TRUE

FinalFits(d) ==
  /\ \A f \in SafetyFacts \cup NotesFacts : d[f] \in {"", "TEXT", None}
  /\ d.photos \in {"LISTED", None}
  /\ d.fullName \in {"TEXT", None} /\ d.email \in {"EMAIL", None} /\ d.mobile \in {"MOBILE", None}
  /\ d.preferredContact \in {"PHONE", "EMAIL", "WHATSAPP", None}

DraftFits(d) ==
  /\ d = [f \in Facts |-> d[f]]
  /\ HomeFits(d) /\ CleaningFits(d) /\ EventFits(d) /\ EventIsAsked(d)
  /\ PersonaliseFits(d) /\ LaundryIsEligible(d) /\ VisitFits(d) /\ FinalFits(d)

\* The facts the collectors ask for, beside those of a property and of an event.
CleaningFacts == {"primaryService", "frequency", "customFrequencyNote", "homeCondition"}
PersonaliseFacts == {"addOns", "ecoFriendlyProducts"} \cup LaundryFacts
VisitFacts == FactsOf.visit \cup FactsOf.access \cup FactsOf.household
FinalFacts == SafetyFacts \cup NotesFacts \cup FactsOf.customer \cup {"photos"}

LEMMA AllFacts ==
  /\ PropertyFacts \subseteq Facts /\ CleaningFacts \subseteq Facts
  /\ EventFacts \subseteq Facts /\ PersonaliseFacts \subseteq Facts
  /\ VisitFacts \subseteq Facts /\ FinalFacts \subseteq Facts /\ "media" \in Facts
<1>1. \A g \in Groups : FactsOf[g] \subseteq Facts
  BY DEF Facts
<1>2. /\ FactsOf.property \subseteq Facts /\ FactsOf.request \subseteq Facts
      /\ FactsOf.visit \subseteq Facts /\ FactsOf.access \subseteq Facts
      /\ FactsOf.household \subseteq Facts
  BY <1>1 DEF Groups, FactsOf
<1>3. /\ FactsOf.safety \subseteq Facts /\ FactsOf.notes \subseteq Facts
      /\ FactsOf.customer \subseteq Facts /\ FactsOf.photos \subseteq Facts
  BY <1>1 DEF Groups, FactsOf
<1>4. /\ FactsOf.property = PropertyFacts /\ FactsOf.request = RequestFacts
      /\ FactsOf.safety = SafetyFacts /\ FactsOf.notes = NotesFacts /\ FactsOf.photos = {"photos"}
  BY DEF FactsOf
<1>5. /\ PropertyFacts \subseteq Facts /\ EventFacts \subseteq Facts
      /\ CleaningFacts \subseteq Facts /\ PersonaliseFacts \subseteq Facts
  BY <1>2, <1>4 DEF RequestFacts, CleaningFacts, PersonaliseFacts
<1>6. VisitFacts \subseteq Facts /\ FinalFacts \subseteq Facts
  BY <1>2, <1>3, <1>4 DEF VisitFacts, FinalFacts
<1>7. "media" \in Facts
  BY DEF Facts
<1> QED BY <1>5, <1>6, <1>7

LEMMA PatchedByOne ==
  ASSUME NEW d, d = [f \in Facts |-> d[f]], NEW f \in Facts, NEW v
  PROVE  LET e == Patched(Fact(f, v), d) IN
         /\ e = [g \in Facts |-> e[g]]
         /\ e[f] = v
         /\ \A g \in Facts : g # f => e[g] = d[g]
<1>1. DOMAIN Fact(f, v) = {f} /\ Fact(f, v)[f] = v
  BY DEF Fact
<1>2. DOMAIN Fact(f, v) \cup DOMAIN d = Facts
  BY <1>1
<1>3. Patched(Fact(f, v), d) = [g \in Facts |-> IF g = f THEN v ELSE d[g]]
  BY <1>1, <1>2 DEF Patched
<1> QED BY <1>3

-----------------------------------------------------------------------------
(* Facts that are kept or cleared *)

LEMMA HomeKept ==
  ASSUME NEW d, HomeFits(d), NEW e, \A f \in PropertyFacts : e[f] \in {d[f], None},
         \/ e.propertyType = d.propertyType
         \/ e.bedrooms = None /\ e.exactFloor = None /\ e.buildingAccess = None
  PROVE  HomeFits(e)
<1>1. \A f \in DOMAIN PropertyWords : e[f] \in PropertyWords[f] \cup {None}
  <2>1. DOMAIN PropertyWords \subseteq PropertyFacts
    BY DEF PropertyWords, PropertyFacts
  <2> QED BY <2>1 DEF HomeFits
<1>2. /\ e.addressLine1 \in {d.addressLine1, None} /\ e.suburb \in {d.suburb, None}
      /\ e.country \in {d.country, None} /\ e.exactFloor \in {d.exactFloor, None}
      /\ e.buildingAccess \in {d.buildingAccess, None} /\ e.bedrooms \in {d.bedrooms, None}
  BY DEF PropertyFacts
<1> QED BY <1>1, <1>2, NoneIsNoFact DEF HomeFits

LEMMA CleaningKept ==
  ASSUME NEW d, CleaningFits(d), NEW e,
         \/ \A f \in CleaningFacts : e[f] = d[f]
         \/ \A f \in CleaningFacts : e[f] = None
  PROVE  CleaningFits(e)
BY DEF CleaningFacts, CleaningFits

LEMMA EventKept ==
  ASSUME NEW d, EventFits(d), NEW e, \A f \in EventFacts : e[f] \in {d[f], None}
  PROVE  EventFits(e)
<1>1. /\ e.eventType \in {d.eventType, None} /\ e.venueType \in {d.venueType, None}
      /\ e.guestBand \in {d.guestBand, None} /\ e.dishwashing \in {d.dishwashing, None}
      /\ e.wasteLevel \in {d.wasteLevel, None} /\ e.eventBathrooms \in {d.eventBathrooms, None}
      /\ e.outdoorAreas \in {d.outdoorAreas, None}
      /\ \A f \in EventBooleans : e[f] \in {d[f], None}
  BY DEF EventFacts
<1> QED BY <1>1 DEF EventFits

LEMMA PersonaliseKept ==
  ASSUME NEW d, PersonaliseFits(d), NEW e,
         \/ \A f \in PersonaliseFacts : e[f] = d[f]
         \/ \A f \in PersonaliseFacts : e[f] = None
  PROVE  PersonaliseFits(e)
BY DEF PersonaliseFacts, LaundryFacts, PersonaliseFits

LEMMA VisitKept ==
  ASSUME NEW d, VisitFits(d), NEW e, \A f \in VisitFacts : e[f] \in {d[f], None},
         e.keyHandover = d.keyHandover \/ e.keyHandoverDetails = None,
         e.hasPets = d.hasPets \/ (e.petType = None /\ e.petTemperament = None)
  PROVE  VisitFits(e)
<1>1. \A f \in {"preferredDate", "alternativeDate", "preferredTime", "flexibility", "urgency",
                "keyHandoverDetails", "petType", "petTemperament", "recurringNotes",
                "securityInstructions", "parking", "complexAccess", "keyHandover",
                "someonePresent", "hasPets"} : e[f] \in {d[f], None}
  BY DEF VisitFacts, FactsOf
<1> QED BY <1>1 DEF VisitFits

LEMMA FinalKept ==
  ASSUME NEW d, FinalFits(d), NEW e, \A f \in FinalFacts : e[f] \in {d[f], None}
  PROVE  FinalFits(e)
<1>1. \A f \in SafetyFacts \cup NotesFacts : e[f] \in {d[f], None}
  BY DEF FinalFacts
<1>2. \A f \in {"photos", "fullName", "email", "mobile", "preferredContact"} : e[f] \in {d[f], None}
  BY DEF FinalFacts, FactsOf
<1> QED BY <1>1, <1>2 DEF FinalFits

-----------------------------------------------------------------------------
(* What an accepted answer makes of the facts of its collector *)

LEMMA ChoiceIsOfMenu ==
  ASSUME NEW menu, NEW r, Choice(menu, r) # None
  PROVE  \E n \in DOMAIN menu : Choice(menu, r) = menu[n]
BY DEF Choice, OneNumber

LEMMA RepliesRead ==
  ASSUME NEW r
  PROVE  /\ RequiredText(r) \in {"TEXT", None}
         /\ OptionalText(r) \in {"", "TEXT", None}
         /\ OneTwo(r) \in BOOLEAN \cup {None}
         /\ YesNo(r) \in BOOLEAN \cup {None}
         /\ DateOr0(r) \in {"", "DATE", None}
         /\ \A w : Exactly(r, w) \in {w, None}
         /\ \A range : Whole(r, range) \in range \cup {None}
<1>1. OneTwo(r) \in BOOLEAN \cup {None}
  <2>1. CASE OneTwo(r) = None
    BY <2>1
  <2>2. CASE OneTwo(r) # None
    <3>1. PICK n \in DOMAIN <<TRUE, FALSE>> : OneTwo(r) = <<TRUE, FALSE>>[n]
      BY <2>2, ChoiceIsOfMenu DEF OneTwo
    <3>2. n = 1 \/ n = 2
      OBVIOUS
    <3>3. <<TRUE, FALSE>>[1] = TRUE /\ <<TRUE, FALSE>>[2] = FALSE
      OBVIOUS
    <3> QED BY <3>1, <3>2, <3>3
  <2> QED BY <2>1, <2>2
<1>2. \A range : Whole(r, range) \in range \cup {None}
  BY DEF Whole, OneNumber
<1> QED BY <1>1, <1>2 DEF RequiredText, OptionalText, YesNo, DateOr0, Exactly

\* The choices of HOME are the words of the contract.
LEMMA HomeMenus ==
  /\ \A i \in DOMAIN HomeMenu.PROPERTY_TYPE :
       HomeMenu.PROPERTY_TYPE[i] \in PropertyWords.propertyType
  /\ \A i \in DOMAIN HomeMenu.FLOOR_SIZE :
       HomeMenu.FLOOR_SIZE[i] \in PropertyWords.floorSize
  /\ \A i \in DOMAIN HomeMenu.BEDROOMS : HomeMenu.BEDROOMS[i] \in PropertyWords.bedrooms
  /\ \A i \in DOMAIN HomeMenu.BATHROOMS : HomeMenu.BATHROOMS[i] \in PropertyWords.bathrooms
  /\ \A i \in DOMAIN HomeMenu.LIVING_AREAS :
       HomeMenu.LIVING_AREAS[i] \in PropertyWords.livingAreas
  /\ \A i \in DOMAIN HomeMenu.APARTMENT_ACCESS :
       HomeMenu.APARTMENT_ACCESS[i] \in {"ELEVATOR", "STAIRS", "ELEVATOR_AND_STAIRS"}
  /\ \A i \in DOMAIN HomeMenu.OUTDOOR_AREA :
       HomeMenu.OUTDOOR_AREA[i] \in PropertyWords.outdoorArea
  /\ \A i \in DOMAIN HomeMenu.ESTATE_CLASSIFICATION :
       HomeMenu.ESTATE_CLASSIFICATION[i] \in PropertyWords.estateClassification
<1>1. \A i \in DOMAIN HomeMenu.PROPERTY_TYPE :
        HomeMenu.PROPERTY_TYPE[i] \in PropertyWords.propertyType
  BY DEF HomeMenu, PropertyWords
<1>2. \A i \in DOMAIN HomeMenu.FLOOR_SIZE : HomeMenu.FLOOR_SIZE[i] \in PropertyWords.floorSize
  BY DEF HomeMenu, PropertyWords
<1>3. \A i \in DOMAIN HomeMenu.BEDROOMS : HomeMenu.BEDROOMS[i] \in PropertyWords.bedrooms
  BY DEF HomeMenu, PropertyWords
<1>4. /\ \A i \in DOMAIN HomeMenu.BATHROOMS : HomeMenu.BATHROOMS[i] \in PropertyWords.bathrooms
      /\ \A i \in DOMAIN HomeMenu.LIVING_AREAS :
           HomeMenu.LIVING_AREAS[i] \in PropertyWords.livingAreas
      /\ \A i \in DOMAIN HomeMenu.APARTMENT_ACCESS :
           HomeMenu.APARTMENT_ACCESS[i] \in {"ELEVATOR", "STAIRS", "ELEVATOR_AND_STAIRS"}
  BY DEF HomeMenu, PropertyWords
<1>5. /\ \A i \in DOMAIN HomeMenu.OUTDOOR_AREA :
           HomeMenu.OUTDOOR_AREA[i] \in PropertyWords.outdoorArea
      /\ \A i \in DOMAIN HomeMenu.ESTATE_CLASSIFICATION :
           HomeMenu.ESTATE_CLASSIFICATION[i] \in PropertyWords.estateClassification
  BY DEF HomeMenu, PropertyWords
<1> QED BY <1>1, <1>2, <1>3, <1>4, <1>5

\* A value read for a fact of the home is one of its values, and belongs to an
\* Apartment where it must.
HomeValueFits(d, f, v) ==
  /\ f \in DOMAIN PropertyWords => v \in PropertyWords[f]
  /\ f \in {"addressLine1", "suburb"} => v = "TEXT"
  /\ f = "country" => v = "South_Africa"
  /\ f = "exactFloor" => v \in 0..50
  /\ f = "buildingAccess" => v \in {"ELEVATOR", "STAIRS", "ELEVATOR_AND_STAIRS"}
  /\ f \in {"exactFloor", "buildingAccess"} \/ (f = "bedrooms" /\ v = "STUDIO")
       => d.propertyType = "APARTMENT"

LEMMA HomeValues ==
  ASSUME NEW d, NEW q \in DOMAIN HomeFact, HomeOpen(d, q), NEW r, HomeAnswer(d, q, r) # None
  PROVE  HomeFact[q] \in PropertyFacts /\ HomeValueFits(d, HomeFact[q], HomeAnswer(d, q, r))
<1>1. CASE q \in {"ADDRESS_LINE_1", "SUBURB"}
  <2>1. HomeAnswer(d, q, r) = "TEXT"
    BY <1>1, RepliesRead DEF HomeAnswer
  <2>2. HomeFact[q] \in {"addressLine1", "suburb"}
    BY <1>1 DEF HomeFact
  <2> QED BY <2>1, <2>2 DEF PropertyFacts, HomeValueFits, PropertyWords
<1>2. CASE q = "COUNTRY_CONFIRMATION"
  BY <1>2 DEF HomeFact, HomeAnswer, PropertyFacts, HomeValueFits, PropertyWords
<1>3. CASE q = "APARTMENT_FLOOR"
  BY <1>3, RepliesRead
     DEF HomeFact, HomeAnswer, PropertyFacts, HomeValueFits, PropertyWords, HomeOpen, HomeApplies
<1>4. CASE q \in DOMAIN HomeMenu
  <2>1. /\ HomeAnswer(d, q, r) = Choice(HomeMenu[q], r)
        /\ HomeAnswer(d, q, r) = "STUDIO" => d.propertyType = "APARTMENT"
    BY <1>4 DEF HomeAnswer, HomeMenu
  <2>2. PICK i \in DOMAIN HomeMenu[q] : HomeAnswer(d, q, r) = HomeMenu[q][i]
    BY <2>1, ChoiceIsOfMenu
  <2>3. /\ HomeFact[q] \in DOMAIN PropertyWords => HomeAnswer(d, q, r) \in PropertyWords[HomeFact[q]]
        /\ q = "APARTMENT_ACCESS" =>
             HomeAnswer(d, q, r) \in {"ELEVATOR", "STAIRS", "ELEVATOR_AND_STAIRS"}
    <3>1. q \in {"PROPERTY_TYPE", "FLOOR_SIZE", "BEDROOMS", "BATHROOMS", "LIVING_AREAS",
                 "APARTMENT_ACCESS", "OUTDOOR_AREA", "ESTATE_CLASSIFICATION"}
      BY <1>4 DEF HomeMenu
    <3>2. q = "APARTMENT_ACCESS" => HomeFact[q] \notin DOMAIN PropertyWords
      BY DEF HomeFact, PropertyWords
    <3>3. /\ HomeFact.PROPERTY_TYPE = "propertyType" /\ HomeFact.FLOOR_SIZE = "floorSize"
          /\ HomeFact.BEDROOMS = "bedrooms" /\ HomeFact.BATHROOMS = "bathrooms"
          /\ HomeFact.LIVING_AREAS = "livingAreas" /\ HomeFact.OUTDOOR_AREA = "outdoorArea"
          /\ HomeFact.ESTATE_CLASSIFICATION = "estateClassification"
      BY DEF HomeFact
    <3> QED BY <2>2, <3>1, <3>2, <3>3, HomeMenus
  <2> QED BY <1>4, <2>1, <2>3
          DEF HomeFact, PropertyFacts, HomeValueFits, PropertyWords, HomeMenu, HomeOpen, HomeApplies
<1> QED BY <1>1, <1>2, <1>3, <1>4 DEF HomeFact, HomeMenu

LEMMA HomeAnswered ==
  ASSUME NEW d, HomeFits(d), NEW f \in PropertyFacts, d[f] = None, NEW v, v # None,
         HomeValueFits(d, f, v), NEW e, e[f] = v, \A g \in PropertyFacts : g # f => e[g] = d[g]
  PROVE  HomeFits(e)
<1>1. \A g \in DOMAIN PropertyWords : e[g] \in PropertyWords[g] \cup {None}
  <2>1. DOMAIN PropertyWords \subseteq PropertyFacts
    BY DEF PropertyWords, PropertyFacts
  <2> QED BY <2>1 DEF HomeFits, HomeValueFits
<1>2. \A g \in {"propertyType", "addressLine1", "suburb", "country", "bedrooms", "exactFloor",
                "buildingAccess"} : e[g] = IF g = f THEN v ELSE d[g]
  BY DEF PropertyFacts
<1> QED BY <1>1, <1>2, NoneIsNoFact DEF HomeFits, HomeValueFits

LEMMA CleaningMenus ==
  /\ \A i \in DOMAIN PRIMARY_SERVICES : PRIMARY_SERVICES[i] \in PrimaryServices \cup {PostEvent}
  /\ \A i \in DOMAIN FREQUENCIES : FREQUENCIES[i] \in FullFrequencies
  /\ \A i \in DOMAIN HOME_CONDITIONS :
       HOME_CONDITIONS[i] \in {"LIGHT_UPKEEP", "STANDARD", "EXTRA_ATTENTION", "HEAVY_BUILDUP",
                               "RECENTLY_RENOVATED", "VACANT", "MOVE_IN_OUT"}
<1>1. \A i \in DOMAIN PRIMARY_SERVICES : PRIMARY_SERVICES[i] \in PrimaryServices \cup {PostEvent}
  BY DEF PRIMARY_SERVICES, PrimaryServices
<1>2. \A i \in DOMAIN FREQUENCIES : FREQUENCIES[i] \in FullFrequencies
  BY DEF FREQUENCIES, FullFrequencies
<1> QED BY <1>1, <1>2 DEF HOME_CONDITIONS

LEMMA CleaningAnswered ==
  ASSUME NEW d, CleaningFits(d), NEW q \in DOMAIN CleaningFact, CleaningOpen(d, q),
         q = "FREQUENCY" => d.primaryService # None,
         NEW r, CleaningAnswer(d, q, r) # None,
         NEW e, e[CleaningFact[q]] = CleaningAnswer(d, q, r),
         \A g \in CleaningFacts : g # CleaningFact[q] => e[g] = d[g]
  PROVE  CleaningFits(e)
<1>1. CASE q = "PRIMARY_SERVICE"
  <2>1. e.primaryService \in PrimaryServices \cup {PostEvent} /\ d.primaryService = None
    BY <1>1, ChoiceIsOfMenu, CleaningMenus
       DEF CleaningAnswer, CleaningFact, CleaningOpen, CleaningApplies
  <2>2. /\ e.frequency = d.frequency /\ e.customFrequencyNote = d.customFrequencyNote
        /\ e.homeCondition = d.homeCondition
    BY <1>1 DEF CleaningFacts, CleaningFact
  <2>3. e.frequency = None /\ e.customFrequencyNote = None
    BY <2>1, <2>2, NoneIsNoFact DEF CleaningFits, FullFrequencies
  <2> QED BY <2>1, <2>2, <2>3 DEF CleaningFits
<1>2. CASE q = "FREQUENCY"
  <2>1. /\ e.frequency = Choice(FREQUENCIES, r) /\ e.frequency # None
        /\ IF d.primaryService = PostEvent THEN e.frequency = "ONE_TIME"
           ELSE e.frequency \in AllowedFrequencies(d.primaryService)
        /\ d.frequency = None
    BY <1>2 DEF CleaningAnswer, CleaningFact, CleaningOpen, CleaningApplies
  <2>2. e.frequency \in FullFrequencies
    BY <2>1, ChoiceIsOfMenu, CleaningMenus
  <2>3. /\ e.primaryService = d.primaryService /\ e.homeCondition = d.homeCondition
        /\ e.customFrequencyNote = d.customFrequencyNote
    BY <1>2 DEF CleaningFacts, CleaningFact
  <2>4. e.customFrequencyNote = None
    BY <2>1, <2>3, NoneIsNoFact DEF CleaningFits, FullFrequencies
  <2> QED BY <1>2, <2>1, <2>2, <2>3, <2>4 DEF CleaningFits
<1>3. CASE q = "CUSTOM_FREQUENCY_NOTE"
  <2>1. e.customFrequencyNote = "TEXT" /\ d.frequency = "CUSTOM"
    BY <1>3, RepliesRead DEF CleaningAnswer, CleaningFact, CleaningOpen, CleaningApplies
  <2>2. /\ e.primaryService = d.primaryService /\ e.homeCondition = d.homeCondition
        /\ e.frequency = d.frequency
    BY <1>3 DEF CleaningFacts, CleaningFact
  <2> QED BY <2>1, <2>2 DEF CleaningFits
<1>4. CASE q = "HOME_CONDITION"
  <2>1. e.homeCondition \in {"LIGHT_UPKEEP", "STANDARD", "EXTRA_ATTENTION", "HEAVY_BUILDUP",
                             "RECENTLY_RENOVATED", "VACANT", "MOVE_IN_OUT"}
    BY <1>4, ChoiceIsOfMenu, CleaningMenus DEF CleaningAnswer, CleaningFact
  <2>2. /\ e.primaryService = d.primaryService /\ e.frequency = d.frequency
        /\ e.customFrequencyNote = d.customFrequencyNote
    BY <1>4 DEF CleaningFacts, CleaningFact
  <2> QED BY <2>1, <2>2 DEF CleaningFits
<1> QED BY <1>1, <1>2, <1>3, <1>4 DEF CleaningFact

\* A value read for a fact of the event is one of its values.
EventValueFits(f, v) ==
  /\ f = "eventType" => v \in {"PARTY_BIRTHDAY", "WEDDING_RECEPTION", "FAMILY_GATHERING",
                               "CORPORATE_EVENT", "FUNERAL_MEMORIAL", "OTHER"}
  /\ f = "venueType" => v \in {"HOME", "APARTMENT", "BUSINESS_PREMISES", "EVENT_VENUE", "OTHER"}
  /\ f = "guestBand" => v \in {"ONE_TO_20", "FROM_21_TO_50", "FROM_51_TO_100",
                               "FROM_101_TO_150", "FROM_150_UP"}
  /\ f = "dishwashing" => v \in {"NONE", "MODERATE", "HEAVY"}
  /\ f = "wasteLevel" => v \in {"LIGHT", "MODERATE", "HEAVY"}
  /\ f = "eventBathrooms" => v \in 1..20
  /\ f = "outdoorAreas" =>
       v \subseteq {"PATIO", "BALCONY", "BRAAI_AREA", "GARDEN_ENTERTAINMENT_AREA"}
  /\ f \in EventBooleans => v \in BOOLEAN

LEMMA AreasRead ==
  ASSUME NEW r, OutdoorAreas(r) # None
  PROVE  OutdoorAreas(r) \subseteq {"PATIO", "BALCONY", "BRAAI_AREA", "GARDEN_ENTERTAINMENT_AREA"}
<1>1. \/ OutdoorAreas(r) = {}
      \/ /\ ToSet(r.numbers) \subseteq DOMAIN OUTDOOR_AREAS
         /\ OutdoorAreas(r) = {OUTDOOR_AREAS[n] : n \in ToSet(r.numbers)}
  BY DEF OutdoorAreas, OneNumber
<1>2. \A i \in DOMAIN OUTDOOR_AREAS :
        OUTDOOR_AREAS[i] \in {"PATIO", "BALCONY", "BRAAI_AREA", "GARDEN_ENTERTAINMENT_AREA"}
  BY DEF OUTDOOR_AREAS
<1> QED BY <1>1, <1>2

LEMMA EventMenus ==
  /\ \A i \in DOMAIN EventMenu.EVENT_TYPE : EventValueFits("eventType", EventMenu.EVENT_TYPE[i])
  /\ \A i \in DOMAIN EventMenu.VENUE_TYPE : EventValueFits("venueType", EventMenu.VENUE_TYPE[i])
  /\ \A i \in DOMAIN EventMenu.GUEST_BAND : EventValueFits("guestBand", EventMenu.GUEST_BAND[i])
  /\ \A i \in DOMAIN EventMenu.DISHWASHING :
       EventValueFits("dishwashing", EventMenu.DISHWASHING[i])
  /\ \A i \in DOMAIN EventMenu.WASTE_LEVEL : EventValueFits("wasteLevel", EventMenu.WASTE_LEVEL[i])
<1>1. \A i \in DOMAIN EventMenu.EVENT_TYPE :
        EventValueFits("eventType", EventMenu.EVENT_TYPE[i])
  BY DEF EventMenu, EventValueFits, EventBooleans
<1>2. \A i \in DOMAIN EventMenu.VENUE_TYPE :
        EventValueFits("venueType", EventMenu.VENUE_TYPE[i])
  BY DEF EventMenu, EventValueFits, EventBooleans
<1>3. \A i \in DOMAIN EventMenu.GUEST_BAND :
        EventValueFits("guestBand", EventMenu.GUEST_BAND[i])
  BY DEF EventMenu, EventValueFits, EventBooleans
<1>4. \A i \in DOMAIN EventMenu.DISHWASHING :
        EventValueFits("dishwashing", EventMenu.DISHWASHING[i])
  BY DEF EventMenu, EventValueFits, EventBooleans
<1>5. \A i \in DOMAIN EventMenu.WASTE_LEVEL :
        EventValueFits("wasteLevel", EventMenu.WASTE_LEVEL[i])
  BY DEF EventMenu, EventValueFits, EventBooleans
<1> QED BY <1>1, <1>2, <1>3, <1>4, <1>5

LEMMA EventValues ==
  ASSUME NEW q \in DOMAIN EventFact, NEW r, EventAnswer(q, r) # None
  PROVE  EventFact[q] \in EventFacts /\ EventValueFits(EventFact[q], EventAnswer(q, r))
<1>1. CASE q = "EXACT_BATHROOMS"
  <2>1. EventAnswer(q, r) \in 1..20 /\ EventFact[q] = "eventBathrooms"
    BY <1>1, RepliesRead DEF EventAnswer, EventFact, EventMenu
  <2> QED BY <2>1 DEF EventFacts, EventValueFits, EventBooleans
<1>2. CASE q = "OUTDOOR_AREAS"
  <2>1. EventAnswer(q, r) = OutdoorAreas(r) /\ EventFact[q] = "outdoorAreas"
    BY <1>2 DEF EventAnswer, EventFact, EventMenu
  <2> QED BY <2>1, AreasRead DEF EventFacts, EventValueFits, EventBooleans
<1>3. CASE q \in {"EVENT_TYPE", "VENUE_TYPE", "GUEST_BAND", "DISHWASHING", "WASTE_LEVEL"}
  <2>1. EventAnswer(q, r) = Choice(EventMenu[q], r)
    BY <1>3 DEF EventAnswer, EventMenu
  <2>2. PICK i \in DOMAIN EventMenu[q] : EventAnswer(q, r) = EventMenu[q][i]
    BY <2>1, ChoiceIsOfMenu
  <2>3. /\ EventFact.EVENT_TYPE = "eventType" /\ EventFact.VENUE_TYPE = "venueType"
        /\ EventFact.GUEST_BAND = "guestBand" /\ EventFact.DISHWASHING = "dishwashing"
        /\ EventFact.WASTE_LEVEL = "wasteLevel"
    BY DEF EventFact
  <2>4. EventFact[q] \in EventFacts
    BY <1>3, <2>3 DEF EventFacts
  <2> QED BY <1>3, <2>2, <2>3, <2>4, EventMenus
<1>4. CASE q \notin {"EXACT_BATHROOMS", "OUTDOOR_AREAS", "EVENT_TYPE", "VENUE_TYPE",
                     "GUEST_BAND", "DISHWASHING", "WASTE_LEVEL"}
  <2>1. EventAnswer(q, r) = YesNo(r)
    BY <1>4 DEF EventAnswer, EventMenu
  <2>2. EventAnswer(q, r) \in BOOLEAN
    BY <2>1, RepliesRead
  <2>3. EventFact[q] \in EventBooleans
    BY <1>4 DEF EventFact, EventBooleans
  <2>4. EventFact[q] \notin {"eventType", "venueType", "guestBand", "dishwashing", "wasteLevel",
                             "eventBathrooms", "outdoorAreas"}
    BY <2>3 DEF EventBooleans
  <2> QED BY <2>2, <2>3, <2>4 DEF EventFacts, EventValueFits
<1> QED BY <1>1, <1>2, <1>3, <1>4

LEMMA EventAnswered ==
  ASSUME NEW d, EventFits(d), NEW f \in EventFacts, NEW v, EventValueFits(f, v),
         NEW e, e[f] = v, \A g \in EventFacts : g # f => e[g] = d[g]
  PROVE  EventFits(e)
<1>1. \A g \in {"eventType", "venueType", "guestBand", "dishwashing", "wasteLevel",
                "eventBathrooms", "outdoorAreas"} : e[g] = IF g = f THEN v ELSE d[g]
  BY DEF EventFacts
<1>2. \A g \in EventBooleans : e[g] = IF g = f THEN v ELSE d[g]
  BY DEF EventFacts
<1>3. \A g \in EventBooleans : e[g] \in BOOLEAN \cup {None}
  BY <1>2 DEF EventFits, EventValueFits
<1> QED BY <1>1, <1>3 DEF EventFits, EventValueFits

\* An add-on counted later keeps the add-ons what they were.
LEMMA QuantityKeepsAddOns ==
  ASSUME NEW addOns, AddOnsFit(addOns), NEW s \in QuantityAddOns, s \in DOMAIN addOns,
         NEW n \in Nat
  PROVE  AddOnsFit([addOns EXCEPT ![s] = n])
<1>1. DOMAIN [addOns EXCEPT ![s] = n] = DOMAIN addOns
  OBVIOUS
<1>2. \A a \in DOMAIN addOns : [addOns EXCEPT ![s] = n][a] = IF a = s THEN n ELSE addOns[a]
  OBVIOUS
<1>3. [addOns EXCEPT ![s] = n] =
        [a \in DOMAIN [addOns EXCEPT ![s] = n] |-> [addOns EXCEPT ![s] = n][a]]
  OBVIOUS
<1> QED BY <1>1, <1>2, <1>3 DEF AddOnsFit

LEMMA PersonaliseAnswered ==
  ASSUME NEW d, PersonaliseFits(d), NEW q \in DOMAIN PersonaliseFact, q # "ADD_ONS",
         PersonaliseOpen(d, q), NEW r, PersonaliseAnswer(d, q, r) # None,
         NEW e, e[PersonaliseFact[q]] = PersonaliseAnswer(d, q, r),
         \A g \in PersonaliseFacts : g # PersonaliseFact[q] => e[g] = d[g]
  PROVE  /\ PersonaliseFits(e)
         /\ e.laundryLoads # None => d.laundryLoads # None
         /\ e.ironingLoads # None => d.ironingLoads # None
<1>0. \A g \in {"addOns", "ecoFriendlyProducts", "facilities", "laundryLoads", "ironingLoads"} :
        g # PersonaliseFact[q] => e[g] = d[g]
  BY DEF PersonaliseFacts, LaundryFacts
<1>1. CASE q \in {"EXTRA_REFRIGERATOR_QUANTITY", "BALCONY_PATIO_QUANTITY"}
  <2>1. PersonaliseFact[q] = "addOns" /\ AddOnOf(q) \in QuantityAddOns
    BY <1>1 DEF PersonaliseFact, AddOnOf, QuantityAddOns
  <2>2. d.addOns # None /\ AddOnOf(q) \in DOMAIN d.addOns
    BY <1>1 DEF PersonaliseOpen, PersonaliseApplies
  <2>3. PICK n \in Nat : PersonaliseAnswer(d, q, r) = [d.addOns EXCEPT ![AddOnOf(q)] = n]
    <3>1. Whole(r, 1..MaxQuantity) # None
            /\ PersonaliseAnswer(d, q, r) =
                 [d.addOns EXCEPT ![AddOnOf(q)] = Whole(r, 1..MaxQuantity)]
      BY <1>1 DEF PersonaliseAnswer
    <3>2. Whole(r, 1..MaxQuantity) \in 1..MaxQuantity
      BY <3>1, RepliesRead
    <3>3. Whole(r, 1..MaxQuantity) \in Nat
      BY <3>2 DEF MaxQuantity
    <3> QED BY <3>1, <3>3
  <2>4. AddOnsFit(e.addOns)
    BY <2>1, <2>2, <2>3, QuantityKeepsAddOns DEF PersonaliseFits
  <2> QED BY <1>0, <2>1, <2>4 DEF PersonaliseFits
<1>2. CASE q = "ECO_FRIENDLY_PRODUCTS"
  <2>1. PersonaliseFact[q] = "ecoFriendlyProducts"
    BY <1>2 DEF PersonaliseFact
  <2>2. e.ecoFriendlyProducts \in BOOLEAN \cup {None}
    BY <1>2, <2>1, RepliesRead DEF PersonaliseAnswer
  <2> QED BY <1>0, <2>1, <2>2 DEF PersonaliseFits
<1>3. CASE q = "LAUNDRY_FACILITIES"
  <2>1. PersonaliseFact[q] = "facilities" /\ d.laundryLoads # None
    BY <1>3 DEF PersonaliseFact, PersonaliseOpen, PersonaliseApplies
  <2>2. PICK i \in DOMAIN LAUNDRY_FACILITIES : e.facilities = LAUNDRY_FACILITIES[i]
    BY <1>3, <2>1, ChoiceIsOfMenu DEF PersonaliseAnswer
  <2>3. e.facilities \in {"WASHER_DRYER", "WASHER_LINE"}
    BY <2>2 DEF LAUNDRY_FACILITIES
  <2> QED BY <1>0, <2>1, <2>3 DEF PersonaliseFits
<1>4. CASE q \in {"LAUNDRY_LOADS", "IRONING_LOADS"}
  <2>1. /\ PersonaliseFact[q] = IF q = "LAUNDRY_LOADS" THEN "laundryLoads" ELSE "ironingLoads"
        /\ IF q = "LAUNDRY_LOADS" THEN d.laundryLoads # None ELSE d.ironingLoads # None
    BY <1>4 DEF PersonaliseFact, PersonaliseOpen, PersonaliseApplies
  <2>2. PersonaliseAnswer(d, q, r) = Whole(r, 1..MaxQuantity)
    BY <1>4 DEF PersonaliseAnswer
  <2>3. PersonaliseAnswer(d, q, r) \in Nat
    <3>1. PersonaliseAnswer(d, q, r) \in 1..MaxQuantity
      BY <2>2, RepliesRead
    <3> QED BY <3>1 DEF MaxQuantity
  <2> QED BY <1>0, <1>4, <2>1, <2>3 DEF PersonaliseFits
<1> QED BY <1>1, <1>2, <1>3, <1>4 DEF PersonaliseFact

\* The add-ons chosen from the menu, and the laundry that 12 and 13 start.
LEMMA AddOnsChosen ==
  ASSUME NEW d, NEW r, AddOnsPatch(d, r) # None
  PROVE  LET patch == AddOnsPatch(d, r) IN
         /\ DOMAIN patch \subseteq {"addOns", "laundryLoads", "ironingLoads"}
         /\ "addOns" \in DOMAIN patch /\ AddOnsFit(patch.addOns)
         /\ \A f \in DOMAIN patch \ {"addOns"} : patch[f] = 0 /\ LaundryEligible(d.primaryService)
<1> DEFINE keys     == ToSet(r.numbers)
           chosen   == {ADD_ONS[n] : n \in keys \ {12, 13}}
           quantity == [s \in chosen |-> IF s \in QuantityAddOns THEN 0 ELSE 1]
           started  == (IF 12 \in keys THEN {"laundryLoads"} ELSE {})
                         \cup (IF 13 \in keys THEN {"ironingLoads"} ELSE {})
           laundry  == [f \in started |-> 0]
           patch    == AddOnsPatch(d, r)
<1>1. \/ patch = Fact("addOns", [s \in {} |-> 0])
      \/ /\ keys \subseteq 1..13
         /\ keys \cap {12, 13} # {} => LaundryEligible(d.primaryService)
         /\ patch = Patched(laundry, Fact("addOns", quantity))
  BY DEF AddOnsPatch, OneNumber
<1>2. CASE patch = Fact("addOns", [s \in {} |-> 0])
  BY <1>2 DEF Fact, AddOnsFit
<1>3. CASE /\ keys \subseteq 1..13
           /\ keys \cap {12, 13} # {} => LaundryEligible(d.primaryService)
           /\ patch = Patched(laundry, Fact("addOns", quantity))
  <2>1. chosen \subseteq AddOnServices
    <3>1. \A n \in 1..11 : ADD_ONS[n] \in AddOnServices
      BY DEF ADD_ONS, AddOnServices
    <3>2. keys \ {12, 13} \subseteq 1..11
      BY <1>3
    <3> QED BY <3>1, <3>2
  <2> HIDE DEF keys, chosen
  <2>2. AddOnsFit(quantity)
    BY <2>1 DEF AddOnsFit
  <2>3. started \subseteq {"laundryLoads", "ironingLoads"}
        /\ (started # {} => LaundryEligible(d.primaryService))
    BY <1>3
  <2> HIDE DEF quantity, started
  <2>4. patch = [f \in started \cup {"addOns"} |-> IF f \in started THEN 0 ELSE quantity]
    BY <1>3 DEF Patched, Fact
  <2> QED BY <2>2, <2>3, <2>4
<1> QED BY <1>1, <1>2, <1>3

LEMMA AddOnsAnswered ==
  ASSUME NEW d, PersonaliseFits(d), LaundryIsEligible(d), NEW patch,
         DOMAIN patch \subseteq {"addOns", "laundryLoads", "ironingLoads"},
         "addOns" \in DOMAIN patch, AddOnsFit(patch.addOns),
         \A f \in DOMAIN patch \ {"addOns"} :
           patch[f] = 0 /\ LaundryEligible(d.primaryService),
         NEW e, \A g \in PersonaliseFacts \cup {"primaryService"} :
                  e[g] = IF g \in DOMAIN patch THEN patch[g] ELSE d[g]
  PROVE  PersonaliseFits(e) /\ LaundryIsEligible(e)
<1>1. /\ e.addOns = patch.addOns /\ e.ecoFriendlyProducts = d.ecoFriendlyProducts
      /\ e.facilities = d.facilities /\ e.primaryService = d.primaryService
      /\ e.laundryLoads = IF "laundryLoads" \in DOMAIN patch THEN 0 ELSE d.laundryLoads
      /\ e.ironingLoads = IF "ironingLoads" \in DOMAIN patch THEN 0 ELSE d.ironingLoads
  BY DEF PersonaliseFacts, LaundryFacts
<1>2. 0 # None
  BY NoneIsNoFact
<1> QED BY <1>1, <1>2 DEF PersonaliseFits, LaundryIsEligible

\* A value read for a fact of the visit is one of its values, and belongs to the
\* choice it is a detail of.
VisitValueFits(d, f, v) ==
  /\ f = "preferredDate" => v = "DATE"
  /\ f = "alternativeDate" => v \in {"", "DATE"}
  /\ f = "preferredTime" => v \in {"MORNING", "MIDDAY", "AFTERNOON", "FLEXIBLE"}
  /\ f \in {"flexibility", "urgency", "keyHandoverDetails", "petType", "petTemperament"}
       => v = "TEXT"
  /\ f \in {"recurringNotes", "securityInstructions", "parking"} => v \in {"", "TEXT"}
  /\ f = "complexAccess" =>
       v \in {"ACCESS_CODE", "NOT_APPLICABLE", "VISITOR_SIGN_IN", "RESIDENT_ARRANGED"}
  /\ f = "keyHandover" => v \in {"SOMEONE_WILL_OPEN", "CONCIERGE_RECEPTION", "TO_BE_ARRANGED"}
  /\ f \in {"someonePresent", "hasPets"} => v \in BOOLEAN
  /\ f = "keyHandoverDetails" => d.keyHandover = "TO_BE_ARRANGED"
  /\ f \in {"petType", "petTemperament"} => d.hasPets = TRUE

LEMMA VisitMenus ==
  /\ \A i \in DOMAIN VisitMenu.PREFERRED_TIME :
       VisitMenu.PREFERRED_TIME[i] \in {"MORNING", "MIDDAY", "AFTERNOON", "FLEXIBLE"}
  /\ \A i \in DOMAIN VisitMenu.COMPLEX_ACCESS :
       VisitMenu.COMPLEX_ACCESS[i]
         \in {"ACCESS_CODE", "NOT_APPLICABLE", "VISITOR_SIGN_IN", "RESIDENT_ARRANGED"}
  /\ \A i \in DOMAIN VisitMenu.KEY_HANDOVER :
       VisitMenu.KEY_HANDOVER[i] \in {"SOMEONE_WILL_OPEN", "CONCIERGE_RECEPTION", "TO_BE_ARRANGED"}
BY DEF VisitMenu

LEMMA VisitValues ==
  ASSUME NEW d, NEW q \in DOMAIN VisitFact, VisitOpen(d, q), NEW r, VisitAnswer(q, r) # None
  PROVE  VisitFact[q] \in VisitFacts /\ VisitValueFits(d, VisitFact[q], VisitAnswer(q, r))
<1>1. CASE q \in DOMAIN VisitMenu
  <2>1. VisitAnswer(q, r) = Choice(VisitMenu[q], r)
    BY <1>1 DEF VisitAnswer, VisitMenu
  <2>2. PICK i \in DOMAIN VisitMenu[q] : VisitAnswer(q, r) = VisitMenu[q][i]
    BY <2>1, ChoiceIsOfMenu
  <2>3. q \in {"PREFERRED_TIME", "COMPLEX_ACCESS", "KEY_HANDOVER"}
    BY <1>1 DEF VisitMenu
  <2>4. /\ VisitFact.PREFERRED_TIME = "preferredTime" /\ VisitFact.COMPLEX_ACCESS = "complexAccess"
        /\ VisitFact.KEY_HANDOVER = "keyHandover"
    BY DEF VisitFact
  <2>5. VisitFact[q] \in VisitFacts
    BY <2>3, <2>4 DEF VisitFacts, FactsOf
  <2>6. CASE q = "PREFERRED_TIME"
    <3>1. VisitFact[q] = "preferredTime"
          /\ VisitAnswer(q, r) \in {"MORNING", "MIDDAY", "AFTERNOON", "FLEXIBLE"}
      BY <2>2, <2>4, <2>6, VisitMenus
    <3> QED BY <2>5, <3>1 DEF VisitValueFits
  <2>7. CASE q = "COMPLEX_ACCESS"
    <3>1. VisitFact[q] = "complexAccess"
          /\ VisitAnswer(q, r)
               \in {"ACCESS_CODE", "NOT_APPLICABLE", "VISITOR_SIGN_IN", "RESIDENT_ARRANGED"}
      BY <2>2, <2>4, <2>7, VisitMenus
    <3> QED BY <2>5, <3>1 DEF VisitValueFits
  <2>8. CASE q = "KEY_HANDOVER"
    <3>1. VisitFact[q] = "keyHandover"
          /\ VisitAnswer(q, r) \in {"SOMEONE_WILL_OPEN", "CONCIERGE_RECEPTION", "TO_BE_ARRANGED"}
      BY <2>2, <2>4, <2>8, VisitMenus
    <3> QED BY <2>5, <3>1 DEF VisitValueFits
  <2> QED BY <2>3, <2>6, <2>7, <2>8
<1>2. CASE q \in {"PREFERRED_DATE", "ALTERNATIVE_DATE"}
  <2>1. VisitAnswer(q, r) = IF q = "PREFERRED_DATE" THEN Exactly(r, "DATE") ELSE DateOr0(r)
    BY <1>2 DEF VisitAnswer, VisitMenu
  <2>2. VisitFact[q] = IF q = "PREFERRED_DATE" THEN "preferredDate" ELSE "alternativeDate"
    BY <1>2 DEF VisitFact
  <2>3. VisitAnswer(q, r) \in IF q = "PREFERRED_DATE" THEN {"DATE"} ELSE {"", "DATE"}
    BY <2>1, RepliesRead
  <2> QED BY <1>2, <2>2, <2>3 DEF VisitFacts, FactsOf, VisitValueFits
<1>3. CASE q \in {"RECURRING_NOTES", "SECURITY_INSTRUCTIONS", "PARKING"}
  <2>1. VisitAnswer(q, r) \in {"", "TEXT"}
    BY <1>3, RepliesRead DEF VisitAnswer, VisitMenu
  <2>2. VisitFact[q] \in {"recurringNotes", "securityInstructions", "parking"}
    BY <1>3 DEF VisitFact
  <2> QED BY <2>1, <2>2 DEF VisitFacts, FactsOf, VisitValueFits
<1>4. CASE q \in {"SOMEONE_PRESENT", "HAS_PETS"}
  <2>1. VisitAnswer(q, r) = OneTwo(r)
    BY <1>4 DEF VisitAnswer, VisitMenu
  <2>2. VisitAnswer(q, r) \in BOOLEAN
    BY <2>1, RepliesRead
  <2>3. VisitFact[q] \in {"someonePresent", "hasPets"}
    BY <1>4 DEF VisitFact
  <2> QED BY <2>2, <2>3 DEF VisitFacts, FactsOf, VisitValueFits
<1>5. CASE q \in {"FLEXIBILITY", "URGENCY", "KEY_HANDOVER_DETAILS", "PET_TYPE", "PET_TEMPERAMENT"}
  <2>1. VisitAnswer(q, r) = "TEXT"
    BY <1>5, RepliesRead DEF VisitAnswer, VisitMenu
  <2>2. VisitFact[q] \in {"flexibility", "urgency", "keyHandoverDetails", "petType",
                          "petTemperament"}
    BY <1>5 DEF VisitFact
  <2>3. /\ VisitFact[q] = "keyHandoverDetails" => d.keyHandover = "TO_BE_ARRANGED"
        /\ VisitFact[q] \in {"petType", "petTemperament"} => d.hasPets = TRUE
    BY <1>5 DEF VisitFact, VisitOpen, VisitApplies
  <2> QED BY <2>1, <2>2, <2>3 DEF VisitFacts, FactsOf, VisitValueFits
<1> QED BY <1>1, <1>2, <1>3, <1>4, <1>5 DEF VisitFact, VisitMenu

LEMMA VisitAnswered ==
  ASSUME NEW d, VisitFits(d), NEW f \in VisitFacts, d[f] = None, NEW v, VisitValueFits(d, f, v),
         NEW e, e[f] = v, \A g \in VisitFacts : g # f => e[g] = d[g]
  PROVE  VisitFits(e)
<1>1. \A g \in {"preferredDate", "alternativeDate", "preferredTime", "flexibility", "urgency",
                "keyHandoverDetails", "petType", "petTemperament", "recurringNotes",
                "securityInstructions", "parking", "complexAccess", "keyHandover",
                "someonePresent", "hasPets"} : e[g] = IF g = f THEN v ELSE d[g]
  BY DEF VisitFacts, FactsOf
<1>2. /\ e.preferredDate \in {"DATE", None} /\ e.alternativeDate \in {"", "DATE", None}
      /\ e.preferredTime \in {"MORNING", "MIDDAY", "AFTERNOON", "FLEXIBLE", None}
      /\ e.complexAccess \in {"ACCESS_CODE", "NOT_APPLICABLE", "VISITOR_SIGN_IN",
                              "RESIDENT_ARRANGED", None}
      /\ e.keyHandover \in {"SOMEONE_WILL_OPEN", "CONCIERGE_RECEPTION", "TO_BE_ARRANGED", None}
  BY <1>1 DEF VisitFits, VisitValueFits
<1>3. ASSUME NEW g \in {"flexibility", "urgency", "keyHandoverDetails", "petType", "petTemperament"}
      PROVE  e[g] \in {"TEXT", None}
  <2>1. d[g] \in {"TEXT", None} /\ (g = f => v = "TEXT")
    BY DEF VisitFits, VisitValueFits
  <2>2. e[g] = IF g = f THEN v ELSE d[g]
    BY <1>1
  <2> QED BY <2>1, <2>2
<1>4. ASSUME NEW g \in {"recurringNotes", "securityInstructions", "parking"}
      PROVE  e[g] \in {"", "TEXT", None}
  <2>1. d[g] \in {"", "TEXT", None} /\ (g = f => v \in {"", "TEXT"})
    BY DEF VisitFits, VisitValueFits
  <2>2. e[g] = IF g = f THEN v ELSE d[g]
    BY <1>1
  <2> QED BY <2>1, <2>2
<1>5. e.someonePresent \in BOOLEAN \cup {None} /\ e.hasPets \in BOOLEAN \cup {None}
  BY <1>1 DEF VisitFits, VisitValueFits
<1>6. e.keyHandoverDetails # None => e.keyHandover = "TO_BE_ARRANGED"
  BY <1>1, NoneIsNoFact DEF VisitFits, VisitValueFits
<1>7. e.petType # None \/ e.petTemperament # None => e.hasPets = TRUE
  BY <1>1, NoneIsNoFact DEF VisitFits, VisitValueFits
<1> QED BY <1>2, <1>3, <1>4, <1>5, <1>6, <1>7 DEF VisitFits

LEMMA FinalAnswered ==
  ASSUME NEW d, FinalFits(d), NEW q \in DOMAIN FinalFact, NEW r, FinalAnswer(d, q, r) # None,
         NEW e, e[FinalFact[q]] = FinalAnswer(d, q, r),
         \A g \in FinalFacts : g # FinalFact[q] => e[g] = d[g]
  PROVE  FinalFits(e)
<1> DEFINE f == FinalFact[q]
<1>1. /\ f = "photos" => e[f] = "LISTED"
      /\ f = "fullName" => e[f] = "TEXT"
      /\ f = "email" => e[f] = "EMAIL"
      /\ f = "mobile" => e[f] = "MOBILE"
      /\ f = "preferredContact" => e[f] \in {"PHONE", "EMAIL", "WHATSAPP"}
      /\ f \in SafetyFacts \cup NotesFacts => e[f] \in {"", "TEXT"}
  <2>1. CASE q \in {"PHOTOS", "FULL_NAME", "EMAIL", "MOBILE"}
    <3>1. /\ q = "PHOTOS" => f = "photos" /\ e[f] = "LISTED"
          /\ q = "FULL_NAME" => f = "fullName" /\ e[f] = RequiredText(r)
          /\ q = "EMAIL" => f = "email" /\ e[f] = Exactly(r, "EMAIL")
          /\ q = "MOBILE" => f = "mobile" /\ e[f] = Exactly(r, "MOBILE")
      BY DEF FinalFact, FinalAnswer
    <3>2. /\ q = "FULL_NAME" => e[f] = "TEXT"
          /\ q = "EMAIL" => e[f] = "EMAIL"
          /\ q = "MOBILE" => e[f] = "MOBILE"
      BY <3>1, RepliesRead
    <3>3. f \in {"photos", "fullName", "email", "mobile"}
      BY <2>1, <3>1
    <3>4. f \notin SafetyFacts \cup NotesFacts
      BY <3>3 DEF SafetyFacts, NotesFacts
    <3> HIDE DEF f
    <3> QED BY <2>1, <3>1, <3>2, <3>4
  <2>2. CASE q = "PREFERRED_CONTACT"
    <3>1. PICK i \in DOMAIN <<"PHONE", "EMAIL", "WHATSAPP">> :
            e[f] = <<"PHONE", "EMAIL", "WHATSAPP">>[i]
      BY <2>2, ChoiceIsOfMenu DEF FinalAnswer
    <3>2. e[f] \in {"PHONE", "EMAIL", "WHATSAPP"} /\ f = "preferredContact"
      BY <2>2, <3>1 DEF FinalFact
    <3> QED BY <3>2 DEF SafetyFacts, NotesFacts
  <2>3. CASE q \notin {"PHOTOS", "FULL_NAME", "EMAIL", "MOBILE", "PREFERRED_CONTACT"}
    <3>1. e[f] \in {"", "TEXT"}
      BY <2>3, RepliesRead DEF FinalAnswer
    <3>2. f \notin {"photos", "fullName", "email", "mobile", "preferredContact"}
      BY <2>3 DEF FinalFact
    <3> QED BY <3>1, <3>2
  <2> QED BY <2>1, <2>2, <2>3
<1> HIDE DEF f
<1>2. \A g \in FinalFacts : g # f => e[g] = d[g]
  BY DEF f
<1>3. \A g \in SafetyFacts \cup NotesFacts : e[g] \in {"", "TEXT", None}
  BY <1>1, <1>2 DEF FinalFacts, FinalFits
<1>4. \A g \in {"photos", "fullName", "email", "mobile", "preferredContact"} :
        e[g] = d[g] \/ g = f
  BY <1>2 DEF FinalFacts, FactsOf
<1> QED BY <1>1, <1>3, <1>4 DEF FinalFits

-----------------------------------------------------------------------------
(* An accepted answer keeps the draft fitting *)

LEMMA CollectorsApart ==
  /\ DOMAIN HomeFact \cap DOMAIN CleaningFact = {} /\ DOMAIN HomeFact \cap DOMAIN EventFact = {}
  /\ DOMAIN HomeFact \cap DOMAIN PersonaliseFact = {} /\ DOMAIN HomeFact \cap DOMAIN VisitFact = {}
  /\ DOMAIN HomeFact \cap DOMAIN FinalFact = {}
  /\ DOMAIN CleaningFact \cap DOMAIN EventFact = {}
  /\ DOMAIN CleaningFact \cap DOMAIN PersonaliseFact = {}
  /\ DOMAIN CleaningFact \cap DOMAIN VisitFact = {} /\ DOMAIN CleaningFact \cap DOMAIN FinalFact = {}
  /\ DOMAIN EventFact \cap DOMAIN PersonaliseFact = {} /\ DOMAIN EventFact \cap DOMAIN VisitFact = {}
  /\ DOMAIN EventFact \cap DOMAIN FinalFact = {}
  /\ DOMAIN PersonaliseFact \cap DOMAIN VisitFact = {}
  /\ DOMAIN PersonaliseFact \cap DOMAIN FinalFact = {} /\ DOMAIN VisitFact \cap DOMAIN FinalFact = {}
<1>1. /\ DOMAIN HomeFact \cap DOMAIN CleaningFact = {} /\ DOMAIN HomeFact \cap DOMAIN EventFact = {}
      /\ DOMAIN HomeFact \cap DOMAIN PersonaliseFact = {}
  BY DEF HomeFact, CleaningFact, EventFact, PersonaliseFact
<1>2. DOMAIN HomeFact \cap DOMAIN VisitFact = {} /\ DOMAIN HomeFact \cap DOMAIN FinalFact = {}
  BY DEF HomeFact, VisitFact, FinalFact
<1>3. /\ DOMAIN CleaningFact \cap DOMAIN EventFact = {}
      /\ DOMAIN CleaningFact \cap DOMAIN PersonaliseFact = {}
      /\ DOMAIN CleaningFact \cap DOMAIN VisitFact = {} /\ DOMAIN CleaningFact \cap DOMAIN FinalFact = {}
  BY DEF CleaningFact, EventFact, PersonaliseFact, VisitFact, FinalFact
<1>4. DOMAIN EventFact \cap DOMAIN PersonaliseFact = {} /\ DOMAIN EventFact \cap DOMAIN VisitFact = {}
  BY DEF EventFact, PersonaliseFact, VisitFact
<1>5. DOMAIN EventFact \cap DOMAIN FinalFact = {}
  BY DEF EventFact, FinalFact
<1>6. /\ DOMAIN PersonaliseFact \cap DOMAIN VisitFact = {}
      /\ DOMAIN PersonaliseFact \cap DOMAIN FinalFact = {}
  BY DEF PersonaliseFact, VisitFact, FinalFact
<1>7. DOMAIN VisitFact \cap DOMAIN FinalFact = {}
  BY DEF VisitFact, FinalFact
<1> QED BY <1>1, <1>2, <1>3, <1>4, <1>5, <1>6, <1>7

LEMMA FactsApart ==
  /\ \A f \in PropertyFacts : f \notin CleaningFacts \cup EventFacts \cup PersonaliseFacts
                                         \cup VisitFacts \cup FinalFacts
  /\ \A f \in CleaningFacts : f \notin EventFacts \cup PersonaliseFacts \cup VisitFacts \cup FinalFacts
  /\ \A f \in EventFacts : f \notin PersonaliseFacts \cup VisitFacts \cup FinalFacts
  /\ \A f \in PersonaliseFacts : f \notin VisitFacts \cup FinalFacts
  /\ \A f \in VisitFacts : f \notin FinalFacts
  /\ "media" \notin PropertyFacts \cup CleaningFacts \cup EventFacts \cup PersonaliseFacts
                      \cup VisitFacts \cup FinalFacts
<1>1. \A f \in PropertyFacts : f \notin CleaningFacts \cup EventFacts \cup PersonaliseFacts
  BY DEF PropertyFacts, CleaningFacts, EventFacts, EventBooleans, PersonaliseFacts, LaundryFacts
<1>2. \A f \in PropertyFacts : f \notin VisitFacts
  BY DEF PropertyFacts, VisitFacts, FactsOf
<1>3. \A f \in PropertyFacts : f \notin FinalFacts
  BY DEF PropertyFacts, FinalFacts, FactsOf, SafetyFacts, NotesFacts
<1>4. \A f \in CleaningFacts : f \notin EventFacts \cup PersonaliseFacts
  BY DEF CleaningFacts, EventFacts, EventBooleans, PersonaliseFacts, LaundryFacts
<1>5. \A f \in CleaningFacts : f \notin VisitFacts \cup FinalFacts
  BY DEF CleaningFacts, VisitFacts, FinalFacts, FactsOf, SafetyFacts, NotesFacts
<1>6. \A f \in EventFacts : f \notin PersonaliseFacts \cup VisitFacts
  BY DEF EventFacts, EventBooleans, PersonaliseFacts, LaundryFacts, VisitFacts, FactsOf
<1>7. \A f \in EventFacts : f \notin FinalFacts
  BY DEF EventFacts, EventBooleans, FinalFacts, FactsOf, SafetyFacts, NotesFacts
<1>8. \A f \in PersonaliseFacts : f \notin VisitFacts \cup FinalFacts
  BY DEF PersonaliseFacts, LaundryFacts, VisitFacts, FinalFacts, FactsOf, SafetyFacts, NotesFacts
<1>9. \A f \in VisitFacts : f \notin FinalFacts
  BY DEF VisitFacts, FinalFacts, FactsOf, SafetyFacts, NotesFacts
<1>10. "media" \notin PropertyFacts \cup CleaningFacts \cup EventFacts \cup PersonaliseFacts
  BY DEF PropertyFacts, CleaningFacts, EventFacts, EventBooleans, PersonaliseFacts, LaundryFacts
<1>11. "media" \notin VisitFacts \cup FinalFacts
  BY DEF VisitFacts, FinalFacts, FactsOf, SafetyFacts, NotesFacts
<1> QED BY <1>1, <1>2, <1>3, <1>4, <1>5, <1>6, <1>7, <1>8, <1>9, <1>10, <1>11

\* An answer leaves the facts of the other collectors as they were.
LEMMA OthersKept ==
  ASSUME NEW d, DraftFits(d), NEW e, NEW changed, \A g \in Facts \ changed : e[g] = d[g]
  PROVE  /\ PropertyFacts \cap changed = {} => HomeFits(e)
         /\ CleaningFacts \cap changed = {} => CleaningFits(e)
         /\ EventFacts \cap changed = {} => EventFits(e)
         /\ (EventFacts \cup {"primaryService"}) \cap changed = {} => EventIsAsked(e)
         /\ PersonaliseFacts \cap changed = {} => PersonaliseFits(e)
         /\ {"laundryLoads", "ironingLoads", "primaryService"} \cap changed = {}
              => LaundryIsEligible(e)
         /\ VisitFacts \cap changed = {} => VisitFits(e)
         /\ FinalFacts \cap changed = {} => FinalFits(e)
<1>1. ASSUME PropertyFacts \cap changed = {} PROVE HomeFits(e)
  <2>1. \A g \in PropertyFacts : e[g] = d[g]
    BY <1>1, AllFacts
  <2>2. e.propertyType = d.propertyType
    BY <2>1 DEF PropertyFacts
  <2>3. HomeFits(d)
    BY DEF DraftFits
  <2> QED BY <2>1, <2>2, <2>3, HomeKept
<1>2. ASSUME CleaningFacts \cap changed = {} PROVE CleaningFits(e)
  BY <1>2, AllFacts, CleaningKept DEF DraftFits
<1>3. ASSUME EventFacts \cap changed = {} PROVE EventFits(e)
  BY <1>3, AllFacts, EventKept DEF DraftFits
<1>4. ASSUME (EventFacts \cup {"primaryService"}) \cap changed = {} PROVE EventIsAsked(e)
  <2>1. "primaryService" \in Facts /\ EventFacts \subseteq Facts
    BY AllFacts DEF CleaningFacts
  <2>2. e.primaryService = d.primaryService /\ \A g \in EventFacts : e[g] = d[g]
    BY <1>4, <2>1
  <2> QED BY <2>2 DEF DraftFits, EventIsAsked
<1>5. ASSUME PersonaliseFacts \cap changed = {} PROVE PersonaliseFits(e)
  BY <1>5, AllFacts, PersonaliseKept DEF DraftFits
<1>6. ASSUME {"laundryLoads", "ironingLoads", "primaryService"} \cap changed = {}
      PROVE  LaundryIsEligible(e)
  <2>1. {"laundryLoads", "ironingLoads", "primaryService"} \subseteq Facts
    BY AllFacts DEF CleaningFacts, PersonaliseFacts, LaundryFacts
  <2>2. /\ e.primaryService = d.primaryService /\ e.laundryLoads = d.laundryLoads
        /\ e.ironingLoads = d.ironingLoads
    BY <1>6, <2>1
  <2> QED BY <2>2 DEF DraftFits, LaundryIsEligible
<1>7. ASSUME VisitFacts \cap changed = {} PROVE VisitFits(e)
  <2>1. \A g \in VisitFacts : e[g] = d[g]
    BY <1>7, AllFacts
  <2>2. e.keyHandover = d.keyHandover /\ e.hasPets = d.hasPets
    BY <2>1 DEF VisitFacts, FactsOf
  <2>3. VisitFits(d)
    BY DEF DraftFits
  <2> QED BY <2>1, <2>2, <2>3, VisitKept
<1>8. ASSUME FinalFacts \cap changed = {} PROVE FinalFits(e)
  BY <1>8, AllFacts, FinalKept DEF DraftFits
<1> QED BY <1>1, <1>2, <1>3, <1>4, <1>5, <1>6, <1>7, <1>8

LEMMA RestKept ==
  ASSUME NEW d, DraftFits(d), NEW e, NEW f, \A g \in Facts \ {f} : e[g] = d[g]
  PROVE  /\ f \notin PropertyFacts => HomeFits(e)
         /\ f \notin CleaningFacts => CleaningFits(e)
         /\ f \notin EventFacts => EventFits(e)
         /\ f \notin EventFacts /\ f # "primaryService" => EventIsAsked(e)
         /\ f \notin PersonaliseFacts => PersonaliseFits(e)
         /\ f \notin {"laundryLoads", "ironingLoads", "primaryService"} => LaundryIsEligible(e)
         /\ f \notin VisitFacts => VisitFits(e)
         /\ f \notin FinalFacts => FinalFits(e)
<1>1. PICK changed : changed = {f}
  OBVIOUS
<1>2. \A S : f \notin S => S \cap changed = {}
  BY <1>1
<1>3. \A g \in Facts \ changed : e[g] = d[g]
  BY <1>1
<1>4. /\ PropertyFacts \cap changed = {} => HomeFits(e)
      /\ CleaningFacts \cap changed = {} => CleaningFits(e)
      /\ EventFacts \cap changed = {} => EventFits(e)
      /\ (EventFacts \cup {"primaryService"}) \cap changed = {} => EventIsAsked(e)
      /\ PersonaliseFacts \cap changed = {} => PersonaliseFits(e)
      /\ {"laundryLoads", "ironingLoads", "primaryService"} \cap changed = {} => LaundryIsEligible(e)
      /\ VisitFacts \cap changed = {} => VisitFits(e)
      /\ FinalFacts \cap changed = {} => FinalFits(e)
  BY <1>3, OthersKept
<1>5. f \notin EventFacts /\ f # "primaryService"
        => (EventFacts \cup {"primaryService"}) \cap changed = {}
  BY <1>1
<1> QED BY <1>2, <1>4, <1>5

LEMMA NotAddOns ==
  ASSUME NEW d, NEW q, NEW r, AnswerPatch(d, q, r) # None
  PROVE  /\ q \in DOMAIN HomeFact =>
              HomeAnswer(d, q, r) # None
                /\ AnswerPatch(d, q, r) = Fact(HomeFact[q], HomeAnswer(d, q, r))
         /\ q \in DOMAIN CleaningFact =>
              CleaningAnswer(d, q, r) # None
                /\ AnswerPatch(d, q, r) = Fact(CleaningFact[q], CleaningAnswer(d, q, r))
         /\ q \in DOMAIN EventFact =>
              EventAnswer(q, r) # None
                /\ AnswerPatch(d, q, r) = Fact(EventFact[q], EventAnswer(q, r))
         /\ q \in DOMAIN PersonaliseFact =>
              IF q = "ADD_ONS" THEN AnswerPatch(d, q, r) = AddOnsPatch(d, r)
              ELSE PersonaliseAnswer(d, q, r) # None
                     /\ AnswerPatch(d, q, r) = Fact(PersonaliseFact[q], PersonaliseAnswer(d, q, r))
         /\ q \in DOMAIN VisitFact =>
              VisitAnswer(q, r) # None
                /\ AnswerPatch(d, q, r) = Fact(VisitFact[q], VisitAnswer(q, r))
         /\ q \in DOMAIN FinalFact =>
              FinalAnswer(d, q, r) # None
                /\ AnswerPatch(d, q, r) = Fact(FinalFact[q], FinalAnswer(d, q, r))
<1>1. "ADD_ONS" \in DOMAIN PersonaliseFact
  BY DEF PersonaliseFact
<1> QED BY <1>1, CollectorsApart DEF AnswerPatch

\* Whatever is replied, an accepted answer keeps the draft fitting.
LEMMA AnswerKeepsDraft ==
  ASSUME NEW d, DraftFits(d), NEW q, AskedNext(d, q), NEW r, AnswerPatch(d, q, r) # None
  PROVE  DraftFits(Patched(AnswerPatch(d, q, r), d))
<1> DEFINE e == Patched(AnswerPatch(d, q, r), d)
<1>0. d = [f \in Facts |-> d[f]]
  BY DEF DraftFits
<1>1. CASE q \in DOMAIN HomeFact /\ HomeOpen(d, q)
  <2>1. PICK f, v : f = HomeFact[q] /\ v = HomeAnswer(d, q, r)
    OBVIOUS
  <2>2. v # None /\ AnswerPatch(d, q, r) = Fact(f, v)
    BY <1>1, <2>1, NotAddOns
  <2>3. f \in PropertyFacts /\ HomeValueFits(d, f, v)
    BY <1>1, <2>1, <2>2, HomeValues
  <2>4. d[f] = None
    BY <1>1, <2>1 DEF HomeOpen
  <2>5. /\ e = [g \in Facts |-> e[g]] /\ e[f] = v
        /\ \A g \in Facts \ {f} : e[g] = d[g]
    BY <1>0, <2>2, <2>3, AllFacts, PatchedByOne
  <2> HIDE DEF e
  <2>6. HomeFits(e)
    BY <2>2, <2>3, <2>4, <2>5, AllFacts, HomeAnswered DEF DraftFits
  <2>7. /\ f \notin CleaningFacts \cup EventFacts \cup PersonaliseFacts \cup VisitFacts \cup FinalFacts
        /\ f \notin {"laundryLoads", "ironingLoads", "primaryService"}
    BY <2>3, FactsApart DEF CleaningFacts, PersonaliseFacts, LaundryFacts
  <2>8. /\ CleaningFits(e) /\ EventFits(e) /\ EventIsAsked(e) /\ PersonaliseFits(e)
        /\ LaundryIsEligible(e) /\ VisitFits(e) /\ FinalFits(e)
    BY <2>5, <2>7, RestKept
  <2> QED BY <2>5, <2>6, <2>8 DEF DraftFits, e
<1>2. CASE /\ q \in DOMAIN CleaningFact /\ CleaningOpen(d, q)
           /\ q = "FREQUENCY" => d.primaryService # None
  <2>1. PICK f, v : f = CleaningFact[q] /\ v = CleaningAnswer(d, q, r)
    OBVIOUS
  <2>2. v # None /\ AnswerPatch(d, q, r) = Fact(f, v)
    BY <1>2, <2>1, NotAddOns
  <2>3. f \in CleaningFacts /\ d[f] = None
    BY <1>2, <2>1 DEF CleaningFact, CleaningFacts, CleaningOpen
  <2>4. /\ e = [g \in Facts |-> e[g]] /\ e[f] = v
        /\ \A g \in Facts \ {f} : e[g] = d[g]
    BY <1>0, <2>2, <2>3, AllFacts, PatchedByOne
  <2> HIDE DEF e
  <2>5. CleaningFits(e)
    BY <1>2, <2>1, <2>2, <2>4, AllFacts, CleaningAnswered DEF DraftFits
  <2>6. f \notin PropertyFacts \cup EventFacts \cup PersonaliseFacts \cup VisitFacts \cup FinalFacts
    BY <2>3, FactsApart
  <2>7. /\ HomeFits(e) /\ EventFits(e) /\ PersonaliseFits(e) /\ VisitFits(e) /\ FinalFits(e)
    BY <2>4, <2>6, RestKept
  <2>8. EventIsAsked(e) /\ LaundryIsEligible(e)
    <3>1. CASE f = "primaryService"
      <4>1. d.primaryService = None
        BY <2>3, <3>1
      <4>2. ~LaundryEligible(d.primaryService) /\ d.primaryService # PostEvent
        BY <4>1, NoneIsNoFact DEF LaundryEligible, PrimaryServices
      <4>3. /\ \A g \in EventFacts : d[g] = None
            /\ d.laundryLoads = None /\ d.ironingLoads = None
        BY <4>2 DEF DraftFits, EventIsAsked, LaundryIsEligible
      <4>4. /\ \A g \in EventFacts : e[g] = None
            /\ e.laundryLoads = None /\ e.ironingLoads = None
        BY <4>3, <2>4, <2>6, AllFacts DEF PersonaliseFacts, LaundryFacts
      <4> QED BY <4>4 DEF EventIsAsked, LaundryIsEligible
    <3>2. CASE f # "primaryService"
      <4>1. f \notin {"laundryLoads", "ironingLoads", "primaryService"}
        BY <2>6, <3>2 DEF PersonaliseFacts, LaundryFacts
      <4> QED BY <2>4, <2>6, <3>2, <4>1, RestKept
    <3> QED BY <3>1, <3>2
  <2> QED BY <2>4, <2>5, <2>7, <2>8 DEF DraftFits, e
<1>3. CASE q \in DOMAIN EventFact /\ EventOpen(d, q) /\ d.primaryService = PostEvent
  <2>1. PICK f, v : f = EventFact[q] /\ v = EventAnswer(q, r)
    OBVIOUS
  <2>2. v # None /\ AnswerPatch(d, q, r) = Fact(f, v)
    BY <1>3, <2>1, NotAddOns
  <2>3. f \in EventFacts /\ EventValueFits(f, v)
    BY <1>3, <2>1, <2>2, EventValues
  <2>4. /\ e = [g \in Facts |-> e[g]] /\ e[f] = v
        /\ \A g \in Facts \ {f} : e[g] = d[g]
    BY <1>0, <2>2, <2>3, AllFacts, PatchedByOne
  <2> HIDE DEF e
  <2>5. EventFits(e)
    BY <2>3, <2>4, AllFacts, EventAnswered DEF DraftFits
  <2>6. /\ f \notin PropertyFacts \cup CleaningFacts \cup PersonaliseFacts \cup VisitFacts \cup FinalFacts
        /\ f \notin {"laundryLoads", "ironingLoads", "primaryService"}
    BY <2>3, FactsApart DEF CleaningFacts, PersonaliseFacts, LaundryFacts
  <2>7. /\ HomeFits(e) /\ CleaningFits(e) /\ PersonaliseFits(e) /\ LaundryIsEligible(e)
        /\ VisitFits(e) /\ FinalFits(e)
    BY <2>4, <2>6, RestKept
  <2>8. EventIsAsked(e)
    <3>1. "primaryService" \in Facts
      BY AllFacts DEF CleaningFacts
    <3> QED BY <1>3, <2>4, <2>6, <3>1 DEF EventIsAsked
  <2> QED BY <2>4, <2>5, <2>7, <2>8 DEF DraftFits, e
<1>4. CASE q \in DOMAIN PersonaliseFact /\ PersonaliseOpen(d, q) /\ q # "ADD_ONS"
  <2>1. PICK f, v : f = PersonaliseFact[q] /\ v = PersonaliseAnswer(d, q, r)
    OBVIOUS
  <2>2. v # None /\ AnswerPatch(d, q, r) = Fact(f, v)
    BY <1>4, <2>1, NotAddOns
  <2>3. f \in PersonaliseFacts
    BY <1>4, <2>1 DEF PersonaliseFact, PersonaliseFacts, LaundryFacts
  <2>4. /\ e = [g \in Facts |-> e[g]] /\ e[f] = v
        /\ \A g \in Facts \ {f} : e[g] = d[g]
    BY <1>0, <2>2, <2>3, AllFacts, PatchedByOne
  <2> HIDE DEF e
  <2>5. /\ PersonaliseFits(e)
        /\ e.laundryLoads # None => d.laundryLoads # None
        /\ e.ironingLoads # None => d.ironingLoads # None
    BY <1>4, <2>1, <2>2, <2>4, AllFacts, PersonaliseAnswered DEF DraftFits
  <2>6. f \notin PropertyFacts \cup CleaningFacts \cup EventFacts \cup VisitFacts \cup FinalFacts
    BY <2>3, FactsApart
  <2>7. f # "primaryService" /\ "primaryService" \in Facts
    BY <2>6, AllFacts DEF CleaningFacts
  <2>8. /\ HomeFits(e) /\ CleaningFits(e) /\ EventFits(e) /\ EventIsAsked(e)
        /\ VisitFits(e) /\ FinalFits(e)
    BY <2>4, <2>6, <2>7, RestKept
  <2>9. LaundryIsEligible(e)
    BY <2>4, <2>5, <2>7 DEF DraftFits, LaundryIsEligible
  <2> QED BY <2>4, <2>5, <2>8, <2>9 DEF DraftFits, e
<1>5. CASE q = "ADD_ONS"
  <2>1. PICK patch : patch = AddOnsPatch(d, r)
    OBVIOUS
  <2>2. patch # None /\ AnswerPatch(d, q, r) = patch
    <3>1. "ADD_ONS" \in DOMAIN PersonaliseFact
      BY DEF PersonaliseFact
    <3> QED BY <1>5, <2>1, <3>1, NotAddOns
  <2>3. /\ DOMAIN patch \subseteq {"addOns", "laundryLoads", "ironingLoads"}
        /\ "addOns" \in DOMAIN patch /\ AddOnsFit(patch.addOns)
        /\ \A f \in DOMAIN patch \ {"addOns"} : patch[f] = 0 /\ LaundryEligible(d.primaryService)
    BY <2>1, <2>2, AddOnsChosen
  <2>4. DOMAIN patch \subseteq PersonaliseFacts /\ DOMAIN patch \subseteq Facts
    BY <2>3, AllFacts DEF PersonaliseFacts, LaundryFacts
  <2>5. e = [g \in Facts |-> IF g \in DOMAIN patch THEN patch[g] ELSE d[g]]
    BY <1>0, <2>2, <2>4 DEF Patched
  <2> HIDE DEF e
  <2>6. "primaryService" \in Facts /\ "primaryService" \notin DOMAIN patch
    BY <2>3, AllFacts DEF CleaningFacts
  <2>7. PersonaliseFits(e) /\ LaundryIsEligible(e)
    <3>1. \A g \in PersonaliseFacts \cup {"primaryService"} :
            e[g] = IF g \in DOMAIN patch THEN patch[g] ELSE d[g]
      BY <2>5, <2>6, AllFacts
    <3> QED BY <2>3, <3>1, AddOnsAnswered DEF DraftFits
  <2>8. /\ DOMAIN patch \cap (PropertyFacts \cup CleaningFacts) = {}
        /\ DOMAIN patch \cap EventFacts = {} /\ DOMAIN patch \cap VisitFacts = {}
        /\ DOMAIN patch \cap FinalFacts = {}
    BY <2>4, FactsApart
  <2>9. /\ HomeFits(e) /\ CleaningFits(e) /\ EventFits(e) /\ EventIsAsked(e)
        /\ VisitFits(e) /\ FinalFits(e)
    <3>1. \A g \in Facts \ DOMAIN patch : e[g] = d[g]
      BY <2>5
    <3> QED BY <2>6, <2>8, <3>1, OthersKept
  <2> QED BY <2>5, <2>7, <2>9 DEF DraftFits, e
<1>6. CASE q \in DOMAIN VisitFact /\ VisitOpen(d, q)
  <2>1. PICK f, v : f = VisitFact[q] /\ v = VisitAnswer(q, r)
    OBVIOUS
  <2>2. v # None /\ AnswerPatch(d, q, r) = Fact(f, v)
    BY <1>6, <2>1, NotAddOns
  <2>3. f \in VisitFacts /\ VisitValueFits(d, f, v)
    BY <1>6, <2>1, <2>2, VisitValues
  <2>4. d[f] = None
    BY <1>6, <2>1 DEF VisitOpen
  <2>5. /\ e = [g \in Facts |-> e[g]] /\ e[f] = v
        /\ \A g \in Facts \ {f} : e[g] = d[g]
    BY <1>0, <2>2, <2>3, AllFacts, PatchedByOne
  <2> HIDE DEF e
  <2>6. VisitFits(e)
    BY <2>3, <2>4, <2>5, AllFacts, VisitAnswered DEF DraftFits
  <2>7. /\ f \notin PropertyFacts \cup CleaningFacts \cup EventFacts \cup PersonaliseFacts \cup FinalFacts
        /\ f \notin {"laundryLoads", "ironingLoads", "primaryService"}
    BY <2>3, FactsApart DEF CleaningFacts, PersonaliseFacts, LaundryFacts
  <2>8. /\ HomeFits(e) /\ CleaningFits(e) /\ EventFits(e) /\ EventIsAsked(e) /\ PersonaliseFits(e)
        /\ LaundryIsEligible(e) /\ FinalFits(e)
    BY <2>5, <2>7, RestKept
  <2> QED BY <2>5, <2>6, <2>8 DEF DraftFits, e
<1>7. CASE q \in DOMAIN FinalFact /\ FinalOpen(d, q)
  <2>1. PICK f, v : f = FinalFact[q] /\ v = FinalAnswer(d, q, r)
    OBVIOUS
  <2>2. v # None /\ AnswerPatch(d, q, r) = Fact(f, v)
    BY <1>7, <2>1, NotAddOns
  <2>3. f \in FinalFacts
    BY <1>7, <2>1 DEF FinalFact, FinalFacts, FactsOf, SafetyFacts, NotesFacts
  <2>4. /\ e = [g \in Facts |-> e[g]] /\ e[f] = v
        /\ \A g \in Facts \ {f} : e[g] = d[g]
    BY <1>0, <2>2, <2>3, AllFacts, PatchedByOne
  <2> HIDE DEF e
  <2>5. FinalFits(e)
    BY <1>7, <2>1, <2>2, <2>4, AllFacts, FinalAnswered DEF DraftFits
  <2>6. /\ f \notin PropertyFacts \cup CleaningFacts \cup EventFacts \cup PersonaliseFacts \cup VisitFacts
        /\ f \notin {"laundryLoads", "ironingLoads", "primaryService"}
    BY <2>3, FactsApart DEF CleaningFacts, PersonaliseFacts, LaundryFacts
  <2>7. /\ HomeFits(e) /\ CleaningFits(e) /\ EventFits(e) /\ EventIsAsked(e) /\ PersonaliseFits(e)
        /\ LaundryIsEligible(e) /\ VisitFits(e)
    BY <2>4, <2>6, RestKept
  <2> QED BY <2>4, <2>5, <2>7 DEF DraftFits, e
<1> QED BY <1>1, <1>2, <1>3, <1>4, <1>5, <1>6, <1>7 DEF AskedNext

\* A corrected section is cleared with everything that depends on it.
LEMMA CorrectionKeepsDraft ==
  ASSUME NEW d, DraftFits(d), NEW r, CorrectionPatch(r) # None
  PROVE  DraftFits(Patched(CorrectionPatch(r), d))
<1> DEFINE e == Patched(CorrectionPatch(r), d)
<1>1. PICK n \in DOMAIN Section : CorrectionPatch(r) = [f \in Section[n] |-> None]
  BY DEF CorrectionPatch, OneNumber
<1>2. PICK S : S = Section[n]
  OBVIOUS
<1>3. FactsOf.property = PropertyFacts /\ FactsOf.request = RequestFacts
  BY DEF FactsOf
<1>4. \/ S = PropertyFacts
      \/ S = RequestFacts
      \/ S = FactsOf.visit
      \/ S = FactsOf.access \cup FactsOf.household
      \/ S = FactsOf.safety \cup FactsOf.notes \cup FactsOf.photos \cup {"media"}
      \/ S = FactsOf.customer
  BY <1>2, <1>3 DEF Section
<1>5. RequestFacts = CleaningFacts \cup EventFacts \cup PersonaliseFacts
  BY DEF RequestFacts, CleaningFacts, PersonaliseFacts
<1>6. FactsOf.safety \cup FactsOf.notes \cup FactsOf.photos \cup FactsOf.customer = FinalFacts
  BY DEF FinalFacts, FactsOf
<1>7. FactsOf.visit \cup FactsOf.access \cup FactsOf.household = VisitFacts
  BY DEF VisitFacts
<1>8. S \subseteq Facts
  BY <1>4, <1>5, <1>6, <1>7, AllFacts
<1>9. d = [f \in Facts |-> d[f]]
  BY DEF DraftFits
<1>10. e = [f \in Facts |-> IF f \in S THEN None ELSE d[f]]
  BY <1>1, <1>2, <1>8, <1>9 DEF Patched
<1> HIDE DEF e
<1>11. /\ e = [f \in Facts |-> e[f]]
       /\ \A f \in Facts \ S : e[f] = d[f]
       /\ \A f \in Facts : f \in S => e[f] = None
       /\ \A f \in Facts : e[f] \in {d[f], None}
  BY <1>10
<1>12. /\ PropertyFacts \cap S = {} => HomeFits(e)
       /\ CleaningFacts \cap S = {} => CleaningFits(e)
       /\ EventFacts \cap S = {} => EventFits(e)
       /\ (EventFacts \cup {"primaryService"}) \cap S = {} => EventIsAsked(e)
       /\ PersonaliseFacts \cap S = {} => PersonaliseFits(e)
       /\ {"laundryLoads", "ironingLoads", "primaryService"} \cap S = {} => LaundryIsEligible(e)
       /\ VisitFacts \cap S = {} => VisitFits(e)
       /\ FinalFacts \cap S = {} => FinalFits(e)
  BY <1>11, OthersKept
<1>13. /\ "primaryService" \in CleaningFacts
       /\ "laundryLoads" \in PersonaliseFacts /\ "ironingLoads" \in PersonaliseFacts
  BY DEF CleaningFacts, PersonaliseFacts, LaundryFacts
<1>14. ASSUME RequestFacts \cap S = {}
       PROVE  /\ CleaningFits(e) /\ EventFits(e) /\ EventIsAsked(e) /\ PersonaliseFits(e)
              /\ LaundryIsEligible(e)
  <2>1. CleaningFacts \cap S = {} /\ EventFacts \cap S = {} /\ PersonaliseFacts \cap S = {}
    BY <1>5, <1>14
  <2>2. /\ (EventFacts \cup {"primaryService"}) \cap S = {}
        /\ {"laundryLoads", "ironingLoads", "primaryService"} \cap S = {}
    BY <1>13, <2>1
  <2> QED BY <1>12, <2>1, <2>2
<1>15. /\ HomeFits(d) /\ CleaningFits(d) /\ EventFits(d) /\ PersonaliseFits(d) /\ VisitFits(d)
       /\ FinalFits(d)
  BY DEF DraftFits
<1>16. CASE S = PropertyFacts
  <2>1. e.bedrooms = None /\ e.exactFloor = None /\ e.buildingAccess = None
    BY <1>8, <1>11, <1>16 DEF PropertyFacts
  <2>2. HomeFits(e)
    BY <1>11, <1>15, <2>1, AllFacts, HomeKept
  <2>3. RequestFacts \cap S = {} /\ VisitFacts \cap S = {} /\ FinalFacts \cap S = {}
    BY <1>5, <1>16, FactsApart
  <2> QED BY <1>11, <1>12, <1>14, <2>2, <2>3 DEF DraftFits, e
<1>17. CASE S = RequestFacts
  <2>1. /\ \A f \in CleaningFacts : e[f] = None
        /\ \A f \in EventFacts : e[f] = None
        /\ \A f \in PersonaliseFacts : e[f] = None
    BY <1>5, <1>8, <1>11, <1>17
  <2>2. CleaningFits(e) /\ PersonaliseFits(e)
    BY <1>15, <2>1, CleaningKept, PersonaliseKept
  <2>3. EventFits(e) /\ EventIsAsked(e)
    BY <1>15, <2>1, EventKept DEF EventIsAsked
  <2>4. LaundryIsEligible(e)
    BY <1>13, <2>1 DEF LaundryIsEligible
  <2>5. PropertyFacts \cap S = {} /\ VisitFacts \cap S = {} /\ FinalFacts \cap S = {}
    BY <1>5, <1>17, FactsApart
  <2> QED BY <1>11, <1>12, <2>2, <2>3, <2>4, <2>5 DEF DraftFits, e
<1>18. CASE S = FactsOf.visit \/ S = FactsOf.access \cup FactsOf.household
  <2>1. S \subseteq VisitFacts
    BY <1>7, <1>18
  <2>2. /\ RequestFacts \cap S = {} /\ PropertyFacts \cap S = {} /\ FinalFacts \cap S = {}
    BY <1>5, <2>1, FactsApart
  <2>3. \A f \in VisitFacts : e[f] \in {d[f], None}
    BY <1>11, AllFacts
  <2>4. {"keyHandover", "keyHandoverDetails", "hasPets", "petType", "petTemperament"} \subseteq Facts
    BY AllFacts DEF VisitFacts, FactsOf
  <2>5. /\ e.keyHandover = d.keyHandover \/ e.keyHandoverDetails = None
        /\ e.hasPets = d.hasPets \/ (e.petType = None /\ e.petTemperament = None)
    <3>1. CASE S = FactsOf.visit
      <4>1. "keyHandover" \notin S /\ "hasPets" \notin S
        BY <3>1 DEF FactsOf
      <4> QED BY <1>11, <2>4, <4>1
    <3>2. CASE S = FactsOf.access \cup FactsOf.household
      <4>1. "keyHandoverDetails" \in S /\ "petType" \in S /\ "petTemperament" \in S
        BY <3>2 DEF FactsOf
      <4> QED BY <1>11, <2>4, <4>1
    <3> QED BY <1>18, <3>1, <3>2
  <2>6. VisitFits(e)
    BY <1>15, <2>3, <2>5, VisitKept
  <2> QED BY <1>11, <1>12, <1>14, <2>2, <2>6 DEF DraftFits, e
<1>19. CASE \/ S = FactsOf.safety \cup FactsOf.notes \cup FactsOf.photos \cup {"media"}
            \/ S = FactsOf.customer
  <2>1. S \subseteq FinalFacts \cup {"media"}
    BY <1>6, <1>19
  <2>2. RequestFacts \cap S = {} /\ PropertyFacts \cap S = {} /\ VisitFacts \cap S = {}
    BY <1>5, <2>1, FactsApart
  <2>3. FinalFits(e)
    BY <1>11, <1>15, AllFacts, FinalKept
  <2> QED BY <1>11, <1>12, <1>14, <2>2, <2>3 DEF DraftFits, e
<1> QED BY <1>4, <1>16, <1>17, <1>18, <1>19

LEMMA PhotoKeepsDraft ==
  ASSUME NEW d, DraftFits(d)
  PROVE  DraftFits([d EXCEPT !.media = "IMAGES"])
<1> DEFINE e == [d EXCEPT !.media = "IMAGES"]
<1>1. d = [f \in Facts |-> d[f]] /\ "media" \in Facts
  BY AllFacts DEF DraftFits
<1>2. e = [f \in Facts |-> e[f]] /\ \A g \in Facts \ {"media"} : e[g] = d[g]
  BY <1>1
<1> HIDE DEF e
<1>3. "media" \notin {"laundryLoads", "ironingLoads", "primaryService"}
  OBVIOUS
<1> QED BY <1>2, <1>3, FactsApart, RestKept DEF DraftFits, e

LEMMA EmptyDraftFits ==
  DraftFits(EmptyDraft)
<1>1. /\ EmptyDraft = [f \in Facts |-> EmptyDraft[f]]
      /\ \A f \in Facts : EmptyDraft[f] = None
  BY DEF EmptyDraft
<1>2. PICK e : e = EmptyDraft
  OBVIOUS
<1>3. /\ \A f \in PropertyFacts : e[f] = None
      /\ \A f \in CleaningFacts : e[f] = None
      /\ \A f \in EventFacts : e[f] = None
      /\ \A f \in PersonaliseFacts : e[f] = None
      /\ \A f \in VisitFacts : e[f] = None
      /\ \A f \in FinalFacts : e[f] = None
  BY <1>1, <1>2, AllFacts
<1>4. HomeFits(e)
  <2>1. DOMAIN PropertyWords \subseteq PropertyFacts
    BY DEF PropertyWords, PropertyFacts
  <2>2. /\ e.addressLine1 = None /\ e.suburb = None /\ e.country = None /\ e.exactFloor = None
        /\ e.buildingAccess = None /\ e.bedrooms = None
    BY <1>3 DEF PropertyFacts
  <2> QED BY <1>3, <2>1, <2>2, NoneIsNoFact DEF HomeFits
<1>5. CleaningFits(e)
  BY <1>3 DEF CleaningFacts, CleaningFits
<1>6. EventFits(e) /\ EventIsAsked(e)
  BY <1>3 DEF EventFacts, EventFits, EventIsAsked
<1>7. PersonaliseFits(e) /\ LaundryIsEligible(e)
  BY <1>3 DEF PersonaliseFacts, LaundryFacts, PersonaliseFits, LaundryIsEligible
<1>8. VisitFits(e)
  <2>1. \A f \in {"preferredDate", "alternativeDate", "preferredTime", "flexibility", "urgency",
                  "keyHandoverDetails", "petType", "petTemperament", "recurringNotes",
                  "securityInstructions", "parking", "complexAccess", "keyHandover",
                  "someonePresent", "hasPets"} : e[f] = None
    BY <1>3 DEF VisitFacts, FactsOf
  <2> QED BY <2>1 DEF VisitFits
<1>9. FinalFits(e)
  <2>1. /\ \A f \in SafetyFacts \cup NotesFacts : e[f] = None
        /\ \A f \in {"photos", "fullName", "email", "mobile", "preferredContact"} : e[f] = None
    BY <1>3 DEF FinalFacts, FactsOf
  <2> QED BY <2>1 DEF FinalFits
<1> QED BY <1>1, <1>2, <1>4, <1>5, <1>6, <1>7, <1>8, <1>9 DEF DraftFits

-----------------------------------------------------------------------------
(* With no question open, nothing is missing *)

LEMMA HomeComplete ==
  ASSUME NEW d, HomeFits(d), \A q \in DOMAIN HomeFact : ~HomeOpen(d, q)
  PROVE  ValidProperty(d) /\ d.propertyType # None
<1>1. \A q \in DOMAIN HomeFact :
        q \notin {"APARTMENT_FLOOR", "APARTMENT_ACCESS"} => d[HomeFact[q]] # None
  BY DEF HomeOpen, HomeApplies
<1>2. /\ d.propertyType # None /\ d.addressLine1 # None /\ d.suburb # None /\ d.country # None
      /\ d.floorSize # None /\ d.bedrooms # None /\ d.bathrooms # None
      /\ d.livingAreas # None /\ d.outdoorArea # None /\ d.estateClassification # None
  BY <1>1 DEF HomeFact
<1>3. \A f \in DOMAIN PropertyWords : d[f] \in PropertyWords[f]
  <2>1. \A f \in DOMAIN PropertyWords : d[f] # None
    BY <1>2 DEF PropertyWords
  <2> QED BY <2>1 DEF HomeFits
<1>4. d.propertyType = "APARTMENT" => d.exactFloor # None /\ d.buildingAccess # None
  <2>1. /\ "APARTMENT_FLOOR" \in DOMAIN HomeFact /\ HomeFact.APARTMENT_FLOOR = "exactFloor"
        /\ "APARTMENT_ACCESS" \in DOMAIN HomeFact /\ HomeFact.APARTMENT_ACCESS = "buildingAccess"
    BY DEF HomeFact
  <2> QED BY <2>1 DEF HomeOpen, HomeApplies
<1> QED BY <1>2, <1>3, <1>4 DEF HomeFits, ValidProperty, Written, NeedsFloor

LEMMA EventComplete ==
  ASSUME NEW d, EventFits(d), d.frequency = "ONE_TIME",
         \A q \in DOMAIN EventFact : ~EventOpen(d, q)
  PROVE  ValidEvent(d)
<1>1. \A q \in DOMAIN EventFact : d[EventFact[q]] # None
  BY DEF EventOpen
<1>2. /\ d.eventType # None /\ d.venueType # None /\ d.guestBand # None /\ d.dishwashing # None
      /\ d.wasteLevel # None /\ d.eventBathrooms # None /\ d.outdoorAreas # None
  BY <1>1 DEF EventFact
<1>3. \A f \in EventBooleans : d[f] # None
  <2>1. /\ d.kitchenSubstantiallyUsed # None /\ d.significantOrdinarySoiling # None
        /\ d.lateNightOrOvernight # None /\ d.bulkWasteRemovalRequested # None
        /\ d.specialistContamination # None /\ d.specialistCarpetOrUpholstery # None
        /\ d.complexVenue # None
    BY <1>1 DEF EventFact
  <2> QED BY <2>1 DEF EventBooleans
<1>4. \A f \in EventBooleans : d[f] \in BOOLEAN
  BY <1>3 DEF EventFits
<1>5. d.eventBathrooms \in Nat \ {0}
  BY <1>2 DEF EventFits
<1> QED BY <1>2, <1>4, <1>5 DEF EventFits, ValidEvent

LEMMA PersonaliseComplete ==
  ASSUME NEW d, PersonaliseFits(d), LaundryIsEligible(d),
         \A q \in DOMAIN PersonaliseFact : ~PersonaliseOpen(d, q)
  PROVE  ValidAddOns(d.addOns) /\ ValidLaundry(d) /\ d.ecoFriendlyProducts \in BOOLEAN \cup {None}
<1>1. d.addOns # None
  <2>1. "ADD_ONS" \in DOMAIN PersonaliseFact /\ PersonaliseFact.ADD_ONS = "addOns"
    BY DEF PersonaliseFact
  <2> QED BY <2>1 DEF PersonaliseOpen, PersonaliseApplies, PersonaliseUnanswered
<1>2. \A s \in QuantityAddOns : s \in DOMAIN d.addOns => ~Uncounted(d.addOns[s])
  <2>1. \A s \in QuantityAddOns :
          \E q \in {"EXTRA_REFRIGERATOR_QUANTITY", "BALCONY_PATIO_QUANTITY"} : s = AddOnOf(q)
    BY DEF QuantityAddOns, AddOnOf
  <2>2. {"EXTRA_REFRIGERATOR_QUANTITY", "BALCONY_PATIO_QUANTITY"} \subseteq DOMAIN PersonaliseFact
    BY DEF PersonaliseFact
  <2>3. \A q \in {"EXTRA_REFRIGERATOR_QUANTITY", "BALCONY_PATIO_QUANTITY"} :
          AddOnOf(q) \in DOMAIN d.addOns => ~Uncounted(d.addOns[AddOnOf(q)])
    BY <1>1, <2>2 DEF PersonaliseOpen, PersonaliseApplies, PersonaliseUnanswered
  <2> QED BY <2>1, <2>3
<1>3. ValidAddOns(d.addOns)
  BY <1>1, <1>2 DEF PersonaliseFits, AddOnsFit, ValidAddOns, Uncounted
<1>4. /\ d.laundryLoads # None => d.laundryLoads \in Nat \ {0} /\ d.facilities # None
      /\ d.ironingLoads # None => d.ironingLoads \in Nat \ {0}
  <2>1. /\ {"LAUNDRY_FACILITIES", "LAUNDRY_LOADS", "IRONING_LOADS"} \subseteq DOMAIN PersonaliseFact
        /\ PersonaliseFact.LAUNDRY_FACILITIES = "facilities"
        /\ PersonaliseFact.LAUNDRY_LOADS = "laundryLoads"
        /\ PersonaliseFact.IRONING_LOADS = "ironingLoads"
    BY DEF PersonaliseFact
  <2>2. /\ d.laundryLoads # None => ~Uncounted(d.laundryLoads) /\ d.facilities # None
        /\ d.ironingLoads # None => ~Uncounted(d.ironingLoads)
    BY <2>1 DEF PersonaliseOpen, PersonaliseApplies, PersonaliseUnanswered
  <2> QED BY <2>2 DEF PersonaliseFits, Uncounted
<1>5. LaundryErrors(d) = {}
  <2>1. d.facilities # "NO_WASHER" \/ d.laundryLoads = None
    BY <1>4 DEF PersonaliseFits
  <2> QED BY <1>4, <2>1 DEF LaundryErrors, LaundryIsEligible
<1>6. LaundrySupplied(d) => d.laundryLoads # None \/ d.ironingLoads # None
  BY DEF LaundrySupplied, LaundryFacts, PersonaliseFits
<1> QED BY <1>3, <1>5, <1>6 DEF ValidLaundry, PersonaliseFits

LEMMA RequestComplete ==
  ASSUME NEW d, DraftFits(d), NothingOpen(d)
  PROVE  ValidRequest(d) /\ d.primaryService # None
<1>1. /\ CleaningFits(d) /\ EventFits(d) /\ EventIsAsked(d) /\ PersonaliseFits(d)
      /\ LaundryIsEligible(d)
  BY DEF DraftFits
<1>2. \A q \in DOMAIN CleaningFact : CleaningApplies(d, q) => d[CleaningFact[q]] # None
  BY DEF NothingOpen, CleaningOpen
<1>3. /\ d.primaryService # None /\ d.frequency # None /\ d.homeCondition # None
      /\ d.frequency = "CUSTOM" => d.customFrequencyNote # None
  BY <1>2 DEF CleaningApplies, CleaningFact
<1>4. ValidAddOns(d.addOns) /\ ValidLaundry(d) /\ d.ecoFriendlyProducts \in BOOLEAN \cup {None}
  BY <1>1, PersonaliseComplete DEF NothingOpen
<1>5. d.primaryService = PostEvent => ValidEvent(d)
  BY <1>1, <1>3, EventComplete DEF NothingOpen, CleaningFits
<1> QED BY <1>1, <1>3, <1>4, <1>5 DEF ValidRequest, CleaningFits, EventIsAsked, Written

LEMMA VisitComplete ==
  ASSUME NEW d, VisitFits(d), \A q \in DOMAIN VisitFact : ~VisitOpen(d, q)
  PROVE  /\ ValidVisit(d) /\ ValidAccess(d) /\ ValidHousehold(d)
         /\ d.preferredDate # None /\ d.keyHandover # None /\ d.hasPets # None
<1>1. \A q \in DOMAIN VisitFact : VisitApplies(d, q) => d[VisitFact[q]] # None
  BY DEF VisitOpen
<1>2. /\ d.preferredDate # None /\ d.preferredTime # None /\ d.flexibility # None
      /\ d.urgency # None /\ d.complexAccess # None /\ d.keyHandover # None
      /\ d.someonePresent # None /\ d.hasPets # None
  <2>1. \A q \in DOMAIN VisitFact :
          q \notin {"KEY_HANDOVER_DETAILS", "PET_TYPE", "PET_TEMPERAMENT"}
            => d[VisitFact[q]] # None
    BY <1>1 DEF VisitApplies
  <2> QED BY <2>1 DEF VisitFact
<1>3. d.keyHandover = "TO_BE_ARRANGED" => d.keyHandoverDetails # None
  <2>1. /\ "KEY_HANDOVER_DETAILS" \in DOMAIN VisitFact
        /\ VisitFact.KEY_HANDOVER_DETAILS = "keyHandoverDetails"
    BY DEF VisitFact
  <2> QED BY <1>1, <2>1 DEF VisitApplies
<1>4. d.hasPets = TRUE => d.petType # None /\ d.petTemperament # None
  <2>1. /\ "PET_TYPE" \in DOMAIN VisitFact /\ VisitFact.PET_TYPE = "petType"
        /\ "PET_TEMPERAMENT" \in DOMAIN VisitFact /\ VisitFact.PET_TEMPERAMENT = "petTemperament"
    BY DEF VisitFact
  <2> QED BY <1>1, <2>1 DEF VisitApplies
<1>5. /\ d.flexibility = "TEXT" /\ d.urgency = "TEXT"
      /\ d.keyHandoverDetails \in {"TEXT", None} /\ d.petType \in {"TEXT", None}
      /\ d.petTemperament \in {"TEXT", None}
  BY <1>2 DEF VisitFits
<1>6. ValidVisit(d)
  BY <1>2, <1>5 DEF VisitFits, ValidVisit, Written, OptionalTextOK
<1>7. ValidAccess(d)
  BY <1>2, <1>3, <1>5 DEF VisitFits, ValidAccess, Written, OptionalTextOK
<1>8. ValidHousehold(d)
  BY <1>2, <1>4, <1>5 DEF VisitFits, ValidHousehold, Written
<1> QED BY <1>2, <1>6, <1>7, <1>8

LEMMA FinalComplete ==
  ASSUME NEW d, FinalFits(d), \A q \in DOMAIN FinalFact : ~FinalOpen(d, q)
  PROVE  /\ OptionalTextOK(d, SafetyFacts) /\ OptionalTextOK(d, NotesFacts) /\ ValidCustomer(d)
         /\ d.photos = "LISTED"
         /\ d.offLimitsAreas # None /\ d.attentionAreas # None /\ d.fullName # None
<1>1. \A q \in DOMAIN FinalFact : d[FinalFact[q]] # None
  BY DEF FinalOpen
<1>2. /\ d.photos # None /\ d.fullName # None /\ d.email # None /\ d.mobile # None
      /\ d.preferredContact # None /\ d.offLimitsAreas # None /\ d.attentionAreas # None
  BY <1>1 DEF FinalFact
<1> QED BY <1>2 DEF FinalFits, OptionalTextOK, ValidCustomer, Written

\* What the validator misses, some collector asks for.
LEMMA NothingOpenIsComplete ==
  ASSUME NEW d, DraftFits(d), NothingOpen(d)
  PROVE  IncompleteGroups(d) = {}
<1>1. ValidProperty(d) /\ d.propertyType # None
  BY HomeComplete DEF DraftFits, NothingOpen
<1>2. ValidRequest(d) /\ d.primaryService # None
  BY RequestComplete
<1>3. /\ ValidVisit(d) /\ ValidAccess(d) /\ ValidHousehold(d)
      /\ d.preferredDate # None /\ d.keyHandover # None /\ d.hasPets # None
  BY VisitComplete DEF DraftFits, NothingOpen
<1>4. /\ OptionalTextOK(d, SafetyFacts) /\ OptionalTextOK(d, NotesFacts) /\ ValidCustomer(d)
      /\ d.photos = "LISTED"
      /\ d.offLimitsAreas # None /\ d.attentionAreas # None /\ d.fullName # None
      /\ d.photos # None
  <2>1. d.photos # None
    <3>1. "PHOTOS" \in DOMAIN FinalFact /\ FinalFact.PHOTOS = "photos"
      BY DEF FinalFact
    <3> QED BY <3>1 DEF NothingOpen, FinalOpen
  <2> QED BY <2>1, FinalComplete DEF DraftFits, NothingOpen
<1>5. \A g \in Groups : g \in {"property", "request", "visit", "access", "household", "safety",
                               "notes", "customer", "photos"}
  BY DEF Groups, FactsOf
<1>6. \A g \in Groups : Valid(d, g)
  BY <1>1, <1>2, <1>3, <1>4, <1>5 DEF Valid
<1>7. \A g \in Groups : Present(d, g)
  <2>1. /\ "propertyType" \in FactsOf.property /\ "primaryService" \in FactsOf.request
        /\ "preferredDate" \in FactsOf.visit /\ "keyHandover" \in FactsOf.access
        /\ "hasPets" \in FactsOf.household /\ "offLimitsAreas" \in FactsOf.safety
        /\ "attentionAreas" \in FactsOf.notes /\ "fullName" \in FactsOf.customer
        /\ "photos" \in FactsOf.photos
    BY DEF FactsOf, PropertyFacts, RequestFacts, SafetyFacts, NotesFacts
  <2> QED BY <1>1, <1>2, <1>3, <1>4, <1>5, <2>1 DEF Present
<1> QED BY <1>6, <1>7 DEF IncompleteGroups

-----------------------------------------------------------------------------
(* The Quote keeps what it is made of *)

\* A Quote is made of valid facts, and its price is that of a submission or of a
\* review of them.
QuoteInv ==
  quote # None =>
    /\ quote = [facts |-> quote.facts, structured |-> quote.structured,
                scopes |-> quote.scopes, pricing |-> quote.pricing]
    /\ quote.facts = [f \in Facts |-> quote.facts[f]]
    /\ IncompleteGroups(quote.facts) = {}
    /\ quote.structured \in BOOLEAN
    /\ ~quote.structured => DraftFits(quote.facts)
    /\ DOMAIN quote.scopes \subseteq AddOnServices
    /\ quote.pricing \in {SubmittedPricing(quote.facts, quote.structured),
                          ReviewedPricing(quote.facts, quote.structured, quote.scopes)}

\* The inductive invariant: the draft fits, whatever was corrected on the way.
SInv == DraftFits(draft) /\ QuoteInv

LEMMA NewQuoteIsOne ==
  ASSUME NEW d, d = [f \in Facts |-> d[f]], IncompleteGroups(d) = {},
         NEW structured \in BOOLEAN, ~structured => DraftFits(d),
         quote' = NewQuote(d, structured)
  PROVE  QuoteInv'
<1>1. /\ quote'.facts = d /\ quote'.structured = structured
      /\ quote'.scopes = [a \in {} |-> None]
      /\ quote'.pricing = SubmittedPricing(d, structured)
      /\ quote' = [facts |-> quote'.facts, structured |-> quote'.structured,
                   scopes |-> quote'.scopes, pricing |-> quote'.pricing]
  BY DEF NewQuote
<1> QED BY <1>1 DEF QuoteInv

LEMMA ReviewKeepsQuote ==
  ASSUME QuoteInv, NEW a \in AddOnServices, NEW s \in Scopes, ReviewPricing(a, s)
  PROVE  QuoteInv'
<1> DEFINE scopes == Patched(Fact(a, s), quote.scopes)
<1>1. quote # None
  BY DEF ReviewPricing
<1>2. quote' = [quote EXCEPT !.scopes = scopes,
                             !.pricing = ReviewedPricing(quote.facts, quote.structured, scopes)]
  BY DEF ReviewPricing
<1>3. DOMAIN scopes \subseteq AddOnServices
  <2>1. DOMAIN scopes = {a} \cup DOMAIN quote.scopes
    BY DEF Patched, Fact
  <2> QED BY <1>1, <2>1 DEF QuoteInv
<1> HIDE DEF scopes
<1>4. /\ quote'.facts = quote.facts /\ quote'.structured = quote.structured
      /\ quote'.scopes = scopes
      /\ quote'.pricing = ReviewedPricing(quote.facts, quote.structured, scopes)
      /\ quote' = [facts |-> quote'.facts, structured |-> quote'.structured,
                   scopes |-> quote'.scopes, pricing |-> quote'.pricing]
  BY <1>1, <1>2 DEF QuoteInv
<1> QED BY <1>1, <1>3, <1>4 DEF QuoteInv

LEMMA SInvInitially ==
  Init => SInv
BY EmptyDraftFits DEF Init, SInv, QuoteInv

LEMMA SInvInductive ==
  SInv /\ [Next]_vars => SInv'
<1> SUFFICES ASSUME SInv, [Next]_vars PROVE SInv'
  OBVIOUS
<1>1. ASSUME UNCHANGED draft, UNCHANGED quote PROVE SInv'
  BY <1>1 DEF SInv, QuoteInv
<1>2. ASSUME DraftFits(draft'), UNCHANGED quote PROVE SInv'
  BY <1>2 DEF SInv, QuoteInv
<1>3. CASE AskQuestion
  BY <1>1, <1>3 DEF AskQuestion
<1>4. CASE PresentSummary
  BY <1>1, <1>4 DEF PresentSummary
<1>5. ASSUME NEW r \in Replies, Reply(r) PROVE SInv'
  <2>1. CASE AnswerQuestion(r)
    <3>1. PICK q : q = NextQuestion(draft)
      OBVIOUS
    <3>2. /\ q # None /\ AnswerPatch(draft, q, r) # None
          /\ draft' = Patched(AnswerPatch(draft, q, r), draft)
          /\ UNCHANGED quote
      BY <2>1, <3>1 DEF AnswerQuestion
    <3>3. AskedNext(draft, q)
      BY <3>1, <3>2, NextIsOpen
    <3>4. DraftFits(draft')
      BY <3>2, <3>3, AnswerKeepsDraft DEF SInv
    <3> QED BY <1>2, <3>2, <3>4
  <2>2. CASE AddPhoto(r)
    BY <1>2, <2>2, PhotoKeepsDraft DEF AddPhoto, SInv
  <2>3. CASE OpenMenu(r)
    BY <1>1, <2>3 DEF OpenMenu
  <2>4. CASE Correct(r)
    BY <1>2, <2>4, CorrectionKeepsDraft DEF Correct, SInv
  <2>5. CASE Confirm(r)
    <3>1. /\ quote' = NewQuote(draft, FALSE) /\ UNCHANGED draft
          /\ IncompleteGroups(draft) = {}
      BY <2>5 DEF Confirm, Reviewing
    <3>2. draft = [f \in Facts |-> draft[f]] /\ DraftFits(draft)
      BY DEF SInv, DraftFits
    <3>3. QuoteInv'
      BY <3>1, <3>2, NewQuoteIsOne
    <3> QED BY <3>1, <3>2, <3>3 DEF SInv
  <2> QED BY <1>5, <2>1, <2>2, <2>3, <2>4, <2>5 DEF Reply
<1>6. ASSUME NEW d \in WebsiteForms, SubmitOnWebsite(d) PROVE SInv'
  <2>1. /\ quote' = NewQuote(d, TRUE) /\ UNCHANGED draft
        /\ IncompleteGroups(d) = {}
    BY <1>6 DEF SubmitOnWebsite
  <2>2. QuoteInv'
    BY <2>1, FormsAreDrafts, NewQuoteIsOne
  <2> QED BY <2>1, <2>2 DEF SInv
<1>7. ASSUME NEW a \in AddOnServices, NEW s \in Scopes, ReviewPricing(a, s) PROVE SInv'
  <2>1. QuoteInv' /\ UNCHANGED draft
    BY <1>7, ReviewKeepsQuote DEF SInv, ReviewPricing
  <2> QED BY <2>1 DEF SInv
<1>8. CASE UNCHANGED vars
  BY <1>1, <1>8 DEF vars
<1> QED BY <1>3, <1>4, <1>5, <1>6, <1>7, <1>8 DEF Next

THEOREM Invariance ==
  Spec => []SInv
BY SInvInitially, SInvInductive, PTL DEF Spec

\* A draft that is not complete always has a question to ask
\* (handleGuidedCollection against messagingQuoteIncompleteFactGroups).
THEOREM AlwaysAQuestion ==
  Spec => []NeverStuck
<1>1. SInv => NeverStuck
  <2> SUFFICES ASSUME SInv, Collecting, NextQuestion(draft) = None PROVE FALSE
    BY DEF NeverStuck
  <2>1. NothingOpen(draft)
    BY NextIsOpen
  <2> QED BY <2>1, NothingOpenIsComplete DEF SInv, Collecting
<1> QED BY <1>1, Invariance, PTL

\* The facts of a conversation's Quote fit its own choices: correctionPatch clears what
\* the collectors made depend on them.
THEOREM FactsFit ==
  Spec => []FactsFitTheChoices
<1>1. SInv => FactsFitTheChoices
  <2> SUFFICES ASSUME SInv, quote # None, ~quote.structured PROVE FactsFitTheChoices
    BY DEF FactsFitTheChoices
  <2>1. PICK f : f = quote.facts /\ DraftFits(f)
    BY DEF SInv, QuoteInv
  <2>2. /\ f.propertyType # "APARTMENT" => f.exactFloor = None /\ f.buildingAccess = None
    BY <2>1 DEF DraftFits, HomeFits
  <2>3. f.primaryService # PostEvent => \A e \in EventFacts : f[e] = None
    BY <2>1 DEF DraftFits, EventIsAsked
  <2>4. f.frequency # "CUSTOM" => f.customFrequencyNote = None
    BY <2>1 DEF DraftFits, CleaningFits
  <2>5. /\ ~LaundryEligible(f.primaryService) => ~LaundrySupplied(f)
        /\ f.laundryLoads = None => f.facilities = None
    BY <2>1 DEF DraftFits, PersonaliseFits, LaundryIsEligible, LaundrySupplied, LaundryFacts
  <2>6. /\ f.keyHandover # "TO_BE_ARRANGED" => f.keyHandoverDetails = None
        /\ f.hasPets = FALSE => f.petType = None /\ f.petTemperament = None
    BY <2>1 DEF DraftFits, VisitFits
  <2> QED BY <2>1, <2>2, <2>3, <2>4, <2>5, <2>6 DEF FactsFitTheChoices
<1> QED BY <1>1, Invariance, PTL

-----------------------------------------------------------------------------
(* The price and its margin *)

\* A price whose costs are known keeps its margin (applyQuoteProfitabilityFloor), in the
\* first revision and in every one an Admin's review makes.
THEOREM MarginIsKept ==
  Spec => []MarginKept
<1>1. SInv => MarginKept
  <2> SUFFICES ASSUME SInv, quote # None, CostsReady(quote.facts) PROVE MarginKept
    BY DEF MarginKept
  <2>1. PICK f, structured, detail :
          /\ f = quote.facts /\ structured = quote.structured /\ detail = quote.scopes
          /\ structured \in BOOLEAN
          /\ IncompleteGroups(f) = {}
          /\ quote.pricing \in {SubmittedPricing(f, structured),
                                ReviewedPricing(f, structured, detail)}
    BY DEF SInv, QuoteInv
  <2>2. ValidProperty(f) /\ ValidRequest(f) /\ CostsReady(f)
    BY <2>1, ValidGroups
  <2>3. AddOnsReviewed(f, detail).amount \in Nat /\ AddOnsPriced(f).amount \in Nat
    BY <2>2, AddOnsArePriced
  <2>4. \E addOns : addOns.amount \in Nat /\ quote.pricing = Pricing(f, structured, addOns)
    BY <2>1, <2>3 DEF SubmittedPricing, ReviewedPricing
  <2>5. quote.pricing.total \in Nat /\ quote.pricing.total >= RequiredMinimum(f)
    BY <2>1, <2>2, <2>4, PriceCoversMinimum
  <2>6. PICK cost \in Nat, total \in Nat :
          cost = CostTotal(f) /\ total = quote.pricing.total
            /\ total >= cost + MinimumContribution(cost)
    BY <2>2, <2>5, CostIsCounted DEF RequiredMinimum
  <2>7. total - cost >= 10000 /\ 5 * (total - cost) >= total
    BY <2>6, ContributionKeepsMargin
  <2> QED BY <2>1, <2>6, <2>7 DEF MarginKept
<1> QED BY <1>1, Invariance, PTL

-----------------------------------------------------------------------------
(* A bigger home never costs less *)

\* The same request for the next floor size.
LEMMA BiggerIsSame ==
  ASSUME NEW d, d = [f \in Facts |-> d[f]], NEW size
  PROVE  LET e == [d EXCEPT !.floorSize = size] IN
         /\ e = [f \in Facts |-> e[f]]
         /\ e.floorSize = size
         /\ \A f \in Facts : f # "floorSize" => e[f] = d[f]
<1>1. "floorSize" \in Facts
  BY AllFacts DEF PropertyFacts
<1> QED BY <1>1

LEMMA BiggerIsValid ==
  ASSUME NEW d, ValidProperty(d), ValidRequest(d), NEW e, e.floorSize \in PropertyWords.floorSize,
         \A f \in Facts : f # "floorSize" => e[f] = d[f]
  PROVE  ValidProperty(e) /\ ValidRequest(e)
<1>1. \A f \in PropertyFacts : f # "floorSize" => e[f] = d[f]
  BY AllFacts
<1>2. /\ e.addressLine1 = d.addressLine1 /\ e.suburb = d.suburb /\ e.country = d.country
      /\ e.bedrooms = d.bedrooms /\ e.propertyType = d.propertyType
      /\ e.exactFloor = d.exactFloor /\ e.buildingAccess = d.buildingAccess
  BY <1>1 DEF PropertyFacts
<1>3. \A f \in DOMAIN PropertyWords : e[f] \in PropertyWords[f]
  <2>1. DOMAIN PropertyWords \subseteq PropertyFacts
    BY DEF PropertyWords, PropertyFacts
  <2> QED BY <1>1, <2>1 DEF ValidProperty
<1>4. ValidProperty(e)
  BY <1>2, <1>3 DEF ValidProperty
<1>5. /\ \A f \in CleaningFacts : e[f] = d[f]
      /\ \A f \in EventFacts : e[f] = d[f]
      /\ \A f \in PersonaliseFacts : e[f] = d[f]
  <2>1. "floorSize" \in PropertyFacts
    BY DEF PropertyFacts
  <2> QED BY <2>1, AllFacts, FactsApart
<1>6. /\ e.primaryService = d.primaryService /\ e.frequency = d.frequency
      /\ e.homeCondition = d.homeCondition /\ e.customFrequencyNote = d.customFrequencyNote
  BY <1>5 DEF CleaningFacts
<1>7. /\ e.ecoFriendlyProducts = d.ecoFriendlyProducts /\ e.addOns = d.addOns
      /\ e.facilities = d.facilities /\ e.laundryLoads = d.laundryLoads
      /\ e.ironingLoads = d.ironingLoads
  BY <1>5 DEF PersonaliseFacts, LaundryFacts
<1>8. ValidLaundry(e)
  <2>1. LaundrySupplied(e) <=> LaundrySupplied(d)
    BY <1>7 DEF LaundrySupplied, LaundryFacts
  <2>2. LaundryErrors(e) = LaundryErrors(d)
    BY <1>6, <1>7 DEF LaundryErrors
  <2> QED BY <1>7, <2>1, <2>2 DEF ValidRequest, ValidLaundry
<1>9. ValidEvent(d) => ValidEvent(e)
  <2>1. /\ e.eventType = d.eventType /\ e.venueType = d.venueType /\ e.guestBand = d.guestBand
        /\ e.dishwashing = d.dishwashing /\ e.wasteLevel = d.wasteLevel
        /\ e.eventBathrooms = d.eventBathrooms /\ e.outdoorAreas = d.outdoorAreas
        /\ \A f \in EventBooleans : e[f] = d[f]
    BY <1>5 DEF EventFacts
  <2> QED BY <1>6, <2>1 DEF ValidEvent
<1> QED BY <1>4, <1>5, <1>6, <1>7, <1>8, <1>9 DEF ValidRequest

\* The Service, the add-ons and the laundry are what they were.
LEMMA BiggerAsksTheSame ==
  ASSUME NEW d, NEW e, \A f \in Facts : f # "floorSize" => e[f] = d[f]
  PROVE  /\ e.primaryService = d.primaryService
         /\ e.addOns = d.addOns /\ e.facilities = d.facilities
         /\ e.laundryLoads = d.laundryLoads /\ e.ironingLoads = d.ironingLoads
<1>1. /\ \A f \in CleaningFacts : e[f] = d[f]
      /\ \A f \in PersonaliseFacts : e[f] = d[f]
  <2>1. "floorSize" \in PropertyFacts
    BY DEF PropertyFacts
  <2> QED BY <2>1, AllFacts, FactsApart
<1>2. e.primaryService = d.primaryService
  BY <1>1 DEF CleaningFacts
<1> QED BY <1>1, <1>2 DEF PersonaliseFacts, LaundryFacts

\* What the size of the home does not touch: the services, the rooms and the extras.
LEMMA BiggerPrice ==
  ASSUME NEW d, ValidProperty(d), ValidRequest(d), NEW e, ValidProperty(e), ValidRequest(e),
         \A f \in Facts : f # "floorSize" => e[f] = d[f],
         NEW i \in 1..8, d.floorSize = FloorSizes[i], e.floorSize = FloorSizes[i + 1],
         CostsReady(d), CostsReady(e)
  PROVE  /\ PrimaryPriced(d).amount =< PrimaryPriced(e).amount
         /\ CleanerHalfHours(d) =< CleanerHalfHours(e)
<1>1. e.primaryService = d.primaryService
  BY BiggerAsksTheSame
<1>2. /\ FloorIndex(d.floorSize) = i /\ FloorIndex(e.floorSize) = i + 1
      /\ d.floorSize # "UNKNOWN" /\ e.floorSize # "UNKNOWN"
  BY FloorPlaces
<1>3. CleanerHalfHours(d) # None /\ CleanerHalfHours(e) # None
  BY DEF CostsReady
<1>4. CASE d.primaryService = PostEvent
  <2>1. /\ EventReviews(d) = {} /\ CleanerHalfHours(d) = EventHalfHours(d)
        /\ EventReviews(e) = {} /\ CleanerHalfHours(e) = EventHalfHours(e)
    BY <1>1, <1>3, <1>4 DEF CleanerHalfHours, PostEvent, FloorServices, Room
  <2>2. i \in 1..7
    <3>1. i + 1 \in 1..9 /\ e.floorSize # "FROM_300_UP"
      BY <2>1 DEF EventReviews
    <3> QED BY <3>1, FloorPlaces
  <2>3. EventExtraHalfHours(e) = EventExtraHalfHours(d)
    <3>1. /\ e.guestBand = d.guestBand /\ e.eventBathrooms = d.eventBathrooms
          /\ e.kitchenSubstantiallyUsed = d.kitchenSubstantiallyUsed
          /\ e.dishwashing = d.dishwashing /\ e.outdoorAreas = d.outdoorAreas
          /\ e.wasteLevel = d.wasteLevel
          /\ e.significantOrdinarySoiling = d.significantOrdinarySoiling
      BY AllFacts DEF EventFacts, EventBooleans, RequestFacts
    <3> QED BY <3>1, Zenon DEF EventExtraHalfHours
  <2>4. PICK extra \in Nat : extra = EventExtraHalfHours(d)
    BY <1>4, ExtraIsCounted DEF ValidRequest
  <2>5. /\ CleanerHalfHours(d) = EventBase.halfHours[i] + extra
        /\ CleanerHalfHours(e) = EventBase.halfHours[i + 1] + extra
        /\ EventPrice(d) = EventBase.price[i] + 5000 * extra
        /\ EventPrice(e) = EventBase.price[i + 1] + 5000 * extra
    BY <1>2, <2>1, <2>3, <2>4 DEF EventHalfHours, EventPrice
  <2>6. PrimaryPriced(d).amount = EventPrice(d) /\ PrimaryPriced(e).amount = EventPrice(e)
    BY <1>1, <1>4, <2>1
    DEF PrimaryPriced, EventPriced, Priced, NotSure, PostEvent, FloorServices, Room
  <2>7. i \in 1..8 /\ i + 1 \in 1..8
    BY <2>2
  <2>8. /\ EventBase.price[i] \in Nat /\ EventBase.price[i + 1] \in Nat
        /\ EventBase.halfHours[i] \in Nat /\ EventBase.halfHours[i + 1] \in Nat
    BY <2>7, EventTables
  <2>9. /\ EventBase.price[i] =< EventBase.price[i + 1]
        /\ EventBase.halfHours[i] =< EventBase.halfHours[i + 1]
    BY <2>2, EventTables
  <2> QED BY <2>5, <2>6, <2>8, <2>9
<1>5. CASE d.primaryService \in FloorServices
  <2> DEFINE service == d.primaryService
  <2>1. /\ e.floorSize # "FROM_300_UP"
        /\ CleanerHalfHours(d) = FloorHalfHours(service)[i]
        /\ CleanerHalfHours(e) = FloorHalfHours(service)[i + 1]
    <3>1. service # PostEvent /\ service \notin DOMAIN Room
      BY <1>5 DEF PostEvent, FloorServices, Room
    <3>2. \A f : f.primaryService = service =>
            CleanerHalfHours(f) =
              IF f.floorSize \in {"UNKNOWN", "FROM_300_UP"} THEN None
              ELSE FloorHalfHours(service)[FloorIndex(f.floorSize)]
      BY <1>5, <3>1 DEF CleanerHalfHours
    <3> QED BY <1>1, <1>2, <1>3, <3>2
  <2>2. i \in 1..7
    <3>1. i + 1 \in 1..9
      OBVIOUS
    <3> QED BY <2>1, <3>1, FloorPlaces
  <2>3. PrimaryPriced(d) = FloorPriced(d) /\ PrimaryPriced(e) = FloorPriced(e)
    BY <1>1, <1>5 DEF PrimaryPriced, NotSure, PostEvent, FloorServices, Room
  <2>4. /\ PrimaryPriced(d).amount = FloorPrice(service)[i]
        /\ PrimaryPriced(e).amount = FloorPrice(service)[i + 1]
    BY <1>1, <1>2, <2>3 DEF FloorPriced, Priced
  <2> QED BY <1>5, <2>1, <2>2, <2>4, FloorTables
<1>6. CASE d.primaryService \in DOMAIN Room
  <2>1. Room[d.primaryService].of \in {"bathrooms", "bedrooms", "livingAreas"}
    BY <1>6 DEF Room
  <2>2. PICK rooms \in {"bathrooms", "bedrooms", "livingAreas"} : rooms = Room[d.primaryService].of
    BY <2>1
  <2>3. e[rooms] = d[rooms]
    BY AllFacts DEF PropertyFacts
  <2>4. /\ PrimaryPriced(d) = RoomPriced(d) /\ PrimaryPriced(e) = RoomPriced(e)
    BY <1>1, <1>6 DEF PrimaryPriced, NotSure, PostEvent, FloorServices, Room
  <2>5. PrimaryPriced(e) = PrimaryPriced(d)
    <3>1. RoomPriced(e) = RoomPriced(d)
      BY <1>1, <2>2, <2>3, Zenon DEF RoomPriced
    <3> QED BY <2>4, <3>1
  <2>6. CleanerHalfHours(e) = CleanerHalfHours(d)
    BY <1>1, <1>6, <2>2, <2>3 DEF CleanerHalfHours, PostEvent, FloorServices, Room
  <2>7. CleanerHalfHours(d) \in Nat /\ PrimaryPriced(d).amount \in Nat
    BY <1>3, HalfHoursCounted, PrimaryIsPriced
  <2> QED BY <2>5, <2>6, <2>7
<1> QED BY <1>3, <1>4, <1>5, <1>6 DEF CleanerHalfHours

\* The add-ons and the laundry cost the same in a home of any size.
LEMMA BiggerExtras ==
  ASSUME NEW d, NEW e, \A f \in Facts : f # "floorSize" => e[f] = d[f],
         NEW structured \in BOOLEAN, NEW detail
  PROVE  /\ AddOnsReviewed(e, detail) = AddOnsReviewed(d, detail)
         /\ LaundryPriced(e, structured) = LaundryPriced(d, structured)
<1>1. /\ e.primaryService = d.primaryService /\ e.addOns = d.addOns
      /\ e.facilities = d.facilities /\ e.laundryLoads = d.laundryLoads
      /\ e.ironingLoads = d.ironingLoads
  BY BiggerAsksTheSame
<1>2. AddOnsReviewed(e, detail) = AddOnsReviewed(d, detail)
  BY <1>1 DEF AddOnsReviewed
<1>3. LaundrySupplied(e) <=> LaundrySupplied(d)
  BY <1>1 DEF LaundrySupplied, LaundryFacts
<1>4. LaundryErrors(e) = LaundryErrors(d)
  BY <1>1 DEF LaundryErrors
<1> QED BY <1>1, <1>2, <1>3, <1>4 DEF LaundryPriced

\* The same request for a home of the next floor size never costs less: prices and
\* cleaner-hours of every Service grow with the home (resolveLaunchQuotePricing and
\* resolveApprovedCleanerHours), and the floor under the price grows with the hours.
THEOREM BiggerCostsNoLess ==
  Spec => []BiggerNeverCheaper
<1>1. SInv => BiggerNeverCheaper
  <2> DEFINE bigger == [quote.facts EXCEPT !.floorSize = FloorSizes[FloorIndex(quote.facts.floorSize) + 1]]
  <2> SUFFICES ASSUME SInv, quote # None,
                      quote.facts.floorSize \in ToSet(FloorSizes) \ {"FROM_300_UP"},
                      CostsReady(quote.facts), CostsReady(bigger)
               PROVE  ReviewedPricing(quote.facts, quote.structured, quote.scopes).total
                        =< ReviewedPricing(bigger, quote.structured, quote.scopes).total
    BY DEF BiggerNeverCheaper
  <2>1. PICK d, structured, detail :
          /\ d = quote.facts /\ structured = quote.structured /\ detail = quote.scopes
          /\ structured \in BOOLEAN
          /\ d = [f \in Facts |-> d[f]]
          /\ IncompleteGroups(d) = {}
    BY DEF SInv, QuoteInv
  <2>2. PICK i \in 1..8 : d.floorSize = FloorSizes[i] /\ FloorIndex(d.floorSize) = i
    <3>1. PICK i \in 1..9 : d.floorSize = FloorSizes[i]
      BY <2>1, FloorPlaces DEF ToSet
    <3> QED BY <2>1, <3>1, FloorPlaces
  <2>3. PICK e : e = bigger
    OBVIOUS
  <2>4. /\ e.floorSize = FloorSizes[i + 1]
        /\ \A f \in Facts : f # "floorSize" => e[f] = d[f]
    <3>1. e = [d EXCEPT !.floorSize = FloorSizes[i + 1]]
      BY <2>1, <2>2, <2>3
    <3> HIDE DEF bigger
    <3> QED BY <2>1, <3>1, BiggerIsSame
  <2> HIDE DEF bigger
  <2>5. CostsReady(d) /\ CostsReady(e)
    BY <2>1, <2>3
  <2>6. ValidProperty(d) /\ ValidRequest(d)
    BY <2>1, ValidGroups
  <2>7. ValidProperty(e) /\ ValidRequest(e)
    <3>1. FloorSizes[i + 1] \in PropertyWords.floorSize
      BY DEF FloorSizes, PropertyWords
    <3> QED BY <2>4, <2>6, <3>1, BiggerIsValid
  <2>8. /\ PrimaryPriced(d).amount =< PrimaryPriced(e).amount
        /\ CleanerHalfHours(d) =< CleanerHalfHours(e)
    BY <2>2, <2>4, <2>5, <2>6, <2>7, BiggerPrice
  <2>9. /\ AddOnsReviewed(e, detail) = AddOnsReviewed(d, detail)
        /\ LaundryPriced(e, structured) = LaundryPriced(d, structured)
    BY <2>1, <2>4, BiggerExtras
  <2>10. /\ CleanerHalfHours(d) \in Nat /\ CleanerHalfHours(e) \in Nat
         /\ d.primaryService = e.primaryService
    <3>1. d.primaryService = e.primaryService
      BY <2>4, BiggerAsksTheSame
    <3> QED BY <2>5, <2>6, <2>7, <3>1, HalfHoursCounted DEF CostsReady
  <2>11. PICK cost \in Nat, more \in Nat :
           cost = CostTotal(d) /\ more = CostTotal(e) /\ cost =< more
    BY <2>5, <2>8, <2>10, CostKeepsOrder
  <2>12. PICK least \in Nat, most \in Nat :
           least = RequiredMinimum(d) /\ most = RequiredMinimum(e) /\ least =< most
    <3>1. PICK c \in Nat, m \in Nat :
            c = MinimumContribution(cost) /\ m = MinimumContribution(more) /\ c =< m
      BY <2>11, ContributionKeepsOrder
    <3>2. RequiredMinimum(d) = cost + c /\ RequiredMinimum(e) = more + m
      BY <2>11, <3>1 DEF RequiredMinimum
    <3> QED BY <2>11, <3>1, <3>2
  <2>13. PICK low \in Nat, high \in Nat :
           /\ low = PrimaryPriced(d).amount + AddOnsReviewed(d, detail).amount
                      + LaundryPriced(d, structured).amount
           /\ high = PrimaryPriced(e).amount + AddOnsReviewed(e, detail).amount
                       + LaundryPriced(e, structured).amount
           /\ low =< high
    <3>1. PICK p \in Nat, b \in Nat :
            p = PrimaryPriced(d).amount /\ b = PrimaryPriced(e).amount /\ p =< b
      BY <2>6, <2>7, <2>8, PrimaryIsPriced
    <3>2. PICK a \in Nat, l \in Nat :
            a = AddOnsReviewed(d, detail).amount /\ l = LaundryPriced(d, structured).amount
      BY <2>1, <2>6, AddOnsArePriced, LaundryIsPriced
    <3>3. /\ p + a + l \in Nat /\ b + a + l \in Nat /\ p + a + l =< b + a + l
      BY <3>1, <3>2
    <3> QED BY <2>9, <3>1, <3>2, <3>3
  <2>14. /\ ReviewedPricing(d, structured, detail).total = Floored(low, least)
         /\ ReviewedPricing(e, structured, detail).total = Floored(high, most)
    BY <2>5, <2>12, <2>13 DEF ReviewedPricing, Pricing
  <2>15. Floored(low, least) =< Floored(high, most)
    BY <2>12, <2>13, FlooredKeepsOrder
  <2> QED BY <2>1, <2>3, <2>14, <2>15
<1> QED BY <1>1, Invariance, PTL


-----------------------------------------------------------------------------
(* Every answer brings the summary nearer *)

\* What is still to be said: the facts not given, and what is chosen but not counted.
\* (Images come by themselves, and no question waits for them.)
Missing(d) == {f \in Facts \ {"media"} : d[f] = None}

ToCount(d) ==
  {s \in QuantityAddOns : d.addOns # None /\ s \in DOMAIN d.addOns /\ Uncounted(d.addOns[s])}
    \cup {f \in {"laundryLoads", "ironingLoads"} : d[f] # None /\ Uncounted(d[f])}

\* e has less to be said than d: fewer facts are missing, or as many and fewer counts.
\* Both sets are finite, so that no draft is followed by ever nearer ones without end.
Nearer(e, d) ==
  \/ Missing(e) \subseteq Missing(d) /\ Missing(e) # Missing(d)
  \/ /\ Missing(e) = Missing(d)
     /\ ToCount(e) \subseteq ToCount(d) /\ ToCount(e) # ToCount(d)

AsNear(e, d) == Missing(e) = Missing(d) /\ ToCount(e) = ToCount(d)

LEMMA FactIsNearer ==
  ASSUME NEW d, d = [f \in Facts |-> d[f]], NEW f \in Facts, f # "media", d[f] = None,
         NEW v, v # None
  PROVE  Nearer(Patched(Fact(f, v), d), d)
<1> DEFINE e == Patched(Fact(f, v), d)
<1>1. e[f] = v /\ \A g \in Facts : g # f => e[g] = d[g]
  BY PatchedByOne
<1> HIDE DEF e
<1>2. Missing(e) \subseteq Missing(d) /\ f \in Missing(d) /\ f \notin Missing(e)
  BY <1>1 DEF Missing
<1> QED BY <1>2 DEF Nearer, e

\* An add-on or a load that is counted.
LEMMA CountIsNearer ==
  ASSUME NEW d, DraftFits(d), NEW q \in DOMAIN PersonaliseFact, PersonaliseOpen(d, q),
         q \notin {"ADD_ONS", "ECO_FRIENDLY_PRODUCTS", "LAUNDRY_FACILITIES"},
         NEW r, PersonaliseAnswer(d, q, r) # None
  PROVE  Nearer(Patched(Fact(PersonaliseFact[q], PersonaliseAnswer(d, q, r)), d), d)
<1> DEFINE f == PersonaliseFact[q]
           v == PersonaliseAnswer(d, q, r)
           e == Patched(Fact(f, v), d)
<1>1. f \in {"addOns", "laundryLoads", "ironingLoads"} /\ d[f] # None
  BY DEF PersonaliseFact, PersonaliseOpen, PersonaliseApplies
<1>2. {"addOns", "laundryLoads", "ironingLoads"} \subseteq Facts
  BY AllFacts DEF PersonaliseFacts, LaundryFacts
<1>3. e[f] = v /\ \A g \in Facts : g # f => e[g] = d[g]
  BY <1>1, <1>2, PatchedByOne DEF DraftFits
<1>4. Whole(r, 1..MaxQuantity) \in 1..MaxQuantity
  <2>1. Whole(r, 1..MaxQuantity) # None
    BY DEF PersonaliseAnswer, PersonaliseFact
  <2> QED BY <2>1, RepliesRead
<1> HIDE DEF e
<1>5. Missing(e) = Missing(d)
  BY <1>1, <1>3 DEF Missing
<1>6. CASE q \in {"EXTRA_REFRIGERATOR_QUANTITY", "BALCONY_PATIO_QUANTITY"}
  <2>1. f = "addOns" /\ AddOnOf(q) \in QuantityAddOns
    BY <1>6 DEF PersonaliseFact, AddOnOf, QuantityAddOns
  <2>2. /\ AddOnOf(q) \in DOMAIN d.addOns /\ Uncounted(d.addOns[AddOnOf(q)])
        /\ v = [d.addOns EXCEPT ![AddOnOf(q)] = Whole(r, 1..MaxQuantity)]
    BY <1>6, <1>4 DEF PersonaliseOpen, PersonaliseApplies, PersonaliseUnanswered, PersonaliseAnswer
  <2>3. /\ e.addOns = v /\ e.laundryLoads = d.laundryLoads /\ e.ironingLoads = d.ironingLoads
        /\ DOMAIN v = DOMAIN d.addOns /\ v[AddOnOf(q)] = Whole(r, 1..MaxQuantity)
        /\ \A s \in DOMAIN v : s # AddOnOf(q) => v[s] = d.addOns[s]
    BY <1>2, <1>3, <2>1, <2>2
  <2>4. ~Uncounted(v[AddOnOf(q)])
    BY <1>4, <2>3 DEF Uncounted, MaxQuantity
  <2> HIDE DEF v
  <2>5. ToCount(e) \subseteq ToCount(d)
    BY <1>1, <2>1, <2>3, <2>4 DEF ToCount
  <2>6. AddOnOf(q) \in ToCount(d) /\ AddOnOf(q) \notin ToCount(e)
    <3>1. AddOnOf(q) \notin {"laundryLoads", "ironingLoads"}
      BY <2>1 DEF QuantityAddOns
    <3> QED BY <1>1, <2>1, <2>2, <2>3, <2>4, <3>1 DEF ToCount
  <2> QED BY <1>5, <2>5, <2>6 DEF Nearer, e, v
<1>7. CASE q \in {"LAUNDRY_LOADS", "IRONING_LOADS"}
  <2>1. /\ f \in {"laundryLoads", "ironingLoads"} /\ v = Whole(r, 1..MaxQuantity)
        /\ Uncounted(d[f])
    BY <1>7 DEF PersonaliseFact, PersonaliseAnswer, PersonaliseOpen, PersonaliseUnanswered
  <2>2. ~Uncounted(v)
    BY <1>4, <2>1 DEF Uncounted, MaxQuantity
  <2> HIDE DEF v, f
  <2>3. e.addOns = d.addOns /\ \A g \in {"laundryLoads", "ironingLoads"} : g # f => e[g] = d[g]
    BY <1>2, <1>3, <2>1
  <2>4. ToCount(e) \subseteq ToCount(d)
    BY <1>3, <2>2, <2>3 DEF ToCount
  <2>5. f \in ToCount(d) /\ f \notin ToCount(e)
    BY <1>1, <1>3, <2>1, <2>2 DEF ToCount, QuantityAddOns
  <2> QED BY <1>5, <2>4, <2>5 DEF Nearer, e, v, f
<1> QED BY <1>6, <1>7 DEF PersonaliseFact, e

LEMMA AddOnsAreNearer ==
  ASSUME NEW d, DraftFits(d), d.addOns = None, NEW r, AddOnsPatch(d, r) # None
  PROVE  Nearer(Patched(AddOnsPatch(d, r), d), d)
<1>1. PICK patch : patch = AddOnsPatch(d, r)
  OBVIOUS
<1>2. /\ DOMAIN patch \subseteq {"addOns", "laundryLoads", "ironingLoads"}
      /\ "addOns" \in DOMAIN patch /\ AddOnsFit(patch.addOns)
      /\ \A f \in DOMAIN patch \ {"addOns"} : patch[f] = 0
  BY <1>1, AddOnsChosen
<1>3. \A f \in DOMAIN patch : patch[f] # None
  <2>1. patch.addOns # None
    <3>1. PICK addOns : addOns = patch.addOns
      OBVIOUS
    <3>2. addOns \in [DOMAIN addOns -> Nat] /\ DOMAIN addOns \in SUBSET AddOnServices
      BY <1>2, <3>1 DEF AddOnsFit
    <3> QED BY <3>1, <3>2, NoneIsNoAddOns
  <2> QED BY <1>2, <2>1, NoneIsNoFact
<1>4. {"addOns", "laundryLoads", "ironingLoads"} \subseteq Facts
  BY AllFacts DEF PersonaliseFacts, LaundryFacts
<1> DEFINE e == Patched(patch, d)
<1>5. \A g \in Facts : e[g] = IF g \in DOMAIN patch THEN patch[g] ELSE d[g]
  BY DEF Patched, DraftFits
<1> HIDE DEF e
<1>6. Missing(e) \subseteq Missing(d) /\ "addOns" \in Missing(d) /\ "addOns" \notin Missing(e)
  BY <1>2, <1>3, <1>4, <1>5 DEF Missing
<1> QED BY <1>1, <1>6 DEF Nearer, e

LEMMA AnswerIsNearer ==
  ASSUME NEW d, DraftFits(d), NEW q, AskedNext(d, q), NEW r, AnswerPatch(d, q, r) # None
  PROVE  Nearer(Patched(AnswerPatch(d, q, r), d), d)
<1>0. d = [f \in Facts |-> d[f]]
  BY DEF DraftFits
<1>1. ASSUME NEW f \in Facts, f # "media", d[f] = None, NEW v, v # None,
             AnswerPatch(d, q, r) = Fact(f, v)
      PROVE  Nearer(Patched(AnswerPatch(d, q, r), d), d)
  BY <1>0, <1>1, FactIsNearer
<1>2. \A f \in PropertyFacts \cup CleaningFacts \cup EventFacts \cup PersonaliseFacts
               \cup VisitFacts \cup FinalFacts : f \in Facts /\ f # "media"
  BY AllFacts, FactsApart
<1>3. CASE q \in DOMAIN HomeFact /\ HomeOpen(d, q)
  <2>1. HomeFact[q] \in PropertyFacts
    BY <1>3 DEF HomeFact, PropertyFacts
  <2>2. d[HomeFact[q]] = None
    BY <1>3 DEF HomeOpen
  <2> QED BY <1>1, <1>2, <1>3, <2>1, <2>2, NotAddOns
<1>4. CASE q \in DOMAIN CleaningFact /\ CleaningOpen(d, q)
  <2>1. CleaningFact[q] \in CleaningFacts
    BY <1>4 DEF CleaningFact, CleaningFacts
  <2>2. d[CleaningFact[q]] = None
    BY <1>4 DEF CleaningOpen
  <2> QED BY <1>1, <1>2, <1>4, <2>1, <2>2, NotAddOns
<1>5. CASE q \in DOMAIN EventFact /\ EventOpen(d, q)
  <2>1. EventFact[q] \in EventFacts
    BY <1>5 DEF EventFact, EventFacts, EventBooleans
  <2>2. d[EventFact[q]] = None
    BY <1>5 DEF EventOpen
  <2> QED BY <1>1, <1>2, <1>5, <2>1, <2>2, NotAddOns
<1>6. CASE q \in DOMAIN VisitFact /\ VisitOpen(d, q)
  <2>1. VisitFact[q] \in VisitFacts
    BY <1>6 DEF VisitFact, VisitFacts, FactsOf
  <2>2. d[VisitFact[q]] = None
    BY <1>6 DEF VisitOpen
  <2> QED BY <1>1, <1>2, <1>6, <2>1, <2>2, NotAddOns
<1>7. CASE q \in DOMAIN FinalFact /\ FinalOpen(d, q)
  <2>1. FinalFact[q] \in FinalFacts
    BY <1>7 DEF FinalFact, FinalFacts, FactsOf, SafetyFacts, NotesFacts
  <2>2. d[FinalFact[q]] = None
    BY <1>7 DEF FinalOpen
  <2> QED BY <1>1, <1>2, <1>7, <2>1, <2>2, NotAddOns
<1>8. CASE q \in DOMAIN PersonaliseFact /\ PersonaliseOpen(d, q)
  <2>1. CASE q = "ADD_ONS"
    <3>1. d.addOns = None
      BY <1>8, <2>1 DEF PersonaliseOpen, PersonaliseUnanswered, PersonaliseFact
    <3> QED BY <1>8, <2>1, <3>1, NotAddOns, AddOnsAreNearer
  <2>2. CASE q \in {"ECO_FRIENDLY_PRODUCTS", "LAUNDRY_FACILITIES"}
    <3>1. PersonaliseFact[q] \in PersonaliseFacts /\ d[PersonaliseFact[q]] = None
      BY <2>2, <1>8 DEF PersonaliseFact, PersonaliseFacts, LaundryFacts, PersonaliseOpen,
         PersonaliseUnanswered
    <3> QED BY <1>1, <1>2, <1>8, <2>2, <3>1, NotAddOns
  <2>3. CASE q \notin {"ADD_ONS", "ECO_FRIENDLY_PRODUCTS", "LAUNDRY_FACILITIES"}
    BY <1>8, <2>3, NotAddOns, CountIsNearer
  <2> QED BY <2>1, <2>2, <2>3
<1> QED BY <1>3, <1>4, <1>5, <1>6, <1>7, <1>8 DEF AskedNext

\* An accepted answer leaves less to be said than there was, and nothing but a correction
\* takes back what was said: no answer makes the collectors ask again for what an earlier
\* one has given, and between two corrections only so many answers can be asked for
\* (the collectors behind handleGuidedCollection).
THEOREM EveryAnswerCounts ==
  Spec => [][/\ (\E r \in Replies : AnswerQuestion(r)) => Nearer(draft', draft)
             /\ \/ \E r \in Replies : Correct(r)
                \/ Nearer(draft', draft) \/ AsNear(draft', draft)]_vars
<1> DEFINE Step ==
      /\ (\E r \in Replies : AnswerQuestion(r)) => Nearer(draft', draft)
      /\ \/ \E r \in Replies : Correct(r)
         \/ Nearer(draft', draft) \/ AsNear(draft', draft)
<1>1. ASSUME SInv, NEW r \in Replies, AnswerQuestion(r)
      PROVE  Nearer(draft', draft)
  <2>1. PICK q : q = NextQuestion(draft)
    OBVIOUS
  <2>2. /\ q # None /\ AnswerPatch(draft, q, r) # None
        /\ draft' = Patched(AnswerPatch(draft, q, r), draft)
    BY <1>1, <2>1 DEF AnswerQuestion
  <2>3. AskedNext(draft, q)
    BY <2>1, <2>2, NextIsOpen
  <2> QED BY <1>1, <2>2, <2>3, AnswerIsNearer DEF SInv
<1>2. ASSUME SInv, NEW r \in Replies, AddPhoto(r)
      PROVE  AsNear(draft', draft)
  <2>1. draft = [f \in Facts |-> draft[f]] /\ draft' = [draft EXCEPT !.media = "IMAGES"]
    BY <1>2 DEF AddPhoto, SInv, DraftFits
  <2>2. \A f \in Facts : f # "media" => draft'[f] = draft[f]
    BY <2>1
  <2>3. {"addOns", "laundryLoads", "ironingLoads"} \subseteq Facts
    BY AllFacts DEF PersonaliseFacts, LaundryFacts
  <2>4. /\ draft'.addOns = draft.addOns /\ draft'.laundryLoads = draft.laundryLoads
        /\ draft'.ironingLoads = draft.ironingLoads
    BY <2>2, <2>3
  <2>5. Missing(draft') = Missing(draft)
    BY <2>2 DEF Missing
  <2>6. ToCount(draft') = ToCount(draft)
    BY <2>4 DEF ToCount
  <2> QED BY <2>5, <2>6 DEF AsNear
<1>3. ASSUME UNCHANGED draft
      PROVE  AsNear(draft', draft)
  BY <1>3 DEF AsNear
<1>4. ASSUME SInv, [Next]_vars
      PROVE  Step
  <2>1. ASSUME NEW r \in Replies, Reply(r)
        PROVE  Correct(r) \/ Nearer(draft', draft) \/ AsNear(draft', draft)
    <3>1. OpenMenu(r) \/ Confirm(r) => UNCHANGED draft
      BY DEF OpenMenu, Confirm
    <3> QED BY <1>1, <1>2, <1>3, <1>4, <2>1, <3>1 DEF Reply
  <2>2. AskQuestion \/ PresentSummary => UNCHANGED draft
    BY DEF AskQuestion, PresentSummary
  <2>3. \A d \in WebsiteForms : SubmitOnWebsite(d) => UNCHANGED draft
    BY DEF SubmitOnWebsite
  <2>4. \A a \in AddOnServices, s \in Scopes : ReviewPricing(a, s) => UNCHANGED draft
    BY DEF ReviewPricing
  <2>5. UNCHANGED vars => UNCHANGED draft
    BY DEF vars
  <2>6. \/ \E r \in Replies : Correct(r)
        \/ Nearer(draft', draft) \/ AsNear(draft', draft)
    BY <1>3, <1>4, <2>1, <2>2, <2>3, <2>4, <2>5 DEF Next
  <2> QED BY <1>1, <1>4, <2>6
<1>5. SInv /\ [Next]_vars => [Step]_vars
  BY <1>4
<1> QED BY <1>5, Invariance, PTL DEF Spec


-----------------------------------------------------------------------------
(* Types *)

LEMMA JoinedNames ==
  ASSUME NEW S, NEW s \in Seq(S), NEW t \in Seq(S)
  PROVE  /\ s \o t \in Seq(S)
         /\ ToSet(s) \cup ToSet(t) \subseteq ToSet(s \o t)
<1>1. s \o t \in Seq(S) /\ DOMAIN s = 1..Len(s) /\ DOMAIN t = 1..Len(t)
      /\ Len(s) \in Nat /\ Len(t) \in Nat /\ Len(s \o t) = Len(s) + Len(t)
      /\ DOMAIN (s \o t) = 1..Len(s \o t)
  OBVIOUS
<1>2. \A i \in DOMAIN s : i \in DOMAIN (s \o t) /\ (s \o t)[i] = s[i]
  BY <1>1
<1>3. \A i \in DOMAIN t : i + Len(s) \in DOMAIN (s \o t) /\ (s \o t)[i + Len(s)] = t[i]
  BY <1>1
<1>4. ToSet(s) \subseteq ToSet(s \o t)
  BY <1>2 DEF ToSet
<1>5. ToSet(t) \subseteq ToSet(s \o t)
  BY <1>3 DEF ToSet
<1> QED BY <1>1, <1>4, <1>5

\* Every question of every collector has its place in the order.
LEMMA EveryQuestion ==
  /\ DOMAIN HomeFact \subseteq Questions /\ DOMAIN CleaningFact \subseteq Questions
  /\ DOMAIN EventFact \subseteq Questions /\ DOMAIN PersonaliseFact \subseteq Questions
  /\ DOMAIN VisitFact \subseteq Questions /\ DOMAIN FinalFact \subseteq Questions
<1> DEFINE names == DOMAIN HomeFact \cup DOMAIN CleaningFact \cup DOMAIN EventFact
                    \cup DOMAIN PersonaliseFact \cup DOMAIN VisitFact \cup DOMAIN FinalFact
           two   == HomeQuestions \o CleaningQuestions
           three == two \o EventQuestions
           four  == three \o PersonaliseQuestions
           five  == four \o VisitQuestions
<1>1. HomeQuestions \in Seq(DOMAIN HomeFact)
  BY DEF HomeQuestions, HomeFact
<1>2. CleaningQuestions \in Seq(DOMAIN CleaningFact)
  BY DEF CleaningQuestions, CleaningFact
<1>3. EventQuestions \in Seq(DOMAIN EventFact)
  BY DEF EventQuestions, EventFact
<1>4. PersonaliseQuestions \in Seq(DOMAIN PersonaliseFact)
  BY DEF PersonaliseQuestions, PersonaliseFact
<1>5. VisitQuestions \in Seq(DOMAIN VisitFact)
  BY DEF VisitQuestions, VisitFact
<1>6. FinalQuestions \in Seq(DOMAIN FinalFact)
  BY DEF FinalQuestions, FinalFact
<1>7. /\ HomeQuestions \in Seq(names) /\ CleaningQuestions \in Seq(names)
      /\ EventQuestions \in Seq(names) /\ PersonaliseQuestions \in Seq(names)
      /\ VisitQuestions \in Seq(names) /\ FinalQuestions \in Seq(names)
  BY <1>1, <1>2, <1>3, <1>4, <1>5, <1>6
<1>8. /\ DOMAIN HomeFact \subseteq ToSet(HomeQuestions)
      /\ DOMAIN CleaningFact \subseteq ToSet(CleaningQuestions)
      /\ DOMAIN EventFact \subseteq ToSet(EventQuestions)
      /\ DOMAIN PersonaliseFact \subseteq ToSet(PersonaliseQuestions)
      /\ DOMAIN VisitFact \subseteq ToSet(VisitQuestions)
      /\ DOMAIN FinalFact \subseteq ToSet(FinalQuestions)
  <2>1. DOMAIN HomeFact \subseteq ToSet(HomeQuestions)
    BY HomeOrder DEF ToSet
  <2>2. DOMAIN CleaningFact \subseteq ToSet(CleaningQuestions)
    BY CleaningOrder DEF ToSet
  <2>3. DOMAIN EventFact \subseteq ToSet(EventQuestions)
    BY EventOrder DEF ToSet
  <2>4. DOMAIN PersonaliseFact \subseteq ToSet(PersonaliseQuestions)
    BY PersonaliseOrder DEF ToSet
  <2>5. DOMAIN VisitFact \subseteq ToSet(VisitQuestions)
    BY VisitOrder DEF ToSet
  <2>6. DOMAIN FinalFact \subseteq ToSet(FinalQuestions)
    BY FinalOrder DEF ToSet
  <2> QED BY <2>1, <2>2, <2>3, <2>4, <2>5, <2>6
<1> HIDE DEF names
<1>9. two \in Seq(names) /\ ToSet(HomeQuestions) \cup ToSet(CleaningQuestions) \subseteq ToSet(two)
  BY <1>7, JoinedNames
<1> HIDE DEF two
<1>10. three \in Seq(names) /\ ToSet(two) \cup ToSet(EventQuestions) \subseteq ToSet(three)
  BY <1>7, <1>9, JoinedNames
<1> HIDE DEF three
<1>11. four \in Seq(names) /\ ToSet(three) \cup ToSet(PersonaliseQuestions) \subseteq ToSet(four)
  BY <1>7, <1>10, JoinedNames
<1> HIDE DEF four
<1>12. five \in Seq(names) /\ ToSet(four) \cup ToSet(VisitQuestions) \subseteq ToSet(five)
  BY <1>7, <1>11, JoinedNames
<1> HIDE DEF five
<1>13. ToSet(five) \cup ToSet(FinalQuestions) \subseteq ToSet(five \o FinalQuestions)
  BY <1>7, <1>12, JoinedNames
<1>14. AskingOrder = five \o FinalQuestions
  BY DEF AskingOrder, five, four, three, two
<1>15. Questions = ToSet(AskingOrder)
  BY DEF Questions, ToSet
<1> QED BY <1>8, <1>9, <1>10, <1>11, <1>12, <1>13, <1>14, <1>15

LEMMA NextIsAQuestion ==
  ASSUME NEW d
  PROVE  /\ NextHome(d) \in Questions \cup {None}
         /\ NextEvent(d) \in Questions \cup {None}
         /\ NextCleaning(d) \in Questions \cup {None}
         /\ NextQuestion(d) \in Questions \cup {None}
<1>1. NextHome(d) \in DOMAIN HomeFact \cup {None}
  BY HomeAsks DEF NextHome, First, HomeOpen
<1>2. NextFinal(d) \in DOMAIN FinalFact \cup {None}
  BY FinalAsks DEF NextFinal, First, FinalOpen
<1>3. NextEvent(d) \in DOMAIN EventFact \cup {None}
  BY EventAsks DEF NextEvent, First, EventOpen
<1>4. PICK v \in DOMAIN VisitFact \cup {None} :
        NextVisit(d) = IF v # None THEN v ELSE NextFinal(d)
  BY VisitAsks DEF NextVisit, First, VisitOpen
<1>5. PICK p \in DOMAIN PersonaliseFact \cup {None} :
        NextPersonalise(d) = IF p # None THEN p ELSE NextVisit(d)
  BY PersonaliseAsks DEF NextPersonalise, First, PersonaliseOpen
<1>6. PICK c \in DOMAIN CleaningFact \cup {None} :
        NextCleaning(d) = IF c # None THEN c
                          ELSE IF NextEvent(d) # None THEN None ELSE NextPersonalise(d)
  BY CleaningAsks DEF NextCleaning, First, CleaningOpen
<1>7. NextCleaning(d) \in Questions \cup {None}
  BY <1>2, <1>4, <1>5, <1>6, EveryQuestion
<1> QED BY <1>1, <1>3, <1>7, EveryQuestion DEF NextQuestion

LEMMA AskedIsAQuestion ==
  SInv /\ asked \in Questions \cup {"MENU", None} /\ [Next]_vars
    => asked' \in Questions \cup {"MENU", None}
<1> SUFFICES ASSUME SInv, asked \in Questions \cup {"MENU", None}, [Next]_vars
             PROVE  asked' \in Questions \cup {"MENU", None}
  OBVIOUS
<1>1. ASSUME NEW d, Prompt(NextQuestion(d)) PROVE asked' \in Questions \cup {"MENU", None}
  BY <1>1, NextIsAQuestion DEF Prompt
<1>2. CASE AskQuestion
  BY <1>1, <1>2 DEF AskQuestion
<1>3. CASE PresentSummary
  BY <1>3 DEF PresentSummary
<1>4. ASSUME NEW r \in Replies, Reply(r) PROVE asked' \in Questions \cup {"MENU", None}
  <2>1. CASE AnswerQuestion(r)
    <3>1. PICK q, d : Prompt(Following(q, d))
      BY <2>1, Zenon DEF AnswerQuestion
    <3>2. Following(q, d) \in Questions \cup {None}
      BY NextIsAQuestion DEF Following
    <3> QED BY <3>1, <3>2 DEF Prompt
  <2>2. CASE AddPhoto(r)
    <3>1. "PHOTOS" \in Questions
      BY EveryQuestion DEF FinalFact
    <3> QED BY <2>2, <3>1 DEF AddPhoto, Prompt
  <2>3. CASE OpenMenu(r)
    BY <2>3 DEF OpenMenu
  <2>4. CASE Correct(r)
    BY <1>1, <2>4 DEF Correct
  <2>5. CASE Confirm(r)
    BY <2>5 DEF Confirm
  <2> QED BY <1>4, <2>1, <2>2, <2>3, <2>4, <2>5 DEF Reply
<1>5. ASSUME NEW d \in WebsiteForms, SubmitOnWebsite(d) PROVE asked' \in Questions \cup {"MENU", None}
  BY <1>5 DEF SubmitOnWebsite
<1>6. ASSUME NEW a \in AddOnServices, NEW s \in Scopes, ReviewPricing(a, s)
      PROVE  asked' \in Questions \cup {"MENU", None}
  BY <1>6 DEF ReviewPricing
<1>7. CASE UNCHANGED vars
  BY <1>7 DEF vars
<1> QED BY <1>2, <1>3, <1>4, <1>5, <1>6, <1>7 DEF Next

LEMMA SummaryIsAFlag ==
  summary \in BOOLEAN /\ [Next]_vars => summary' \in BOOLEAN
BY DEF Next, Reply, AskQuestion, PresentSummary, AnswerQuestion, AddPhoto, OpenMenu, Correct,
       Confirm, SubmitOnWebsite, ReviewPricing, vars

LEMMA QuoteIsTyped ==
  SInv /\ quote # None => /\ quote.pricing.total \in Nat /\ quote.structured \in BOOLEAN
                          /\ DOMAIN quote.scopes \subseteq AddOnServices
<1> SUFFICES ASSUME SInv, quote # None PROVE quote.pricing.total \in Nat
  BY DEF SInv, QuoteInv
<1>1. PICK f, structured, detail :
        /\ f = quote.facts /\ structured = quote.structured /\ detail = quote.scopes
        /\ structured \in BOOLEAN
        /\ IncompleteGroups(f) = {}
        /\ quote.pricing \in {SubmittedPricing(f, structured),
                              ReviewedPricing(f, structured, detail)}
  BY DEF SInv, QuoteInv
<1>2. ValidProperty(f) /\ ValidRequest(f)
  BY <1>1, ValidGroups
<1>3. AddOnsReviewed(f, detail).amount \in Nat /\ AddOnsPriced(f).amount \in Nat
  BY <1>2, AddOnsArePriced
<1>4. \E addOns : addOns.amount \in Nat /\ quote.pricing = Pricing(f, structured, addOns)
  BY <1>1, <1>3 DEF SubmittedPricing, ReviewedPricing
<1> QED BY <1>1, <1>2, <1>4, PriceCoversMinimum

\* The types of the conversation's rows hold; every price is a whole, nonnegative amount.
THEOREM QuestionnaireTyped ==
  Spec => []TypeOK
<1> DEFINE Typed == SInv /\ asked \in Questions \cup {"MENU", None} /\ summary \in BOOLEAN
<1>1. Init => Typed
  BY SInvInitially DEF Init
<1>2. Typed /\ [Next]_vars => Typed'
  BY SInvInductive, AskedIsAQuestion, SummaryIsAFlag
<1>3. Typed => TypeOK
  <2>1. SInv => DOMAIN draft = Facts
    BY DEF SInv, DraftFits
  <2> QED BY <2>1, QuoteIsTyped DEF TypeOK
<1> QED BY <1>1, <1>2, <1>3, PTL DEF Spec


=============================================================================
