---------------------------- MODULE QuotePricing ----------------------------
(***************************************************************************)
(* What a Quote costs: the price lines of the facts, the reasons that call *)
(* for an Admin, the operational cost of the visit and the floor it puts   *)
(* under the price.                                                        *)
(*                                                                         *)
(* Amounts are cents; cleaner-hours are counted in half hours, so every    *)
(* workload of the tables is a whole number.                               *)
(***************************************************************************)
EXTENDS QuoteFacts, FiniteSetsExt, Functions

CONSTANTS
  CoidaRate,   \* the assessed COIDA rate in hundredths of a per cent, or None
  RouteKm      \* the allocated route distance in kilometres, or None

ASSUME CoidaRateKnown == CoidaRate = None \/ CoidaRate \in Nat
ASSUME RouteKmKnown   == RouteKm = None \/ RouteKm \in Nat

-----------------------------------------------------------------------------
(* Tables *)

\* The floor sizes in their order; prices and workloads follow it.
FloorSizes ==
  <<"UNDER_40", "FROM_40_TO_59", "FROM_60_TO_79", "FROM_80_TO_99", "FROM_100_TO_129",
    "FROM_130_TO_169", "FROM_170_TO_219", "FROM_220_TO_299", "FROM_300_UP">>

FloorIndex(size) == CHOOSE i \in DOMAIN FloorSizes : FloorSizes[i] = size

FloorServices == {"Regular_Home_Cleaning", "Deep_Cleaning", "Move_In_Cleaning", "Move_Out_Cleaning"}

FloorPrice(service) ==
  CASE service = "Regular_Home_Cleaning" ->
         <<65000, 70000, 75000, 80000, 87500, 97500, 105000, 120000, 135000>>
    [] service = "Deep_Cleaning" ->
         <<100000, 105000, 115000, 125000, 135000, 155000, 170000, 190000, 220000>>
    [] OTHER ->
         <<120000, 125000, 135000, 145000, 155000, 175000, 190000, 210000, 245000>>

\* Mutant of FloorHalfHours: the digits of an entry are swapped.
FloorHalfHoursSwapped(service) ==
  CASE service = "Regular_Home_Cleaning" -> <<8, 10, 12, 16, 20, 22, 42, 27>>
    [] service = "Deep_Cleaning"         -> <<24, 25, 28, 30, 32, 37, 41, 46>>
    [] OTHER                             -> <<29, 30, 32, 35, 37, 42, 46, 51>>

\* FLOOR_CLEANER_HOURS, without an entry for 300 m2 and more
FloorHalfHours(service) ==
  CASE service = "Regular_Home_Cleaning" -> <<8, 10, 12, 16, 20, 22, 24, 27>>
    [] service = "Deep_Cleaning"         -> <<24, 25, 28, 30, 32, 37, 41, 46>>
    [] OTHER                             -> <<29, 30, 32, 35, 37, 42, 46, 51>>

\* COUNT_VALUE; "OTHER" counts no rooms
Count(band) ==
  CASE band \in {"STUDIO", "ONE"} -> 1
    [] band = "TWO" -> 2
    [] band = "THREE" -> 3
    [] band \in {"FOUR", "FOUR_PLUS"} -> 4
    [] band = "FIVE_PLUS" -> 5
    [] OTHER -> 0

\* The Services priced by rooms: the rooms counted, the first and each further
\* one (price, half hours), and the band that does not say how many there are.
Room ==
  [service \in {"Bathroom_Sanitisation", "Bedroom_Cleaning", "Living_Area_Cleaning"} |->
     CASE service = "Bathroom_Sanitisation" ->
            [of |-> "bathrooms", open |-> "FIVE_PLUS", first |-> 55000, more |-> 20000,
             firstHalfHours |-> 13, moreHalfHours |-> 5]
       [] service = "Bedroom_Cleaning" ->
            [of |-> "bedrooms", open |-> "FIVE_PLUS", first |-> 45000, more |-> 15000,
             firstHalfHours |-> 11, moreHalfHours |-> 4]
       [] OTHER ->
            [of |-> "livingAreas", open |-> "FOUR_PLUS", first |-> 45000, more |-> 15000,
             firstHalfHours |-> 11, moreHalfHours |-> 4]]

-----------------------------------------------------------------------------
(* Post-Event workload *)

EventBase ==
  [halfHours |-> <<11, 13, 15, 17, 20, 24, 28, 33>>,
   price     |-> <<85000, 95000, 110000, 125000, 145000, 165000, 190000, 220000>>]

EventExtraHalfHours(d) ==
  LET guests == [ONE_TO_20 |-> 0, FROM_21_TO_50 |-> 4, FROM_51_TO_100 |-> 8,
                 FROM_101_TO_150 |-> 14, FROM_150_UP |-> 0]
      dishes == [NONE |-> 0, MODERATE |-> 4, HEAVY |-> 8]
      waste  == [LIGHT |-> 0, MODERATE |-> 3, HEAVY |-> 6]
  IN  guests[d.guestBand] + 3 * (d.eventBathrooms - 1)
        + (IF d.kitchenSubstantiallyUsed THEN 4 ELSE 0) + dishes[d.dishwashing]
        + 3 * Cardinality(d.outdoorAreas)
        + (IF "GARDEN_ENTERTAINMENT_AREA" \in d.outdoorAreas THEN 2 ELSE 0)
        + waste[d.wasteLevel] + (IF d.significantOrdinarySoiling THEN 4 ELSE 0)

EventSized(d) == d.floorSize \notin {"UNKNOWN", "FROM_300_UP"}

\* Meaningful for a sized home only
EventHalfHours(d) == EventBase.halfHours[FloorIndex(d.floorSize)] + EventExtraHalfHours(d)
EventPrice(d) == EventBase.price[FloorIndex(d.floorSize)] + 5000 * EventExtraHalfHours(d)

EventReviews(d) ==
  {why \in {"FLOOR_SIZE_REQUIRED", "FLOOR_SIZE_REVIEW", "GUEST_COUNT_REVIEW",
            "WORKLOAD_CEILING_EXCEEDED", "OVERNIGHT_REVIEW", "BULK_WASTE_REVIEW",
            "SPECIALIST_CONTAMINATION_REVIEW", "SPECIALIST_CARPET_UPHOLSTERY_REVIEW",
            "COMPLEX_VENUE_REVIEW"} :
     CASE why = "FLOOR_SIZE_REQUIRED" -> d.floorSize = "UNKNOWN"
       [] why = "FLOOR_SIZE_REVIEW" -> d.floorSize = "FROM_300_UP"
       [] why = "GUEST_COUNT_REVIEW" -> d.guestBand = "FROM_150_UP"
       [] why = "WORKLOAD_CEILING_EXCEEDED" -> EventSized(d) /\ EventHalfHours(d) > 48
       [] why = "OVERNIGHT_REVIEW" -> d.lateNightOrOvernight
       [] why = "BULK_WASTE_REVIEW" -> d.bulkWasteRemovalRequested
       [] why = "SPECIALIST_CONTAMINATION_REVIEW" -> d.specialistContamination
       [] why = "SPECIALIST_CARPET_UPHOLSTERY_REVIEW" -> d.specialistCarpetOrUpholstery
       [] OTHER -> d.complexVenue}

-----------------------------------------------------------------------------
(* Price lines and reasons for attention *)

Nothing == [amount |-> 0, reasons |-> {}]
Priced(amount, reasons) == [amount |-> amount, reasons |-> reasons]

FloorPriced(d) ==
  IF d.floorSize = "UNKNOWN" THEN Priced(0, {"FLOOR_SIZE_REQUIRED"})
  ELSE Priced(FloorPrice(d.primaryService)[FloorIndex(d.floorSize)],
              (IF d.floorSize = "FROM_300_UP" THEN {"FROM_PRICE_REQUIRES_REVIEW"} ELSE {})
                \cup (IF d.primaryService = "Regular_Home_Cleaning"
                      THEN {"ROOM_CONFIGURATION_REVIEW"} ELSE {}))

EventPriced(d) ==
  IF EventReviews(d) # {} THEN Priced(0, EventReviews(d)) ELSE Priced(EventPrice(d), {})

RoomPriced(d) ==
  LET room  == Room[d.primaryService]
      count == Count(d[room.of])
  IN  IF count = 0 THEN Priced(0, {"ROOM_COUNT_REVIEW"})
      ELSE Priced(room.first + room.more * (count - 1),
                  {"ROOM_TYPE_REVIEW"} \cup
                    (IF d[room.of] = room.open THEN {"OPEN_ENDED_ROOM_COUNT"} ELSE {}))

PrimaryPriced(d) ==
  LET service == d.primaryService
  IN  CASE service = NotSure -> Priced(0, {"PRIMARY_SERVICE_REVIEW"})
        [] service = PostEvent -> EventPriced(d)
        [] service \in FloorServices -> FloorPriced(d)
        [] service \in DOMAIN Room -> RoomPriced(d)
        [] service = "Interior_Window_Cleaning" -> Priced(40000, {"WINDOW_COUNT_REVIEW"})
        [] OTHER -> Priced(0, {"PRIMARY_SCOPE_REVIEW"})

\* Only a submission of schema 2.0 has its laundry priced: `structured` tells
\* whether the channel sent one.
LaundryPriced(d, structured) ==
  LET washing == IF d.laundryLoads = None THEN 0
                 ELSE d.laundryLoads * (IF d.facilities = "WASHER_DRYER" THEN 17500 ELSE 12500)
      ironing == IF d.ironingLoads = None THEN 0 ELSE d.ironingLoads * 15000
  IN  IF ~structured \/ ~LaundrySupplied(d) THEN Nothing
      ELSE IF LaundryErrors(d) # {} THEN Priced(0, LaundryErrors(d))
      ELSE Priced(washing + ironing,
                  (IF washing > 0 THEN {"LAUNDRY_CAPACITY_REVIEW"} ELSE {})
                    \cup (IF ironing > 0 THEN {"IRONING_CAPACITY_REVIEW"} ELSE {}))

AddOnsPriced(d) ==
  Priced(0, IF DOMAIN d.addOns = {} THEN {} ELSE {"ADD_ON_DETAIL_REQUIRED"})

\* The price an Admin's review gives an add-on, or the reason it cannot: four of
\* them have prices.
\* `detail` maps add-ons to the scope the Admin chose.
ReviewedAddOn(addOn, quantity, detail) ==
  LET chosen == IF addOn \in DOMAIN detail THEN detail[addOn] ELSE None
      price  == CASE addOn = "Pet_Hair_Treatment" -> 15000
                  [] addOn = "Inside_Oven_Cleaning" /\ chosen = "STANDARD_SINGLE" -> 35000
                  [] addOn = "Inside_Oven_Cleaning" /\ chosen = "LARGE_DOUBLE" -> 50000
                  [] addOn = "Inside_Oven_Cleaning" /\ chosen = "SEVERE_STANDARD" -> 50000
                  [] addOn = "Inside_Oven_Cleaning" /\ chosen = "SEVERE_LARGE" -> 65000
                  [] addOn = "Garage_Sweeping" /\ chosen = "SINGLE" -> 25000
                  [] addOn = "Garage_Sweeping" /\ chosen = "DOUBLE" -> 40000
                  [] addOn = "Extra_Bathroom_Cleaning" /\ chosen = "STANDARD" -> 20000
                  [] addOn = "Extra_Bathroom_Cleaning" /\ chosen = "LARGE_MASTER" -> 30000
                  [] OTHER -> 0
  IN  IF price > 0 THEN Priced(quantity * price, {})
      ELSE Priced(0, {IF addOn = "Garage_Sweeping" /\ chosen = "LARGER_MULTI_CAR"
                        THEN "ADD_ON_ASSESSMENT_REQUIRED"
                        ELSE "ADD_ON_DETAIL_REQUIRED"})

AddOnsReviewed(d, detail) ==
  LET row(a)  == IF a \in DOMAIN d.addOns THEN ReviewedAddOn(a, d.addOns[a], detail) ELSE Nothing
      cost(a) == row(a).amount
  IN  Priced(cost("Pet_Hair_Treatment") + cost("Inside_Oven_Cleaning")
               + cost("Garage_Sweeping") + cost("Extra_Bathroom_Cleaning"),
             UNION {row(a).reasons : a \in DOMAIN d.addOns})

-----------------------------------------------------------------------------
(* Operational cost *)

CeilDiv(a, b) == (a + b - 1) \div b

\* resolveApprovedCleanerHours, in half hours; None calls for attention
CleanerHalfHours(d) ==
  LET service == d.primaryService
  IN  CASE service = PostEvent -> IF EventReviews(d) = {} THEN EventHalfHours(d) ELSE None
        [] service \in FloorServices ->
             IF d.floorSize \in {"UNKNOWN", "FROM_300_UP"} THEN None
             ELSE FloorHalfHours(service)[FloorIndex(d.floorSize)]
        [] service \in DOMAIN Room ->
             LET room == Room[service]
             IN  IF d[room.of] \in {room.open, "OTHER"} THEN None
                 ELSE room.firstHalfHours + room.moreHalfHours * (Count(d[room.of]) - 1)
        [] OTHER -> None

Consumables(service, halfHours) ==
  CASE service = "Regular_Home_Cleaning" -> 1000 + 125 * halfHours
    [] service = "Deep_Cleaning" -> 1500 + 200 * halfHours
    [] service \in {"Move_In_Cleaning", "Move_Out_Cleaning"} -> 2000 + 225 * halfHours
    [] service \in {"Kitchen_Cleaning", "Bathroom_Sanitisation"} -> 1000 + 250 * halfHours
    [] OTHER -> 1000 + 200 * halfHours

\* Wages of 33.27 an hour, 1% unemployment insurance and the COIDA rate
Labour(halfHours) == CeilDiv(3327 * halfHours * (10100 + CoidaRate), 20000)

\* The cost before contribution and the least contribution, when every
\* component is known
CostsReady(d) == CleanerHalfHours(d) # None /\ CoidaRate # None /\ RouteKm # None

CostTotal(d) ==
  LET h == CleanerHalfHours(d)
  IN  Labour(h) + 182 * RouteKm + Consumables(d.primaryService, h) + 100 * h + 1000 * h

\* Mutant of MinimumContribution: a fifth of the cost, for a fifth of the price.
FifthOfTheCost(cost) == Max({10000, CeilDiv(cost, 5)})

MinimumContribution(cost) == Max({10000, CeilDiv(cost, 4)})

RequiredMinimum(d) == CostTotal(d) + MinimumContribution(CostTotal(d))

\* applyQuoteProfitabilityFloor: lifted to the floor, then to the next ten rand
Floored(subtotal, minimum) == 1000 * CeilDiv(Max({subtotal, minimum}), 1000)

-----------------------------------------------------------------------------
(* The Quote *)

\* One pricing of the facts: what the customer pays and why an Admin must look.
Pricing(d, structured, addOns) ==
  LET primary  == PrimaryPriced(d)
      laundry  == LaundryPriced(d, structured)
      subtotal == primary.amount + addOns.amount + laundry.amount
      reasons  == primary.reasons \cup addOns.reasons \cup laundry.reasons
  IN  IF CostsReady(d)
      THEN [total |-> Floored(subtotal, RequiredMinimum(d)), reasons |-> reasons]
      ELSE [total |-> subtotal, reasons |-> reasons \cup {"BREAK_EVEN_REVIEW_REQUIRED"}]

SubmittedPricing(d, structured) == Pricing(d, structured, AddOnsPriced(d))
ReviewedPricing(d, structured, detail) == Pricing(d, structured, AddOnsReviewed(d, detail))

=============================================================================
