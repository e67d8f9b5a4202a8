----------------------------- MODULE QuoteFacts -----------------------------
(***************************************************************************)
(* The business facts of a Quote request, as every channel collects them,  *)
(* and the validation all of them must pass before a Quote is made.        *)
(*                                                                         *)
(* A draft is a function from the names of the facts to their values, with *)
(* None for a fact that has not been given.  Free text is told apart only  *)
(* as empty ("") or written ("TEXT").                                      *)
(***************************************************************************)
EXTENDS Integers, Sequences, FiniteSets

CONSTANT None   \* a fact that has not been given

-----------------------------------------------------------------------------
(* The facts, by group *)

PropertyFacts ==
  {"propertyType", "addressLine1", "suburb", "country", "floorSize", "bedrooms",
   "bathrooms", "livingAreas", "exactFloor", "buildingAccess", "outdoorArea",
   "estateClassification"}
EventBooleans ==
  {"kitchenSubstantiallyUsed", "significantOrdinarySoiling", "lateNightOrOvernight",
   "bulkWasteRemovalRequested", "specialistContamination",
   "specialistCarpetOrUpholstery", "complexVenue"}
EventFacts ==
  {"eventType", "venueType", "guestBand", "eventBathrooms", "dishwashing",
   "outdoorAreas", "wasteLevel"} \cup EventBooleans
LaundryFacts == {"facilities", "laundryLoads", "ironingLoads"}
RequestFacts ==
  {"primaryService", "frequency", "customFrequencyNote", "homeCondition", "addOns",
   "ecoFriendlyProducts"} \cup LaundryFacts \cup EventFacts
SafetyFacts ==
  {"offLimitsAreas", "fragileItems", "productRestrictions",
   "allergiesOrSensitivities", "existingDamage"}
NotesFacts == {"attentionAreas", "renovationDust", "applianceNotes", "additionalNotes"}

FactsOf ==
  [property  |-> PropertyFacts,
   request   |-> RequestFacts,
   visit     |-> {"preferredDate", "alternativeDate", "preferredTime", "flexibility",
                  "urgency", "recurringNotes"},
   access    |-> {"complexAccess", "securityInstructions", "parking", "keyHandover",
                  "keyHandoverDetails", "someonePresent"},
   household |-> {"hasPets", "petType", "petTemperament"},
   safety    |-> SafetyFacts,
   notes     |-> NotesFacts,
   customer  |-> {"fullName", "email", "mobile", "preferredContact"},
   photos    |-> {"photos"}]

Groups == DOMAIN FactsOf

\* "media" is Messaging's own list of secured images, outside every group.
Facts == (UNION {FactsOf[g] : g \in Groups}) \cup {"media"}

EmptyDraft == [f \in Facts |-> None]

-----------------------------------------------------------------------------
(* The vocabulary of the contract *)

PostEvent == "Post_Event_Cleaning"
NotSure   == "Not_sure"            \* canonicalService: null

FullFrequencies == {"ONE_TIME", "WEEKLY", "EVERY_TWO_WEEKS", "MONTHLY", "CUSTOM"}

PrimaryServices ==
  {"Regular_Home_Cleaning", "Deep_Cleaning", "Move_In_Cleaning", "Move_Out_Cleaning",
   "Apartment_Cleaning", "Kitchen_Cleaning", "Bathroom_Sanitisation",
   "Bedroom_Cleaning", "Living_Area_Cleaning", "Interior_Window_Cleaning",
   "Laundry_Folding", "Eco_Conscious_Cleaning", "Post_Renovation_Cleaning", NotSure}

AddOnServices ==
  {"Inside_Oven_Cleaning", "Inside_Fridge_Cleaning", "Interior_Cupboard_Cleaning",
   "Interior_Window_Cleaning", "Bed_Making", "Linen_Change", "Balcony_Patio_Cleaning",
   "Garage_Sweeping", "Extra_Bathroom_Cleaning", "Extra_Refrigerator",
   "Pet_Hair_Treatment"}
QuantityAddOns == {"Extra_Refrigerator", "Balcony_Patio_Cleaning"}

\* Which frequencies a Service may have; a Service without a rule may have any.
AllowedFrequencies(service) ==
  CASE service \in {"Move_In_Cleaning", "Move_Out_Cleaning"} -> {"ONE_TIME"}
    [] service = "Deep_Cleaning" -> {"ONE_TIME", "MONTHLY", "CUSTOM"}
    [] service \in {"Kitchen_Cleaning", "Bathroom_Sanitisation", "Bedroom_Cleaning",
                    "Living_Area_Cleaning", "Interior_Window_Cleaning",
                    "Laundry_Folding", NotSure} -> {"ONE_TIME", "CUSTOM"}
    [] OTHER -> FullFrequencies

LaundryEligible(service) == service \in {"Regular_Home_Cleaning", "Deep_Cleaning"}

\* None is not the value of a fact.
ASSUME NoneIsNoFact ==
  None \notin BOOLEAN \cup Int \cup PrimaryServices \cup FullFrequencies
              \cup {PostEvent, "APARTMENT", "STUDIO", "TO_BE_ARRANGED"}

\* Nor is it a choice of add-ons.
ASSUME NoneIsNoAddOns == \A S \in SUBSET AddOnServices : None \notin [S -> Nat]

-----------------------------------------------------------------------------
(* Validation: one predicate per group, true when the group has no error *)

Written(v) == v = "TEXT"
OptionalTextOK(d, names) == \A f \in names : d[f] \in {None, "", "TEXT"}

\* The words of the contract for the facts of a property.
PropertyWords ==
  [propertyType        |-> {"APARTMENT", "TOWNHOUSE", "HOUSE", "DUPLEX", "OTHER"},
   floorSize           |-> {"UNDER_40", "FROM_40_TO_59", "FROM_60_TO_79", "FROM_80_TO_99",
                            "FROM_100_TO_129", "FROM_130_TO_169", "FROM_170_TO_219",
                            "FROM_220_TO_299", "FROM_300_UP", "UNKNOWN"},
   bedrooms            |-> {"STUDIO", "ONE", "TWO", "THREE", "FOUR", "FIVE_PLUS", "OTHER"},
   bathrooms           |-> {"ONE", "TWO", "THREE", "FOUR", "FIVE_PLUS"},
   livingAreas         |-> {"ONE", "TWO", "THREE", "FOUR_PLUS"},
   outdoorArea         |-> {"NONE", "BALCONY", "PATIO", "BOTH"},
   estateClassification |-> {"NONE", "ESTATE", "COMPLEX", "GATED_COMMUNITY"}]

\* Mutant of NeedsFloor: the rule of contract 1, for which no question asks.
NeedsFloorOfV1(type) == type \in {"APARTMENT", "TOWNHOUSE"}

\* Contract 2 drops the contract 1 rule that a Townhouse, too, has a floor and
\* a building access, and whatever one says of them; Duplex, House and Other
\* may have them.
NeedsFloor(type) == type = "APARTMENT"

ValidProperty(d) ==
  /\ \A f \in DOMAIN PropertyWords : d[f] \in PropertyWords[f]
  /\ Written(d.addressLine1) /\ Written(d.suburb)
  /\ d.country = "South_Africa"
  /\ d.bedrooms = "STUDIO" => d.propertyType = "APARTMENT"
  /\ d.propertyType # "TOWNHOUSE" =>
       /\ d.exactFloor = None \/ d.exactFloor \in 0..50
       /\ d.buildingAccess \in {None, "ELEVATOR", "STAIRS", "ELEVATOR_AND_STAIRS"}
  /\ NeedsFloor(d.propertyType) => d.exactFloor # None /\ d.buildingAccess # None

ValidAddOns(addOns) ==
  /\ addOns # None
  /\ \A s \in DOMAIN addOns :
       /\ s \in AddOnServices
       /\ addOns[s] \in Nat \ {0}
       /\ s \notin QuantityAddOns => addOns[s] = 1

ValidEvent(d) ==
  /\ d.frequency = "ONE_TIME"
  /\ d.eventType \in {"PARTY_BIRTHDAY", "WEDDING_RECEPTION", "FAMILY_GATHERING",
                      "CORPORATE_EVENT", "FUNERAL_MEMORIAL", "OTHER"}
  /\ d.venueType \in {"HOME", "APARTMENT", "BUSINESS_PREMISES", "EVENT_VENUE", "OTHER"}
  /\ d.guestBand \in {"ONE_TO_20", "FROM_21_TO_50", "FROM_51_TO_100",
                      "FROM_101_TO_150", "FROM_150_UP"}
  /\ d.dishwashing \in {"NONE", "MODERATE", "HEAVY"}
  /\ d.wasteLevel \in {"LIGHT", "MODERATE", "HEAVY"}
  /\ d.eventBathrooms \in Nat \ {0}
  /\ d.outdoorAreas # None
  /\ d.outdoorAreas \subseteq {"PATIO", "BALCONY", "BRAAI_AREA", "GARDEN_ENTERTAINMENT_AREA"}
  /\ \A f \in EventBooleans : d[f] \in BOOLEAN

\* What resolveLaundryRequest finds wrong with the structured laundry.
LaundryErrors(d) ==
  LET wantsLaundry == d.laundryLoads # None
      wantsIroning == d.ironingLoads # None
  IN  {e \in {"INELIGIBLE_PRIMARY_SERVICE", "FACILITIES_REQUIRED", "NO_WASHER",
              "INVALID_LOAD_QUANTITY"} :
         CASE e = "INELIGIBLE_PRIMARY_SERVICE" ->
                (wantsLaundry \/ wantsIroning) /\ ~LaundryEligible(d.primaryService)
           [] e = "FACILITIES_REQUIRED" -> wantsLaundry /\ d.facilities = None
           [] e = "NO_WASHER" -> wantsLaundry /\ d.facilities = "NO_WASHER"
           [] OTHER -> \/ wantsLaundry /\ d.laundryLoads \notin Nat \ {0}
                       \/ wantsIroning /\ d.ironingLoads \notin Nat \ {0}}

\* request.laundry is supplied when any of its facts is.
LaundrySupplied(d) == \E f \in LaundryFacts : d[f] # None

ValidLaundry(d) ==
  LaundrySupplied(d) =>
    (d.laundryLoads # None \/ d.ironingLoads # None) /\ LaundryErrors(d) = {}

ValidRequest(d) ==
  /\ d.primaryService \in PrimaryServices \cup {PostEvent}
  /\ d.frequency \in FullFrequencies
  /\ d.homeCondition \in {"LIGHT_UPKEEP", "STANDARD", "EXTRA_ATTENTION", "HEAVY_BUILDUP",
                          "RECENTLY_RENOVATED", "VACANT", "MOVE_IN_OUT"}
  /\ d.ecoFriendlyProducts \in BOOLEAN \cup {None}
  /\ ValidAddOns(d.addOns)
  /\ ValidLaundry(d)
  /\ IF d.primaryService = PostEvent
     THEN ValidEvent(d)
     ELSE /\ \A f \in EventFacts : d[f] = None
          /\ d.frequency = "CUSTOM" => Written(d.customFrequencyNote)
          /\ \/ d.frequency \in AllowedFrequencies(d.primaryService)
             \/ d.primaryService \in {"Bedroom_Cleaning", "Living_Area_Cleaning"}

ValidVisit(d) ==
  /\ d.preferredDate = "DATE" /\ d.alternativeDate \in {None, "", "DATE"}
  /\ d.preferredTime \in {"MORNING", "MIDDAY", "AFTERNOON", "FLEXIBLE"}
  /\ Written(d.flexibility) /\ Written(d.urgency)
  /\ OptionalTextOK(d, {"recurringNotes"})

ValidAccess(d) ==
  /\ d.complexAccess \in {"ACCESS_CODE", "NOT_APPLICABLE", "VISITOR_SIGN_IN", "RESIDENT_ARRANGED"}
  /\ OptionalTextOK(d, {"securityInstructions", "parking", "keyHandoverDetails"})
  /\ d.keyHandover \in {"SOMEONE_WILL_OPEN", "CONCIERGE_RECEPTION", "TO_BE_ARRANGED"}
  /\ d.keyHandover = "TO_BE_ARRANGED" => Written(d.keyHandoverDetails)
  /\ d.someonePresent \in BOOLEAN

ValidHousehold(d) ==
  /\ d.hasPets \in BOOLEAN
  /\ d.hasPets = TRUE => Written(d.petType) /\ Written(d.petTemperament)

ValidCustomer(d) ==
  /\ Written(d.fullName) /\ d.email = "EMAIL" /\ d.mobile = "MOBILE"
  /\ d.preferredContact \in {"PHONE", "EMAIL", "WHATSAPP"}

Valid(d, g) ==
  CASE g = "property"  -> ValidProperty(d)
    [] g = "request"   -> ValidRequest(d)
    [] g = "visit"     -> ValidVisit(d)
    [] g = "access"    -> ValidAccess(d)
    [] g = "household" -> ValidHousehold(d)
    [] g = "safety"    -> OptionalTextOK(d, SafetyFacts)
    [] g = "notes"     -> OptionalTextOK(d, NotesFacts)
    [] g = "customer"  -> ValidCustomer(d)
    [] OTHER           -> d.photos = "LISTED"

\* A group is there once one of its facts is (Messaging removes a whole group).
Present(d, g) == \E f \in FactsOf[g] : d[f] # None

\* messagingQuoteIncompleteFactGroups
IncompleteGroups(d) == {g \in Groups : ~Present(d, g) \/ ~Valid(d, g)}

=============================================================================
