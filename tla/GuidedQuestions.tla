-------------------------- MODULE GuidedQuestions --------------------------
(***************************************************************************)
(* The questions a conversation asks for a Quote: their order, when each   *)
(* is asked, and what a reply makes of the draft.                          *)
(*                                                                         *)
(* A reply is a record of its word and its numbers: "1, 12" is the word    *)
(* "NUMBERS" with <<1, 12>>.  A date, an e-mail address and a mobile number*)
(* in the right form are the words "DATE", "EMAIL" and "MOBILE".           *)
(***************************************************************************)
EXTENDS QuoteFacts, Functions, FiniteSetsExt, SequencesExt

-----------------------------------------------------------------------------
(* A patch replaces the facts it names *)

Fact(f, v) == [g \in {f} |-> v]
Patched(patch, d) ==
  [f \in DOMAIN patch \cup DOMAIN d |-> IF f \in DOMAIN patch THEN patch[f] ELSE d[f]]

-----------------------------------------------------------------------------
(* Replies and how the collectors read them *)

Words == {"NUMBERS", "YES", "NO", "DONE", "CONFIRM", "CHANGE", "DATE", "EMAIL",
          "MOBILE", "TEXT", "BLANK", "MEDIA"}

IsReply(r) == r.word \in Words /\ r.numbers \in Seq(Nat)

Word(w)     == [word |-> w, numbers |-> <<>>]
Numbers(ns) == [word |-> "NUMBERS", numbers |-> ns]

\* The single number of a reply satisfies P
OneNumber(r, P(_)) == r.word = "NUMBERS" /\ Len(r.numbers) = 1 /\ P(r.numbers[1])

\* The collectors answer None when the reply is invalid.
Choice(menu, r) ==
  IF OneNumber(r, LAMBDA n : n \in DOMAIN menu) THEN menu[r.numbers[1]] ELSE None
OneTwo(r)  == Choice(<<TRUE, FALSE>>, r)
YesNo(r)   == IF r.word = "YES" THEN TRUE ELSE IF r.word = "NO" THEN FALSE ELSE None
Whole(r, range) == IF OneNumber(r, LAMBDA n : n \in range) THEN r.numbers[1] ELSE None
RequiredText(r) == IF r.word = "BLANK" THEN None ELSE "TEXT"
OptionalText(r) == IF OneNumber(r, LAMBDA n : n = 0) THEN "" ELSE RequiredText(r)
Exactly(r, w)   == IF r.word = w THEN w ELSE None
DateOr0(r) == IF OneNumber(r, LAMBDA n : n = 0) THEN "" ELSE Exactly(r, "DATE")

-----------------------------------------------------------------------------
(* Your home *)

HomeFact ==
  [PROPERTY_TYPE |-> "propertyType", ADDRESS_LINE_1 |-> "addressLine1", SUBURB |-> "suburb",
   COUNTRY_CONFIRMATION |-> "country", FLOOR_SIZE |-> "floorSize", BEDROOMS |-> "bedrooms",
   BATHROOMS |-> "bathrooms", LIVING_AREAS |-> "livingAreas", APARTMENT_FLOOR |-> "exactFloor",
   APARTMENT_ACCESS |-> "buildingAccess", OUTDOOR_AREA |-> "outdoorArea",
   ESTATE_CLASSIFICATION |-> "estateClassification"]
HomeQuestions ==
  <<"PROPERTY_TYPE", "ADDRESS_LINE_1", "SUBURB", "COUNTRY_CONFIRMATION", "FLOOR_SIZE",
    "BEDROOMS", "BATHROOMS", "LIVING_AREAS", "APARTMENT_FLOOR", "APARTMENT_ACCESS",
    "OUTDOOR_AREA", "ESTATE_CLASSIFICATION">>

HomeMenu ==
  [PROPERTY_TYPE |-> <<"APARTMENT", "TOWNHOUSE", "HOUSE", "DUPLEX", "OTHER">>,
   FLOOR_SIZE |-> <<"UNDER_40", "FROM_40_TO_59", "FROM_60_TO_79", "FROM_80_TO_99",
                    "FROM_100_TO_129", "FROM_130_TO_169", "FROM_170_TO_219",
                    "FROM_220_TO_299", "FROM_300_UP", "UNKNOWN">>,
   BEDROOMS |-> <<"STUDIO", "ONE", "TWO", "THREE", "FOUR", "FIVE_PLUS", "OTHER">>,
   BATHROOMS |-> <<"ONE", "TWO", "THREE", "FOUR", "FIVE_PLUS">>,
   LIVING_AREAS |-> <<"ONE", "TWO", "THREE", "FOUR_PLUS">>,
   APARTMENT_ACCESS |-> <<"ELEVATOR", "STAIRS", "ELEVATOR_AND_STAIRS">>,
   OUTDOOR_AREA |-> <<"NONE", "BALCONY", "PATIO", "BOTH">>,
   ESTATE_CLASSIFICATION |-> <<"NONE", "ESTATE", "COMPLEX", "GATED_COMMUNITY">>]

HomeApplies(d, q) ==
  q \in {"APARTMENT_FLOOR", "APARTMENT_ACCESS"} => d.propertyType = "APARTMENT"

HomeAnswer(d, q, r) ==
  CASE q \in {"ADDRESS_LINE_1", "SUBURB"} -> RequiredText(r)
    [] q = "COUNTRY_CONFIRMATION" -> IF r.word = "YES" THEN "South_Africa" ELSE None
    [] q = "APARTMENT_FLOOR" -> Whole(r, 0..50)
    [] OTHER -> LET v == Choice(HomeMenu[q], r)
                IN  IF v = "STUDIO" /\ d.propertyType # "APARTMENT" THEN None ELSE v

-----------------------------------------------------------------------------
(* Cleaning requirements *)

CleaningFact ==
  [PRIMARY_SERVICE |-> "primaryService", FREQUENCY |-> "frequency",
   CUSTOM_FREQUENCY_NOTE |-> "customFrequencyNote", HOME_CONDITION |-> "homeCondition"]
CleaningQuestions ==
  <<"PRIMARY_SERVICE", "FREQUENCY", "CUSTOM_FREQUENCY_NOTE", "HOME_CONDITION">>

PRIMARY_SERVICES ==
  <<"Regular_Home_Cleaning", "Deep_Cleaning", "Move_In_Cleaning", "Move_Out_Cleaning",
    "Apartment_Cleaning", "Kitchen_Cleaning", "Bathroom_Sanitisation", "Bedroom_Cleaning",
    "Living_Area_Cleaning", "Interior_Window_Cleaning", "Laundry_Folding",
    "Eco_Conscious_Cleaning", "Post_Renovation_Cleaning", PostEvent, NotSure>>
FREQUENCIES == <<"ONE_TIME", "WEEKLY", "EVERY_TWO_WEEKS", "MONTHLY", "CUSTOM">>
HOME_CONDITIONS ==
  <<"LIGHT_UPKEEP", "STANDARD", "EXTRA_ATTENTION", "HEAVY_BUILDUP", "RECENTLY_RENOVATED",
    "VACANT", "MOVE_IN_OUT">>

CleaningApplies(d, q) == q = "CUSTOM_FREQUENCY_NOTE" => d.frequency = "CUSTOM"

CleaningAnswer(d, q, r) ==
  CASE q = "PRIMARY_SERVICE" -> Choice(PRIMARY_SERVICES, r)
    [] q = "FREQUENCY" ->
         LET v       == Choice(FREQUENCIES, r)
             allowed == IF d.primaryService = PostEvent THEN {"ONE_TIME"}
                        ELSE AllowedFrequencies(d.primaryService)
         IN  IF v \in allowed THEN v ELSE None
    [] q = "CUSTOM_FREQUENCY_NOTE" -> RequiredText(r)
    [] OTHER -> Choice(HOME_CONDITIONS, r)

-----------------------------------------------------------------------------
(* Post-Event facts *)

EventFact ==
  [EVENT_TYPE |-> "eventType", VENUE_TYPE |-> "venueType", GUEST_BAND |-> "guestBand",
   EXACT_BATHROOMS |-> "eventBathrooms", KITCHEN_USED |-> "kitchenSubstantiallyUsed",
   DISHWASHING |-> "dishwashing", OUTDOOR_AREAS |-> "outdoorAreas",
   WASTE_LEVEL |-> "wasteLevel", SIGNIFICANT_SOILING |-> "significantOrdinarySoiling",
   OVERNIGHT |-> "lateNightOrOvernight", BULK_WASTE |-> "bulkWasteRemovalRequested",
   SPECIALIST_CONTAMINATION |-> "specialistContamination",
   SPECIALIST_CARPET_UPHOLSTERY |-> "specialistCarpetOrUpholstery",
   COMPLEX_VENUE |-> "complexVenue"]
EventQuestions ==
  <<"EVENT_TYPE", "VENUE_TYPE", "GUEST_BAND", "EXACT_BATHROOMS", "KITCHEN_USED",
    "DISHWASHING", "OUTDOOR_AREAS", "WASTE_LEVEL", "SIGNIFICANT_SOILING", "OVERNIGHT",
    "BULK_WASTE", "SPECIALIST_CONTAMINATION", "SPECIALIST_CARPET_UPHOLSTERY",
    "COMPLEX_VENUE">>

EventMenu ==
  [EVENT_TYPE |-> <<"PARTY_BIRTHDAY", "WEDDING_RECEPTION", "FAMILY_GATHERING",
                    "CORPORATE_EVENT", "FUNERAL_MEMORIAL", "OTHER">>,
   VENUE_TYPE |-> <<"HOME", "APARTMENT", "BUSINESS_PREMISES", "EVENT_VENUE", "OTHER">>,
   GUEST_BAND |-> <<"ONE_TO_20", "FROM_21_TO_50", "FROM_51_TO_100", "FROM_101_TO_150",
                    "FROM_150_UP">>,
   DISHWASHING |-> <<"NONE", "MODERATE", "HEAVY">>,
   WASTE_LEVEL |-> <<"LIGHT", "MODERATE", "HEAVY">>]
OUTDOOR_AREAS == <<"PATIO", "BALCONY", "BRAAI_AREA", "GARDEN_ENTERTAINMENT_AREA">>

\* parseOutdoorAreas: 0, or distinct numbers of the list
OutdoorAreas(r) ==
  CASE OneNumber(r, LAMBDA n : n = 0) -> {}
    [] r.word = "NUMBERS" /\ IsInjective(r.numbers)
         /\ ToSet(r.numbers) \subseteq DOMAIN OUTDOOR_AREAS ->
         {OUTDOOR_AREAS[n] : n \in ToSet(r.numbers)}
    [] OTHER -> None

EventAnswer(q, r) ==
  CASE q = "EXACT_BATHROOMS" -> Whole(r, 1..20)
    [] q = "OUTDOOR_AREAS" -> OutdoorAreas(r)
    [] q \in DOMAIN EventMenu -> Choice(EventMenu[q], r)
    [] OTHER -> YesNo(r)

-----------------------------------------------------------------------------
(* Personalise *)

PersonaliseFact ==
  [ADD_ONS |-> "addOns", EXTRA_REFRIGERATOR_QUANTITY |-> "addOns",
   BALCONY_PATIO_QUANTITY |-> "addOns", ECO_FRIENDLY_PRODUCTS |-> "ecoFriendlyProducts",
   LAUNDRY_FACILITIES |-> "facilities", LAUNDRY_LOADS |-> "laundryLoads",
   IRONING_LOADS |-> "ironingLoads"]
PersonaliseQuestions ==
  <<"ADD_ONS", "EXTRA_REFRIGERATOR_QUANTITY", "BALCONY_PATIO_QUANTITY",
    "ECO_FRIENDLY_PRODUCTS", "LAUNDRY_FACILITIES", "LAUNDRY_LOADS", "IRONING_LOADS">>

ADD_ONS ==
  <<"Inside_Oven_Cleaning", "Inside_Fridge_Cleaning", "Interior_Cupboard_Cleaning",
    "Interior_Window_Cleaning", "Bed_Making", "Linen_Change", "Balcony_Patio_Cleaning",
    "Garage_Sweeping", "Extra_Bathroom_Cleaning", "Extra_Refrigerator",
    "Pet_Hair_Treatment">>
LAUNDRY_FACILITIES == <<"WASHER_DRYER", "WASHER_LINE">>
AddOnOf(q) == IF q = "EXTRA_REFRIGERATOR_QUANTITY" THEN "Extra_Refrigerator"
              ELSE "Balcony_Patio_Cleaning"

\* The patch of the add-on menu: what is chosen, counted later where it is
\* counted; 12 and 13 start the laundry.
AddOnsPatch(d, r) ==
  LET keys     == ToSet(r.numbers)
      chosen   == {ADD_ONS[n] : n \in keys \ {12, 13}}
      quantity == [s \in chosen |-> IF s \in QuantityAddOns THEN 0 ELSE 1]
      laundry  == [f \in (IF 12 \in keys THEN {"laundryLoads"} ELSE {})
                         \cup (IF 13 \in keys THEN {"ironingLoads"} ELSE {}) |-> 0]
  IN  CASE OneNumber(r, LAMBDA n : n = 0) -> Fact("addOns", [s \in {} |-> 0])
        [] r.word = "NUMBERS" /\ keys # {} /\ keys \subseteq 1..13
             /\ (keys \cap {12, 13} # {} => LaundryEligible(d.primaryService)) ->
             Patched(laundry, Fact("addOns", quantity))
        [] OTHER -> None

PersonaliseApplies(d, q) ==
  CASE q \in {"EXTRA_REFRIGERATOR_QUANTITY", "BALCONY_PATIO_QUANTITY"} ->
         d.addOns # None /\ AddOnOf(q) \in DOMAIN d.addOns
    [] q \in {"LAUNDRY_FACILITIES", "LAUNDRY_LOADS"} -> d.laundryLoads # None
    [] q = "IRONING_LOADS" -> d.ironingLoads # None
    [] OTHER -> TRUE

Uncounted(n) == n < 1

PersonaliseUnanswered(d, q) ==
  CASE q \in {"EXTRA_REFRIGERATOR_QUANTITY", "BALCONY_PATIO_QUANTITY"} ->
         Uncounted(d.addOns[AddOnOf(q)])
    [] q \in {"LAUNDRY_LOADS", "IRONING_LOADS"} -> Uncounted(d[PersonaliseFact[q]])
    [] OTHER -> d[PersonaliseFact[q]] = None

\* MaxQuantity names the largest quantity a customer replies with here.
MaxQuantity == 15

PersonaliseAnswer(d, q, r) ==
  LET quantity == Whole(r, 1..MaxQuantity)
  IN  CASE q \in {"EXTRA_REFRIGERATOR_QUANTITY", "BALCONY_PATIO_QUANTITY"} ->
             IF quantity = None THEN None ELSE [d.addOns EXCEPT ![AddOnOf(q)] = quantity]
        [] q = "ECO_FRIENDLY_PRODUCTS" -> OneTwo(r)
        [] q = "LAUNDRY_FACILITIES" -> Choice(LAUNDRY_FACILITIES, r)
        [] OTHER -> quantity

-----------------------------------------------------------------------------
(* Visit, access and household *)

VisitFact ==
  [PREFERRED_DATE |-> "preferredDate", ALTERNATIVE_DATE |-> "alternativeDate",
   PREFERRED_TIME |-> "preferredTime", FLEXIBILITY |-> "flexibility", URGENCY |-> "urgency",
   RECURRING_NOTES |-> "recurringNotes", COMPLEX_ACCESS |-> "complexAccess",
   SECURITY_INSTRUCTIONS |-> "securityInstructions", PARKING |-> "parking",
   KEY_HANDOVER |-> "keyHandover", KEY_HANDOVER_DETAILS |-> "keyHandoverDetails",
   SOMEONE_PRESENT |-> "someonePresent", HAS_PETS |-> "hasPets", PET_TYPE |-> "petType",
   PET_TEMPERAMENT |-> "petTemperament"]
VisitQuestions ==
  <<"PREFERRED_DATE", "ALTERNATIVE_DATE", "PREFERRED_TIME", "FLEXIBILITY", "URGENCY",
    "RECURRING_NOTES", "COMPLEX_ACCESS", "SECURITY_INSTRUCTIONS", "PARKING",
    "KEY_HANDOVER", "KEY_HANDOVER_DETAILS", "SOMEONE_PRESENT", "HAS_PETS", "PET_TYPE",
    "PET_TEMPERAMENT">>
VisitMenu ==
  [PREFERRED_TIME |-> <<"MORNING", "MIDDAY", "AFTERNOON", "FLEXIBLE">>,
   COMPLEX_ACCESS |-> <<"ACCESS_CODE", "NOT_APPLICABLE", "VISITOR_SIGN_IN", "RESIDENT_ARRANGED">>,
   KEY_HANDOVER   |-> <<"SOMEONE_WILL_OPEN", "CONCIERGE_RECEPTION", "TO_BE_ARRANGED">>]

VisitApplies(d, q) ==
  CASE q = "KEY_HANDOVER_DETAILS" -> d.keyHandover = "TO_BE_ARRANGED"
    [] q \in {"PET_TYPE", "PET_TEMPERAMENT"} -> d.hasPets = TRUE
    [] OTHER -> TRUE

VisitAnswer(q, r) ==
  CASE q = "PREFERRED_DATE" -> Exactly(r, "DATE")
    [] q = "ALTERNATIVE_DATE" -> DateOr0(r)
    [] q \in DOMAIN VisitMenu -> Choice(VisitMenu[q], r)
    [] q \in {"RECURRING_NOTES", "SECURITY_INSTRUCTIONS", "PARKING"} -> OptionalText(r)
    [] q \in {"SOMEONE_PRESENT", "HAS_PETS"} -> OneTwo(r)
    [] OTHER -> RequiredText(r)

-----------------------------------------------------------------------------
(* Safety, notes, photos and customer details *)

FinalFact ==
  [OFF_LIMITS_AREAS |-> "offLimitsAreas", FRAGILE_ITEMS |-> "fragileItems",
   PRODUCT_RESTRICTIONS |-> "productRestrictions",
   ALLERGIES_OR_SENSITIVITIES |-> "allergiesOrSensitivities",
   EXISTING_DAMAGE |-> "existingDamage", ATTENTION_AREAS |-> "attentionAreas",
   RENOVATION_DUST |-> "renovationDust", APPLIANCE_NOTES |-> "applianceNotes",
   ADDITIONAL_NOTES |-> "additionalNotes", PHOTOS |-> "photos", FULL_NAME |-> "fullName",
   EMAIL |-> "email", MOBILE |-> "mobile", PREFERRED_CONTACT |-> "preferredContact"]
FinalQuestions ==
  <<"OFF_LIMITS_AREAS", "FRAGILE_ITEMS", "PRODUCT_RESTRICTIONS",
    "ALLERGIES_OR_SENSITIVITIES", "EXISTING_DAMAGE", "ATTENTION_AREAS",
    "RENOVATION_DUST", "APPLIANCE_NOTES", "ADDITIONAL_NOTES", "PHOTOS", "FULL_NAME",
    "EMAIL", "MOBILE", "PREFERRED_CONTACT">>

\* messagingQuoteMediaAssetIds finds an image
HasMedia(d) == d.media # None

FinalAnswer(d, q, r) ==
  CASE q = "PHOTOS" ->
         IF IF HasMedia(d) THEN r.word = "DONE" ELSE OneNumber(r, LAMBDA n : n = 0)
         THEN "LISTED" ELSE None
    [] q = "FULL_NAME" -> RequiredText(r)
    [] q \in {"EMAIL", "MOBILE"} -> Exactly(r, q)
    [] q = "PREFERRED_CONTACT" -> Choice(<<"PHONE", "EMAIL", "WHATSAPP">>, r)
    [] OTHER -> OptionalText(r)

ASSUME NoneIsNoQuestion ==
  None \notin DOMAIN HomeFact \cup DOMAIN CleaningFact \cup DOMAIN EventFact
              \cup DOMAIN PersonaliseFact \cup DOMAIN VisitFact \cup DOMAIN FinalFact

-----------------------------------------------------------------------------
(* The next question *)

\* A collector asks the first question that applies and is not answered.
First(questions, open(_)) ==
  LET at == {i \in DOMAIN questions : open(questions[i])}
  IN  IF at = {} THEN None ELSE questions[Min(at)]

NextHome(d) ==
  First(HomeQuestions, LAMBDA q : HomeApplies(d, q) /\ d[HomeFact[q]] = None)

NextEvent(d) ==
  IF d.primaryService # PostEvent THEN None
  ELSE First(EventQuestions, LAMBDA q : d[EventFact[q]] = None)

NextFinal(d) == First(FinalQuestions, LAMBDA q : d[FinalFact[q]] = None)

NextVisit(d) ==
  LET q == First(VisitQuestions, LAMBDA v : VisitApplies(d, v) /\ d[VisitFact[v]] = None)
  IN  IF q # None THEN q ELSE NextFinal(d)

NextPersonalise(d) ==
  LET q == First(PersonaliseQuestions,
                 LAMBDA p : PersonaliseApplies(d, p) /\ PersonaliseUnanswered(d, p))
  IN  IF q # None THEN q ELSE NextVisit(d)

NextCleaning(d) ==
  LET q == First(CleaningQuestions, LAMBDA c : CleaningApplies(d, c) /\ d[CleaningFact[c]] = None)
  IN  IF q # None THEN q
      ELSE IF NextEvent(d) # None THEN None
      ELSE NextPersonalise(d)

\* handleGuidedCollection hands the message to the first collector with a question.
NextQuestion(d) ==
  IF NextHome(d) # None THEN NextHome(d)
  ELSE IF NextCleaning(d) # None THEN NextCleaning(d) ELSE NextEvent(d)

-----------------------------------------------------------------------------
(* What a reply changes *)

\* The patch of an accepted answer, None when the reply is invalid.
AnswerPatch(d, q, r) ==
  LET fact(f, v) == IF v = None THEN None ELSE Fact(f, v)
  IN  IF r.word = "MEDIA" THEN None
      ELSE IF q = "ADD_ONS" THEN AddOnsPatch(d, r)
      ELSE CASE q \in DOMAIN HomeFact -> fact(HomeFact[q], HomeAnswer(d, q, r))
           [] q \in DOMAIN CleaningFact  -> fact(CleaningFact[q], CleaningAnswer(d, q, r))
           [] q \in DOMAIN EventFact     -> fact(EventFact[q], EventAnswer(q, r))
           [] q \in DOMAIN PersonaliseFact -> fact(PersonaliseFact[q], PersonaliseAnswer(d, q, r))
           [] q \in DOMAIN VisitFact     -> fact(VisitFact[q], VisitAnswer(q, r))
           [] OTHER                      -> fact(FinalFact[q], FinalAnswer(d, q, r))

\* Mutant of Section: the first choice clears the type of the home alone.
SectionOfType ==
  <<{"propertyType"}, FactsOf.request, FactsOf.visit, FactsOf.access \cup FactsOf.household,
    FactsOf.safety \cup FactsOf.notes \cup FactsOf.photos \cup {"media"}, FactsOf.customer>>

\* The facts a choice of the correction menu clears.
Section ==
  <<FactsOf.property, FactsOf.request, FactsOf.visit, FactsOf.access \cup FactsOf.household,
    FactsOf.safety \cup FactsOf.notes \cup FactsOf.photos \cup {"media"}, FactsOf.customer>>

CorrectionPatch(r) ==
  IF OneNumber(r, LAMBDA n : n \in DOMAIN Section) THEN [f \in Section[r.numbers[1]] |-> None]
  ELSE None

\* Where a question stands in the order they are asked in
AskingOrder ==
  HomeQuestions \o CleaningQuestions \o EventQuestions \o PersonaliseQuestions
    \o VisitQuestions \o FinalQuestions
Place(q) == CHOOSE i \in DOMAIN AskingOrder : AskingOrder[i] = q

=============================================================================
