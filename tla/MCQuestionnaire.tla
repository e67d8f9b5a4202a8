-------------------------- MODULE MCQuestionnaire --------------------------
(* A small instance of Questionnaire for TLC, in several views: each view   *)
(* varies the replies to some questions and scripts those to the others.    *)
EXTENDS Questionnaire

VARIABLE view

mcVars == <<draft, asked, summary, quote, view>>

\* Every reply that is told apart by some collector
AnyReply ==
  {Numbers(<<n>>) : n \in 0..15}
    \cup {Numbers(<<7, 10>>), Numbers(<<1, 11, 12, 13>>), Numbers(<<1, 4>>)}
    \cup {Word(w) : w \in Words \ {"NUMBERS"}}

\* One sensible reply to each question
Script(q) ==
  CASE q \in {"ADDRESS_LINE_1", "SUBURB", "FLEXIBILITY", "URGENCY", "FULL_NAME",
              "CUSTOM_FREQUENCY_NOTE", "KEY_HANDOVER_DETAILS", "PET_TYPE",
              "PET_TEMPERAMENT"} -> Word("TEXT")
    [] q = "COUNTRY_CONFIRMATION" -> Word("YES")
    [] q \in {"KITCHEN_USED", "SIGNIFICANT_SOILING", "OVERNIGHT", "BULK_WASTE",
              "SPECIALIST_CONTAMINATION", "SPECIALIST_CARPET_UPHOLSTERY",
              "COMPLEX_VENUE"} -> Word("NO")
    [] q = "PREFERRED_DATE" -> Word("DATE")
    [] q \in {"EMAIL", "MOBILE"} -> Word(q)
    [] q \in {"BEDROOMS", "FLOOR_SIZE"} -> Numbers(<<2>>)
    [] q \in {"ECO_FRIENDLY_PRODUCTS", "HAS_PETS"} -> Numbers(<<2>>)
    [] q \in {"ALTERNATIVE_DATE", "RECURRING_NOTES", "SECURITY_INSTRUCTIONS", "PARKING",
              "ADD_ONS", "OUTDOOR_AREAS", "PHOTOS"} \cup
             {FinalQuestions[i] : i \in 1..9} -> Numbers(<<0>>)
    [] OTHER -> Numbers(<<1>>)

\* The questions a view varies, with the numbers it tries; words are all tried
Views ==
  [home     |-> [PROPERTY_TYPE |-> 0..6, BEDROOMS |-> 1..2, APARTMENT_FLOOR |-> {0, 5},
                 COUNTRY_CONFIRMATION |-> {}],
   service  |-> [FLOOR_SIZE |-> 1..10, PRIMARY_SERVICE |-> 1..15],
   rooms    |-> [BATHROOMS |-> 1..5, LIVING_AREAS |-> {1, 4}, PRIMARY_SERVICE |-> 7..9],
   addOns   |-> [ADD_ONS |-> 0..15, EXTRA_REFRIGERATOR_QUANTITY |-> {0, 1, 3}],
   laundry  |-> [PRIMARY_SERVICE |-> 1..3, ADD_ONS |-> {0, 7, 12, 13}, LAUNDRY_FACILITIES |-> 1..3],
   event    |-> [PRIMARY_SERVICE |-> {1, 14}, GUEST_BAND |-> {1, 4, 5}, EXACT_BATHROOMS |-> {0, 1, 9},
                 OUTDOOR_AREAS |-> {0, 5}],
   visit    |-> [FREQUENCY |-> 1..5, ALTERNATIVE_DATE |-> {0, 1}, RECURRING_NOTES |-> {0},
                 KEY_HANDOVER |-> {1, 3}, HAS_PETS |-> 1..2],
   customer |-> [PHOTOS |-> {0}, EMAIL |-> {}, ATTENTION_AREAS |-> {0}, PREFERRED_CONTACT |-> 0..4]]

Tried(q) == {r \in Replies : \/ r.word # "NUMBERS" \/ Len(r.numbers) > 1
                             \/ r.numbers[1] \in Views[view][q]}

\* The sections the customer of a view may correct
Corrected ==
  [home |-> {1}, service |-> {2}, rooms |-> {1}, addOns |-> {2}, laundry |-> {2},
   event |-> {2}, visit |-> {3, 4}, customer |-> {5, 6}]

\* Forms of the Website: a Townhouse without a floor, laundry, a large Deep Cleaning
Form(type, service, size, addOns, loads) ==
  [f \in Facts |->
     CASE f = "propertyType" -> type
       [] f = "primaryService" -> service
       [] f = "floorSize" -> size
       [] f = "addOns" -> addOns
       [] f \in {"laundryLoads", "ironingLoads"} -> loads
       [] f = "facilities" -> IF loads = None THEN None ELSE "WASHER_DRYER"
       [] f \in {"addressLine1", "suburb", "flexibility", "urgency", "fullName"} -> "TEXT"
       [] f = "country" -> "South_Africa"
       [] f \in {"bedrooms", "bathrooms", "livingAreas"} -> "TWO"
       [] f \in {"outdoorArea", "estateClassification"} -> "NONE"
       [] f = "frequency" -> "ONE_TIME"
       [] f = "homeCondition" -> "STANDARD"
       [] f = "preferredDate" -> "DATE"
       [] f = "preferredTime" -> "MORNING"
       [] f = "complexAccess" -> "NOT_APPLICABLE"
       [] f = "keyHandover" -> "SOMEONE_WILL_OPEN"
       [] f \in {"someonePresent", "hasPets"} -> FALSE
       [] f \in SafetyFacts \cup NotesFacts -> ""
       [] f \in {"email", "mobile"} -> IF f = "email" THEN "EMAIL" ELSE "MOBILE"
       [] f = "preferredContact" -> "PHONE"
       [] f = "photos" -> "LISTED"
       [] OTHER -> None]

NoAddOns == [a \in {} |-> 0]
TwoAddOns == [a \in {"Inside_Oven_Cleaning", "Pet_Hair_Treatment"} |-> 1]

Forms ==
  {Form("TOWNHOUSE", "Regular_Home_Cleaning", "FROM_80_TO_99", NoAddOns, 2),
   Form("HOUSE", "Deep_Cleaning", "FROM_220_TO_299", NoAddOns, None),
   Form("HOUSE", "Deep_Cleaning", "FROM_300_UP", TwoAddOns, 1),
   Form("HOUSE", "Move_Out_Cleaning", "UNDER_40", TwoAddOns, 1)}

AdminScopes == {"STANDARD_SINGLE", "SEVERE_LARGE", "LARGER_MULTI_CAR", "DOUBLE", "STANDARD"}

MCInit == Init /\ view \in DOMAIN Views

\* The replies of the customer of this view: the script, but to its questions
Offered ==
  IF Collecting
  THEN LET q == NextQuestion(draft)
       IN  IF q \in DOMAIN Views[view] THEN Tried(q) ELSE {Script(q)}
  ELSE {r \in Replies : r.word = "NUMBERS" => ToSet(r.numbers) \subseteq Corrected[view]}

MCNext ==
  /\ \/ AskQuestion
     \/ PresentSummary
     \/ \E r \in Offered : Reply(r)
     \/ \E d \in WebsiteForms : view = "addOns" /\ SubmitOnWebsite(d)
     \/ \E a \in AddOnServices, s \in Scopes : view = "addOns" /\ ReviewPricing(a, s)
  /\ UNCHANGED view

MCSpec == MCInit /\ [][MCNext]_mcVars

=============================================================================
