--------------------------- MODULE Questionnaire ---------------------------
(***************************************************************************)
(* One customer answers the guided questions, reviews the summary, corrects*)
(* sections of it and confirms; the facts become a priced Quote, which an  *)
(* Admin may review.  The Website's form leads to the same Quote.          *)
(*                                                                         *)
(* Messages are handled one at a time here: their interleavings, repeated  *)
(* deliveries and the takeover by a person are Conversation's.             *)
(***************************************************************************)
EXTENDS GuidedQuestions, QuotePricing

CONSTANTS
  Replies,       \* what the customer may write
  WebsiteForms,  \* the drafts a visitor may submit on the Website
  Scopes         \* the add-on scopes an Admin may choose

ASSUME RepliesAreReplies == \A r \in Replies : IsReply(r)
ASSUME FormsAreDrafts    == \A d \in WebsiteForms : d = [f \in Facts |-> d[f]]

VARIABLES
  draft,    \* the facts of the conversation's quoteState
  asked,    \* whose prompt was accepted by the provider under this version
  summary,  \* the review summary was presented for this version
  quote     \* the Quote made, with its facts, its channel and its pricing

vars == <<draft, asked, summary, quote>>

-----------------------------------------------------------------------------
(* Rows *)

Questions == {AskingOrder[i] : i \in DOMAIN AskingOrder}

NewQuote(d, structured) ==
  [facts |-> d, structured |-> structured, scopes |-> [a \in {} |-> None],
   pricing |-> SubmittedPricing(d, structured)]

TypeOK ==
  /\ DOMAIN draft = Facts
  /\ asked \in Questions \cup {"MENU", None}
  /\ summary \in BOOLEAN
  /\ quote # None => /\ quote.pricing.total \in Nat
                     /\ quote.structured \in BOOLEAN
                     /\ DOMAIN quote.scopes \subseteq AddOnServices

Init ==
  /\ draft = EmptyDraft
  /\ asked = None
  /\ summary = FALSE
  /\ quote = None

-----------------------------------------------------------------------------
(* The guided collection *)

Collecting == quote = None /\ IncompleteGroups(draft) # {}
Reviewing  == quote = None /\ IncompleteGroups(draft) = {}

\* The prompt of question q is accepted by the provider, or its send fails.
Prompt(q) == asked' \in {q, None}

\* What a handler asks after an accepted answer to q.
Following(q, d) ==
  IF q \in DOMAIN HomeFact /\ NextHome(d) # None THEN NextHome(d)
  ELSE IF q \in DOMAIN EventFact /\ NextEvent(d) # None THEN NextEvent(d)
  ELSE IF NextCleaning(d) # None THEN NextCleaning(d)
  ELSE IF q \notin DOMAIN HomeFact THEN NextEvent(d) ELSE None

\* A message arrives before the open question was put to the customer.
AskQuestion ==
  /\ Collecting
  /\ NextQuestion(draft) \notin {None, asked}
  /\ Prompt(NextQuestion(draft))
  /\ UNCHANGED <<draft, summary, quote>>

\* The customer answers the open question; an invalid reply changes nothing.
AnswerQuestion(r) ==
  LET q == NextQuestion(draft)
      patch == AnswerPatch(draft, q, r)
  IN  /\ Collecting
      /\ q # None /\ asked = q
      /\ patch # None
      /\ draft' = Patched(patch, draft)
      /\ Prompt(Following(q, draft'))
      /\ UNCHANGED <<summary, quote>>

\* A secured image is added to the photos, and the question asked once more.
AddPhoto(r) ==
  /\ Collecting
  /\ NextQuestion(draft) = "PHOTOS" /\ asked = "PHOTOS"
  /\ r.word = "MEDIA"
  /\ draft' = [draft EXCEPT !.media = "IMAGES"]
  /\ Prompt("PHOTOS")
  /\ UNCHANGED <<summary, quote>>

-----------------------------------------------------------------------------
(* Review, correction and confirmation *)

\* Any message shows the summary first.
PresentSummary ==
  /\ Reviewing /\ ~summary
  /\ summary' = TRUE
  /\ asked' = None
  /\ UNCHANGED <<draft, quote>>

OpenMenu(r) ==
  /\ Reviewing /\ summary
  /\ r.word = "CHANGE"
  /\ asked' \in {"MENU", asked}
  /\ UNCHANGED <<draft, summary, quote>>

\* The chosen section is cleared and collected again.
Correct(r) ==
  /\ Reviewing /\ summary /\ asked = "MENU"
  /\ CorrectionPatch(r) # None
  /\ draft' = Patched(CorrectionPatch(r), draft)
  /\ summary' = FALSE
  /\ Prompt(NextQuestion(draft'))
  /\ UNCHANGED quote

\* The draft is validated once more, priced and made a Quote.
Confirm(r) ==
  /\ Reviewing /\ summary
  /\ r.word = "CONFIRM"
  /\ quote' = NewQuote(draft, FALSE)
  /\ UNCHANGED <<draft, asked, summary>>

-----------------------------------------------------------------------------
(* The other ways to a price *)

\* A visitor submits the Website's form, of schema 2.0.
SubmitOnWebsite(d) ==
  /\ quote = None /\ draft = EmptyDraft
  /\ IncompleteGroups(d) = {}
  /\ quote' = NewQuote(d, TRUE)
  /\ UNCHANGED <<draft, asked, summary>>

\* An Admin names the scope of an add-on; the new revision is priced with it.
ReviewPricing(addOn, scope) ==
  /\ quote # None
  /\ addOn \in DOMAIN quote.facts.addOns
  /\ LET scopes == Patched(Fact(addOn, scope), quote.scopes)
     IN  quote' = [quote EXCEPT !.scopes = scopes,
                                !.pricing = ReviewedPricing(quote.facts, quote.structured, scopes)]
  /\ UNCHANGED <<draft, asked, summary>>

-----------------------------------------------------------------------------

Reply(r) ==
  \/ AnswerQuestion(r)
  \/ AddPhoto(r)
  \/ OpenMenu(r)
  \/ Correct(r)
  \/ Confirm(r)

Next ==
  \/ AskQuestion
  \/ PresentSummary
  \/ \E r \in Replies : Reply(r)
  \/ \E d \in WebsiteForms : SubmitOnWebsite(d)
  \/ \E a \in AddOnServices, s \in Scopes : ReviewPricing(a, s)

Spec == Init /\ [][Next]_vars

-----------------------------------------------------------------------------
(* Properties *)

\* A draft that is not complete always has a question to ask: what the
\* validator misses, some collector asks for.  Otherwise the conversation
\* stays COLLECTING and every message of the customer goes unanswered.
NeverStuck == Collecting => NextQuestion(draft) # None

\* Whatever was corrected on the way, the facts a conversation makes a Quote of fit
\* its own choices: no detail of an earlier choice is left over.  (What a form of
\* the Website leaves behind is the Website's, and the contract takes it.)
FactsFitTheChoices ==
  quote # None /\ ~quote.structured =>
    LET f == quote.facts
    IN  /\ f.propertyType # "APARTMENT" => f.exactFloor = None /\ f.buildingAccess = None
        /\ f.primaryService # PostEvent => \A e \in EventFacts : f[e] = None
        /\ f.frequency # "CUSTOM" => f.customFrequencyNote = None
        /\ ~LaundryEligible(f.primaryService) => ~LaundrySupplied(f)
        /\ f.laundryLoads = None => f.facilities = None
        /\ f.keyHandover # "TO_BE_ARRANGED" => f.keyHandoverDetails = None
        /\ f.hasPets = FALSE => f.petType = None /\ f.petTemperament = None

\* A price whose costs are known keeps a margin of 20% of the price, and of
\* 100 rand, above the operational cost.
MarginKept ==
  quote # None /\ CostsReady(quote.facts) =>
    LET margin == quote.pricing.total - CostTotal(quote.facts)
    IN  margin >= 10000 /\ 5 * margin >= quote.pricing.total

\* The same request for a home of the next floor size never costs less.
BiggerNeverCheaper ==
  quote # None /\ quote.facts.floorSize \in ToSet(FloorSizes) \ {"FROM_300_UP"} =>
    LET f      == quote.facts
        bigger == [f EXCEPT !.floorSize = FloorSizes[FloorIndex(f.floorSize) + 1]]
    IN  CostsReady(f) /\ CostsReady(bigger) =>
          ReviewedPricing(f, quote.structured, quote.scopes).total
            =< ReviewedPricing(bigger, quote.structured, quote.scopes).total

=============================================================================
