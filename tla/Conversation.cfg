\* Two deliveries at once with changes of control; three messages one after the
\* other with a human review; and two form sessions with two offers.
CONSTANTS
  NQuestions = 1
  Answers = {"1", "2", "3"}
  Invalid <- RefusedDrafts
  SectionOf <- FirstQuestionMenu
  NMessages = 3
  Workers = {w1, w2}
  MaxFailures = 1
  MaxTransfers = 2
  MaxReviews = 1
  NSessions = 2
  FormFacts = {f1, f2}
  Unclear = {f2}
  Offers = {o1, o2}
  Filings = {d1, d2}
  None = None
SPECIFICATION ViewsSpec
PROPERTIES ImplementsQuoteRequest TakeoverStopsDeliveries FormOutcomeIsFinal ConfirmedIsSubmitted
CHECK_DEADLOCK FALSE
