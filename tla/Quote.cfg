\* Two responses on two links with a pricing review and an Admin; and two
\* sends at once with their recovery, an Admin and a pricing review.
CONSTANTS
  Admins = {d1}
  Grants = {g1, g2}
  MaxQuoteRevisions = 2
  Pricers = {p1}
  Responders = {r1, r2}
  Senders = {s1, s2}
  Recoverers = {c1}
  MaxAttempts = 2
  Nobody = Nobody
SPECIFICATION ViewsSpec
INVARIANTS ConvertedOnce CustomerDecisionEvidenced ToldTheTruth OutcomeIsTrue
PROPERTIES DecisionIsFinal AnswerRecordedInTime UncertainOnlyByRaces
SYMMETRY QuoteSymmetry
CHECK_DEADLOCK FALSE
