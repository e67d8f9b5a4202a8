\* The Customer answers while a status is being written.
CONSTANTS
  None = None
  ask = ask
  again = again
  answer = answer
  up = up
  other = other
  h1 = h1
  Messages = {ask, again, answer}
  Recoveries = {ask, again}
  Requests <- AllRequests
  Spans <- SpanSet
  Readers <- AllReaders
  Lookers = {p1, p2}
  Handlers = {h1, h2}
  Window = 1
  MaxTime = 2
  MaxCalls = 3
  MaxReplies = 2
  MaxCrashes = 1
SPECIFICATION AnswerSpec
CHECK_DEADLOCK FALSE
PROPERTIES AnswerStaysForReview
