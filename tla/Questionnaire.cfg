\* Eight views of one conversation, each with its section corrected.
CONSTANTS
  None = None
  CoidaRate = 83
  RouteKm = 24
  Replies <- AnyReply
  WebsiteForms <- Forms
  Scopes <- AdminScopes
SPECIFICATION MCSpec
INVARIANTS NeverStuck FactsFitTheChoices MarginKept BiggerNeverCheaper
CHECK_DEADLOCK FALSE
