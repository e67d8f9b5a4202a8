\* One agreement under every kind of rule; and two agreements under one rule, with
\* passes that take one row and may fail. A request and a pass are in flight.
CONSTANTS
  LastMonth = 7
  MonthFirst <- ShortMonths
  Agreements = {a1, a2}
  Rules <- AllRules
  Days = {9, 10, 11, 12}
  Pauses = {1}
  Requests = {r1}
  Processes = {p1}
  Batch = 1
  MaxFailures = 1
SPECIFICATION ViewsSpec
INVARIANTS OneUpcomingVisit
PROPERTIES VisitIsNext PassKeepsDecisions DueIsResumed
CHECK_DEADLOCK FALSE
