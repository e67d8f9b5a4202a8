\* Customers, access to the office, its attention items and its letters.
CONSTANTS
  None = None
  Nobody = Nobody
  NoEvent = NoEvent
  Customers = {c1, c2}
  Requests = {r1, r2}
  MaxContacts = 2
  Users = {u1, u2, u3}
  Roles = {"ADMIN", "SUPERVISOR", "DISPATCHER", "TECHNICIAN"}
  Orders <- OrderSet
  Handlings = {h1, h2}
  MaxOccurrences = 2
  Bookings = {booking}
  Changes = {change}
  Completions = {completion}
  Writers = {w1}
  MaxVersions = 2
  MaxRecords = 2
  MaxAttempts = 3
SYMMETRY Alike
SPECIFICATION MCSpec
CHECK_DEADLOCK FALSE
INVARIANTS TrustedIdentityOwnsConversation AnAdminRemains WrittenToOnce
PROPERTIES ConversationNeverMoved PrimaryStaysSole ListedIsTrue
