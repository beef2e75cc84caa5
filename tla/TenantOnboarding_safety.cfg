SPECIFICATION ServicesSpec
CONSTANTS
  Nil = Nil
  Emails = {e1, e2}
  Handlers = {h1, h2}
  FirstCode = 1
  LastPadded = 999
  MaxRequests = 1
  MaxTenants = 3
  Tenants = {e1, e2}
  Platform = Platform
  MaxSessions = 2
  MaxCalls = 3
  MaxChanges = 1
  Profiles = {e1, e2}
  Persons = {a1, a2}
  Callers = {h1, h2}
  MaxHandled = 3
  Null = Null
SYMMETRY Symmetry
INVARIANTS ProvisionedAtMostOnce SequentialCodes
INVARIANTS AnnouncementsStayHome ListShowsWhatIsKnown MatchNeedsProfile CheckErrorHasCause
CHECK_DEADLOCK FALSE
