SPECIFICATION Spec
CONSTANTS
  Nil = Nil
  Emails = {e1, e2}
  Handlers = {h1}
  FirstCode = 998
  LastPadded = 999
  MaxRequests = 0
  MaxTenants = 3
INVARIANTS NextCodeIsFree
CHECK_DEADLOCK FALSE
