SPECIFICATION Spec
CONSTANTS
  u1 = u1
  u2 = u2
  f1 = f1
  f2 = f2
  Nil = Nil
  Users = {u1, u2}
  TenantOf <- OneTenant
  Requests = {r1, r2}
  MaxServed = 2
  Faces = {f1}
  Alike <- Same
  Fingers = {}
  PlatformHeads = {}
INVARIANTS UniqueFacePerTenant
CHECK_DEADLOCK FALSE
