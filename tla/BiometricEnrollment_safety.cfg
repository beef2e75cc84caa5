SPECIFICATION PagesSpec
CONSTANTS
  u1 = u1
  u2 = u2
  f1 = f1
  f2 = f2
  Nil = Nil
  Users = {u1, u2}
  TenantOf <- OneTenant
  Requests = {r1, r2}
  MaxServed = 4
  Faces = {f1, f2}
  Alike <- AlikePair
  Fingers = {g1}
  PlatformHeads = {u2}
  MaxScans = 2
  Letters = {r1, r2}
  MaxLetters = 4
  MaxPresses = 2
  MaxCaptures = 2
  MaxSubmits = 2
SYMMETRY RequestSymmetry
INVARIANTS DuplicateNeedsRace SettledIsConsistent
INVARIANTS ScanEnrolsWhatItShows CameraGoesWithPanel BadgesCatchUp SuccessMeansStored PrintWasHeld
CHECK_DEADLOCK FALSE
