SPECIFICATION Spec
CONSTANTS
  u1 = u1
  u2 = u2
  Users = {u1, u2}
  Files = {"f1,u1"}
  Author <- MCAuthorOne
  Existing = {"f1,u1"}
  Impatient = FALSE
  MaxAsked = 1
  MaxListed = 2
  MaxEdits = 1
  MaxDrops = 0
  MaxCrashes = 1
INVARIANT ListedIsStored
CHECK_DEADLOCK FALSE
