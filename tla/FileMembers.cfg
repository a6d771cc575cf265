SPECIFICATION Spec
CONSTANTS
  u1 = u1
  u2 = u2
  Users = {u1, u2}
  Files = {"f1,u1", "f2,u2"}
  Author <- MCAuthorEach
  Existing = {"f1,u1", "f2,u2"}
  Impatient = FALSE
  MaxAsked = 1
  MaxListed = 2
  MaxEdits = 1
  MaxDrops = 1
  MaxCrashes = 0
INVARIANT MembersEdit
PROPERTY EditsAreStored
INVARIANT NoDeletedWorkers
CHECK_DEADLOCK FALSE
