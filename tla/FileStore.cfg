SPECIFICATION Spec
CONSTANTS
  u1 = u1
  u2 = u2
  Users = {u1, u2}
  Files = {"f1,u1", "f2,u2"}
  Author <- MCAuthorEach
  Existing = {"f2,u2"}
  Impatient = FALSE
  MaxAsked = 1
  MaxListed = 2
  MaxEdits = 1
  MaxDrops = 1
  MaxCrashes = 1
INVARIANT TypeOK
INVARIANT UnchangedIsStored
 
PROPERTY IsDocuments
INVARIANT HeldWhileOpen
CHECK_DEADLOCK FALSE
