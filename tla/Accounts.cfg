SPECIFICATION Spec
CONSTANTS
  Clients = {"c1", "c2"}
  Users = {"ann", "bob"}
  Passwords = {"p", "q"}
  Nicknames = {"a", "b"}
  FirstPart <- MCFirstPart
  Registered <- MCRegistered
  Failing <- MCFailing
  Starts <- MCStarts
  MaxConnections = 2
INVARIANT TypeOK
INVARIANT OneSession
INVARIANT SessionsMatch
INVARIANT NicknamesAgree
INVARIANT ToldIsStored
PROPERTY OwnChanges
 
CHECK_DEADLOCK FALSE
