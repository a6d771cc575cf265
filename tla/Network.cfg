SPECIFICATION Spec
CONSTANTS
  Clients = {"c1", "c2", "c3"}
  m_idealThreadCount = 2
  MaxWorkers = 4
  MaxSent = 3
  Limits <- MCLimits
  Messages <- MCMessages
  Header = 2
  Size <- MCSize
INVARIANT TypeOK
INVARIANT LoadsMatch
INVARIANT EndIsLast
PROPERTY PlacedOnLeast
PROPERTY EndsAreNoticed
PROPERTY IsChannel
PROPERTY EverythingArrives
CHECK_DEADLOCK FALSE
