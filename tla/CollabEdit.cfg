SPECIFICATION Spec
CONSTANTS
  c1 = c1
  c2 = c2
  c3 = c3
  Clients = {c1, c2, c3}
  MaxPos = 10
  Kinds = {"insert", "erase", "replace", "format", "align", "open", "close"}
  Values = {"x", "NL"}
  Formats = {"plain", "bold"}
  Aligns = {"left", "right"}
  Document <- MCLines
  KeyRank <- MCKeyRankMixed
  Rejoin = FALSE
  Scenarios <- MCEditing
INVARIANT LinesWellFormed
INVARIANT TextFollowsApart
 
INVARIANT Converged
INVARIANT LookupsExact
INVARIANT TypeOK
PROPERTY EventuallyConverged
CHECK_DEADLOCK FALSE
