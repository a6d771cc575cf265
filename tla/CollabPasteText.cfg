SPECIFICATION Spec
CONSTANTS
  c1 = c1
  c2 = c2
  c3 = c3
  Clients = {c1, c2, c3}
  MaxPos = 6
  Kinds = {"insert", "erase", "replace", "format", "align", "open", "close"}
  Values = {"x", "y"}
  Formats = {"plain", "bold"}
  Aligns = {"left", "right"}
  Document <- MCBlank
  KeyRank <- MCKeyRank
  Rejoin = FALSE
  Scenarios <- MCPasting
INVARIANT TextFollows
CHECK_DEADLOCK FALSE
