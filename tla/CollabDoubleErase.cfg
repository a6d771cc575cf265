SPECIFICATION Spec
CONSTANTS
  c1 = c1
  c2 = c2
  c3 = c3
  Clients = {c1, c2, c3}
  MaxPos = 6
  Kinds = {"insert", "erase", "replace", "format", "align", "open", "close"}
  Values = {"x"}
  Formats = {"plain", "bold"}
  Aligns = {"left", "right"}
  Document <- MCLines
  KeyRank <- MCKeyRank
  Rejoin = FALSE
  Scenarios <- MCErasing
PROPERTY EraseOnlyNamed
CHECK_DEADLOCK FALSE
