SPECIFICATION Spec
CONSTANTS
  p1 = p1
  p2 = p2
  w1 = w1
  w2 = w2
  Put = {p1, p2, p3}
  Get = {}
  Round = {r1}
  Name <- Names3
  Node <- Servers3
  Pref <- PrefList
  Writer <- TwoWriters
  WriteQuorum = 1
  ReadQuorum = 2
  HintedHandoffEnabled = FALSE
  ReadRepairEnabled = FALSE
  Watched <- Nobody
  Flaky = {}
  Coord <- AllCall1
PROPERTIES
  NeighborKeepsWrites
CHECK_DEADLOCK FALSE
