SPECIFICATION Spec
CONSTANTS
  p1 = p1
  p2 = p2
  w1 = w1
  w2 = w2
  Put = {p1, p2}
  Get = {g1}
  Round = {}
  Name <- Names3
  Node <- Servers3
  Pref <- PrefList
  Writer <- TwoWriters
  WriteQuorum = 2
  ReadQuorum = 2
  HintedHandoffEnabled = FALSE
  ReadRepairEnabled = FALSE
  Watched <- Nobody
  Flaky = {3}
  Coord <- TheyCall1Or2
INVARIANTS
  ReadSeesAcked
  ErrVersionJustified
CHECK_DEADLOCK FALSE
