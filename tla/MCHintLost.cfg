SPECIFICATION ReplaySpec
CONSTANTS
  p1 = p1
  p2 = p2
  w1 = w1
  w2 = w2
  Put = {p1}
  Get = {}
  Round = {}
  Name <- Names4
  Node <- Servers4
  Pref <- PrefList
  Writer <- TwoWriters
  WriteQuorum = 2
  ReadQuorum = 2
  HintedHandoffEnabled = TRUE
  ReadRepairEnabled = FALSE
  Watched <- OneSees3
  Flaky = {3}
  Coord <- AllCall1
PROPERTIES
  HintsDrained
CHECK_DEADLOCK FALSE
