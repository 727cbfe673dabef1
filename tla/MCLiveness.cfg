SPECIFICATION ReplaySpec
CONSTANTS
  p1 = p1
  p2 = p2
  w1 = w1
  w2 = w2
  Put = {p1}
  Get = {g1}
  Round = {}
  Name <- Names4
  Node <- Servers4
  Pref <- PrefList
  Writer <- TwoWriters
  WriteQuorum = 2
  ReadQuorum = 2
  HintedHandoffEnabled = TRUE
  ReadRepairEnabled = FALSE
  Watched <- OneSees3
  Flaky = {2}
  Coord <- AllCall1
PROPERTIES
  PutsAnswered
  GetsAnswered
  
CHECK_DEADLOCK FALSE
