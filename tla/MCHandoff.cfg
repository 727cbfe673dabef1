SPECIFICATION Spec
CONSTANTS
  p1 = p1
  p2 = p2
  w1 = w1
  w2 = w2
  Put = {p1, p2}
  Get = {}
  Round = {}
  Name <- Names4
  Node <- Servers4
  Pref <- PrefList
  Writer <- TwoWriters
  WriteQuorum = 2
  ReadQuorum = 2
  HintedHandoffEnabled = TRUE
  ReadRepairEnabled = FALSE
  Watched <- OneSees2And3
  Flaky = {3}
  Coord <- TheyCall1To4
INVARIANTS
  TypeOK
  AckedPutsHeld
PROPERTIES
  NoRollback
CHECK_DEADLOCK FALSE
