SPECIFICATION Spec
CONSTANTS
  p1 = p1
  p2 = p2
  w1 = w1
  w2 = w2
  Put = {p1, p2}
  Get = {g1}
  Round = {r1}
  Name <- Names2
  Node <- Servers2
  Pref <- TwoReplicas
  Writer <- TwoWriters
  WriteQuorum = 1
  ReadQuorum = 1
  HintedHandoffEnabled = FALSE
  ReadRepairEnabled = TRUE
  Watched <- Nobody
  Flaky = {2}
  Coord <- TheyCall1And2
INVARIANTS
  SiblingsAntichain
  RepairedReplicasCover
  ExchangeCovers
CHECK_DEADLOCK FALSE
