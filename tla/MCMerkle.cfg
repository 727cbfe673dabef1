SPECIFICATION FairSpec
CONSTANTS
  n1 = n1
  n2 = n2
  k1 = k1
  k2 = k2
  s1 = s1
  c1 = c1
  c2 = c2
  NoRoot = NoRoot
  Server = {n1, n2}
  Key = {k1, k2}
  Sector = {s1}
  Depth = 2
  Name <- Names
  Location <- Locations
  Owner <- Owners
  Neighbors <- OtherServer
  Input <- Inputs
INVARIANTS
  IndexMatchesStore
  StaleTreeMarked
  DiffBucketsExact

 
CHECK_DEADLOCK FALSE
