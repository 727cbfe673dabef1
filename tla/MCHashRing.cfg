SPECIFICATION RingSpec
CONSTANTS
  a = a
  b = b
  c = c
  d = d
  Node = {a, b, c, d}
  InitialIDs <- Three
  NumSectors = 5
  NumReplicas = 2
  BucketsPerSector = 2
  HashSize = 16
INVARIANTS
  SectorsOwned
  
