\* Three servers, tables lost, delayed and reordered, any age; one server may
\* fall silent for good.
SPECIFICATION FairSpec
CONSTANTS
  a = a
  b = b
  c = c
  Server <- Servers3
  NumNeighbors = 1
  FailureTimeout = 0
  CleanupTimeout = 1
  Pausable <- OnlyA
  MaxHeartbeat <- Beats100
  MaxInFlight = 2
INVARIANTS
  TypeOK
  HeartbeatsGenuine

  
  
