SPECIFICATION Spec
CONSTANTS
  Replica = {r1, r2}
  Name <- MCName
  Object <- MCObject
INVARIANTS
  
  
  SetMergeAgrees
  ReadersIgnoreOrder
