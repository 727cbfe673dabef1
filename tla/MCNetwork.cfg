SPECIFICATION FairSpec
CONSTANTS
  p1 = p1
  p2 = p2
  g1 = g1
  w1 = w1
  w2 = w2
  s1 = s1
  e1 = e1
  Put = {p1}
  Get = {g1}
  Other = {p2}
  Program <- ReadThenWrite
  MaxRetry = 2
  MaxChanges = 2
  Coordinator = s1
  ServerName = {s1}
  Call <- Calls
  End = {e1}
  EndOf <- OneEnd
  ServerOf <- OneServer
  Name <- Names
  Writer <- Writers
  Hung <- Hangs
INVARIANTS
  ReplyFromRegistered
  
  RetriesApplyOnce
PROPERTIES
  KeepsPromise
  CallsReturn
CHECK_DEADLOCK FALSE
