\* The demo of three workers, three servers, three read repair jobs, and the
\* evaluation of three writes and a read.
SPECIFICATION FairSpec
CONSTANTS
  s1 = s1
  s2 = s2
  s3 = s3
  k1 = k1
  k2 = k2
  j1 = j1
  j2 = j2
  j3 = j3
  x1 = x1
  x2 = x2
  y1 = y1
  x = x
  y = y
  Readers = {reader}
  Writers = {writer1, writer2}
  NumKeys = 2
  MaxAttempts = 2
  MaxCalls = 4
  Server <- Servers
  PrefList <- Prefs
  Options <- AllOptions
  Key = {k1, k2}
  Job <- Jobs
  KeyOf <- KeyOfJob
  Worker = {1, 2}
  Capacity = 1
  NoJob = NoJob
  Name = {x, y}
  Write = {x1, x2, y1}
  Vc <- Clocks
  Writer <- Clients
  Read = {r1}
  MaxTime = 4
  MaxK = 2
INVARIANTS
  FatalErrorReturned
  AttemptsCoverReads
  RunRestored
  CutOffNotPicked
  TakenOnce
  DeltaRegularExact
  KRegularExact
  SweepsRise
PROPERTIES
  JobsTaken
  ScenarioEnds
CHECK_DEADLOCK FALSE
